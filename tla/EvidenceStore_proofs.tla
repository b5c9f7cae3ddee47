------------------------- MODULE EvidenceStore_proofs -------------------------
(***************************************************************************)
(* Proofs about EvidenceStore, for any events, alerts and incidents, any   *)
(* outcome of a write and any number of restarts.                          *)
(*                                                                         *)
(* PromiseKept is not inductive: the alert that holds a promised piece of  *)
(* evidence for readers and the one that holds it in the tables might be   *)
(* two, and a write to the one could then lose what the other keeps.       *)
(* Joint says that one alert holds it in both; that its row can only be    *)
(* overwritten by a merge needs Keyed: the id of a row determines its key. *)
(***************************************************************************)
EXTENDS EvidenceStore, TLAPS

AlertTables(sources) == UNION {[D -> RowsFrom(sources)] : D \in SUBSET AlertIds}

IncidentTables ==
  UNION {[D -> IncidentRows] : D \in SUBSET {i.id : i \in Incidents}}

Stores(sources) ==
  [events : SUBSET Events, behaviors : SUBSET Behaviors,
   alerts : AlertTables(sources), incidents : IncidentTables]

Old == {"", "server", "collector"}
New == {"server", "collector"}

Typed ==
  /\ db \in Stores(Old)
  /\ cache \in Stores(New)
  /\ promised \in [events : SUBSET Events, evidence : SUBSET (AlertKeys \X Events)]

Keyed(store) == \A a \in Alerts : a.id \in DOMAIN store.alerts => store.alerts[a.id].key = a.key

HeldIn(store, id, p) == id \in Open(store, p[1]) /\ p[2] \in store.alerts[id].events

Joint ==
  /\ promised.events \subseteq cache.events \intersect db.events
  /\ \A p \in promised.evidence : \E id \in AlertIds : HeldIn(cache, id, p) /\ HeldIn(db, id, p)

Inv == Typed /\ Keyed(db) /\ Keyed(cache) /\ Joint

-----------------------------------------------------------------------------
(***************************************************************************)
(* Tables.                                                                 *)
(***************************************************************************)

\* Put writes one row and leaves the others as they are.
LEMMA PutRows ==
  ASSUME NEW table, NEW id, NEW row
  PROVE  /\ DOMAIN Put(table, id, row) = DOMAIN table \union {id}
         /\ Put(table, id, row)[id] = row
         /\ \A i \in DOMAIN table : i # id => Put(table, id, row)[i] = table[i]
BY DEF Put

\* Put keeps a table of alerts one.
LEMMA PutAlert ==
  ASSUME NEW sources, NEW table \in AlertTables(sources), NEW id \in AlertIds,
         NEW row \in RowsFrom(sources)
  PROVE  Put(table, id, row) \in AlertTables(sources)
<1>1. PICK D \in SUBSET AlertIds : table \in [D -> RowsFrom(sources)]
  BY DEF AlertTables
<1>2. Put(table, id, row) \in [D \union {id} -> RowsFrom(sources)]
  BY <1>1 DEF Put
<1> QED
  BY <1>2 DEF AlertTables

\* And a table of incidents one.
LEMMA PutIncident ==
  ASSUME NEW table \in IncidentTables, NEW id \in {i.id : i \in Incidents},
         NEW row \in IncidentRows
  PROVE  Put(table, id, row) \in IncidentTables
<1>1. PICK D \in SUBSET {i.id : i \in Incidents} : table \in [D -> IncidentRows]
  BY DEF IncidentTables
<1>2. Put(table, id, row) \in [D \union {id} -> IncidentRows]
  BY <1>1 DEF Put
<1> QED
  BY <1>2 DEF IncidentTables

\* A row of a table of alerts.
LEMMA RowOf ==
  ASSUME NEW sources, NEW table \in AlertTables(sources), NEW id \in DOMAIN table
  PROVE  id \in AlertIds /\ table[id] \in RowsFrom(sources)
BY DEF AlertTables

\* Loading gives every alert a source and leaves keys, status and evidence.
LEMMA Loaded ==
  ASSUME NEW tables \in Stores(Old)
  PROVE  /\ Load(tables) \in Stores(New)
         /\ Load(tables).events = tables.events
         /\ Load(tables).behaviors = tables.behaviors
         /\ Load(tables).incidents = tables.incidents
         /\ DOMAIN Load(tables).alerts = DOMAIN tables.alerts
         /\ \A id \in DOMAIN tables.alerts :
              /\ Load(tables).alerts[id].key = tables.alerts[id].key
              /\ Load(tables).alerts[id].status = tables.alerts[id].status
              /\ Load(tables).alerts[id].events = tables.alerts[id].events
              /\ tables.alerts[id].source # "" => Load(tables).alerts[id] = tables.alerts[id]
<1> DEFINE Sourced(row) == [row EXCEPT !.source = IF @ = "" THEN "server" ELSE @]
           table == [id \in DOMAIN tables.alerts |-> Sourced(tables.alerts[id])]
<1>1. Load(tables) = [tables EXCEPT !.alerts = table]
  BY DEF Load
<1>2. PICK D \in SUBSET AlertIds : tables.alerts \in [D -> RowsFrom(Old)]
  BY DEF Stores, AlertTables
<1>3. ASSUME NEW row \in RowsFrom(Old)
      PROVE  /\ Sourced(row) \in RowsFrom(New)
             /\ Sourced(row).key = row.key
             /\ Sourced(row).status = row.status
             /\ Sourced(row).events = row.events
             /\ row.source # "" => Sourced(row) = row
  BY DEF RowsFrom, Old, New
<1>4. table \in [D -> RowsFrom(New)] /\ DOMAIN table = D
  BY <1>2, <1>3
<1>5. table \in AlertTables(New)
  BY <1>4 DEF AlertTables
<1>6. /\ Load(tables) \in Stores(New)
      /\ Load(tables).events = tables.events
      /\ Load(tables).behaviors = tables.behaviors
      /\ Load(tables).incidents = tables.incidents
      /\ Load(tables).alerts = table
  BY <1>1, <1>5 DEF Stores
<1> HIDE DEF Sourced
<1> QED
  BY <1>2, <1>3, <1>4, <1>6

-----------------------------------------------------------------------------
(***************************************************************************)
(* The row an alert is stored in.                                          *)
(***************************************************************************)

\* The row written at a home of the alert is an alert row of the alert's key,
\* names its evidence, and keeps what the row read there held open.
LEMMA RowWritten ==
  ASSUME cache \in Stores(New), Keyed(cache), NEW a \in Alerts, NEW id \in Homes(a)
  PROVE  /\ id \in AlertIds
         /\ NewRow(id, a) \in RowsFrom(New)
         /\ NewRow(id, a).key = a.key
         /\ a.events \subseteq NewRow(id, a).events
         /\ \A b \in Alerts : b.id = id => b.key = a.key
         /\ \A p : HeldIn(cache, id, p) =>
              /\ p[1] = a.key
              /\ NewRow(id, a).status = "open"
              /\ p[2] \in NewRow(id, a).events
<1> cache.alerts \in AlertTables(New)
  BY DEF Stores
<1>0. a \in [id : AlertIds, key : AlertKeys, status : {"open", "closed"},
             source : New, events : SUBSET Events]
  BY StoreAssumption DEF New
<1>1. CASE id \in Open(cache, a.key)
  <2> DEFINE old == cache.alerts[id]
  <2>1. id \in DOMAIN cache.alerts /\ old.key = a.key /\ old.status = "open"
    BY <1>1 DEF Open
  <2>2. id \in AlertIds /\ old \in RowsFrom(New)
    BY <2>1, RowOf
  <2>3. NewRow(id, a) = [old EXCEPT !.events = @ \union a.events,
                           !.source = IF a.source = "collector" \/ @ = ""
                                      THEN a.source ELSE @]
    BY <1>1 DEF NewRow, Merged
  <2> HIDE DEF old
  <2>4. /\ NewRow(id, a) \in RowsFrom(New)
        /\ NewRow(id, a).key = old.key
        /\ NewRow(id, a).status = old.status
        /\ NewRow(id, a).events = old.events \union a.events
    BY <1>0, <2>2, <2>3 DEF RowsFrom, New
  <2>5. \A b \in Alerts : b.id = id => b.key = a.key
    BY <2>1 DEF Keyed, old
  <2>6. ASSUME NEW p, HeldIn(cache, id, p)
        PROVE  p[1] = a.key /\ p[2] \in old.events
    BY <2>1, <2>6 DEF HeldIn, Open, old
  <2> QED
    BY <2>1, <2>2, <2>4, <2>5, <2>6
<1>2. CASE id \notin Open(cache, a.key)
  <2>1. id = a.id /\ Open(cache, a.key) = {}
    BY <1>2 DEF Homes
  <2>2. NewRow(id, a) = Row(a)
    BY <1>2 DEF NewRow
  <2>3. /\ id \in AlertIds
        /\ Row(a) \in RowsFrom(New) /\ Row(a).key = a.key /\ Row(a).events = a.events
    BY <1>0, <2>1 DEF Row, RowsFrom, AlertIds
  <2>4. \A b \in Alerts : b.id = id => b.key = a.key
    BY <2>1, StoreAssumption
  <2>5. ASSUME NEW p, HeldIn(cache, id, p)
        PROVE  FALSE
    <3>1. id \in DOMAIN cache.alerts /\ cache.alerts[id].status = "open"
      BY <2>5 DEF HeldIn, Open
    <3>2. cache.alerts[id].key = a.key
      BY <2>1, <3>1 DEF Keyed
    <3> QED
      BY <1>2, <3>1, <3>2 DEF Open
  <2> QED
    BY <2>2, <2>3, <2>4, <2>5
<1> QED
  BY <1>1, <1>2

\* Writing that row to a store, be it the tables or the cache.
LEMMA RowPut ==
  ASSUME cache \in Stores(New), Keyed(cache), NEW a \in Alerts, NEW id \in Homes(a),
         NEW sources \in {Old, New}, NEW store \in Stores(sources), Keyed(store),
         NEW next, next = [store EXCEPT !.alerts = Put(@, id, NewRow(id, a))]
  PROVE  /\ next \in Stores(sources)
         /\ next.events = store.events
         /\ Keyed(next)
         /\ \A p, i : HeldIn(cache, i, p) /\ HeldIn(store, i, p) => HeldIn(next, i, p)
         /\ NewRow(id, a).status = "open" =>
              \A e \in a.events : HeldIn(next, id, <<a.key, e>>)
<1> DEFINE row == NewRow(id, a)
           table == Put(store.alerts, id, row)
<1>1. /\ id \in AlertIds /\ row \in RowsFrom(New) /\ row.key = a.key
      /\ a.events \subseteq row.events
      /\ \A b \in Alerts : b.id = id => b.key = a.key
      /\ \A p : HeldIn(cache, id, p) =>
           p[1] = a.key /\ row.status = "open" /\ p[2] \in row.events
  BY RowWritten
<1> HIDE DEF row
<1>2. row \in RowsFrom(sources)
  BY <1>1 DEF RowsFrom, Old, New
<1>3. store.alerts \in AlertTables(sources)
  BY DEF Stores
<1>4. table \in AlertTables(sources)
  BY <1>1, <1>2, <1>3, PutAlert
<1>5. /\ DOMAIN table = DOMAIN store.alerts \union {id}
      /\ table[id] = row
      /\ \A i \in DOMAIN store.alerts : i # id => table[i] = store.alerts[i]
  BY DEF Put
<1> HIDE DEF table
<1>6. next = [store EXCEPT !.alerts = table]
  BY DEF table, row
<1>7. next \in Stores(sources) /\ next.events = store.events /\ next.alerts = table
  BY <1>4, <1>6 DEF Stores
<1>8. Keyed(next)
  BY <1>1, <1>5, <1>7 DEF Keyed
<1>9. ASSUME NEW p, NEW i, HeldIn(cache, i, p), HeldIn(store, i, p)
      PROVE  HeldIn(next, i, p)
  BY <1>1, <1>5, <1>7, <1>9 DEF HeldIn, Open
<1>10. ASSUME row.status = "open", NEW e \in a.events
       PROVE  HeldIn(next, id, <<a.key, e>>)
  BY <1>1, <1>5, <1>7, <1>10 DEF HeldIn, Open
<1> QED
  BY <1>7, <1>8, <1>9, <1>10 DEF row

-----------------------------------------------------------------------------
(***************************************************************************)
(* The steps.                                                              *)
(***************************************************************************)

\* An operation that changes no alert keeps what alerts hold.
LEMMA HeldSame ==
  ASSUME NEW store, NEW next, next.alerts = store.alerts
  PROVE  /\ Keyed(store) => Keyed(next)
         /\ \A p, i : HeldIn(store, i, p) => HeldIn(next, i, p)
BY DEF Keyed, HeldIn, Open

\* The evidence of a reported alert joins the promise.
LEMMA AlertStep ==
  ASSUME Inv, NEW a \in Alerts, NEW id \in Homes(a), NEW outcome \in Outcomes,
         AddAlert(id, a, outcome)
  PROVE  Inv'
<1> DEFINE Next(store) == [store EXCEPT !.alerts = Put(@, id, NewRow(id, a))]
           pairs == IF NewRow(id, a).status = "open" THEN {a.key} \X a.events ELSE {}
<1>1. /\ db' = IF outcome = "failed" THEN db ELSE Next(db)
      /\ cache' = IF outcome = "ok" THEN Next(cache) ELSE cache
      /\ promised' = IF outcome = "ok"
                     THEN [events |-> promised.events \union {},
                           evidence |-> promised.evidence \union pairs]
                     ELSE promised
  BY DEF AddAlert, Write, Promise
<1>2. /\ Next(db) \in Stores(Old) /\ Next(db).events = db.events /\ Keyed(Next(db))
      /\ \A p, i : HeldIn(cache, i, p) /\ HeldIn(db, i, p) => HeldIn(Next(db), i, p)
      /\ NewRow(id, a).status = "open" =>
           \A e \in a.events : HeldIn(Next(db), id, <<a.key, e>>)
  BY RowPut DEF Inv, Typed
<1>3. /\ Next(cache) \in Stores(New) /\ Next(cache).events = cache.events /\ Keyed(Next(cache))
      /\ \A p, i : HeldIn(cache, i, p) => HeldIn(Next(cache), i, p)
      /\ NewRow(id, a).status = "open" =>
           \A e \in a.events : HeldIn(Next(cache), id, <<a.key, e>>)
  BY RowPut DEF Inv, Typed
<1>4. id \in AlertIds
  BY RowWritten DEF Inv, Typed
<1> HIDE DEF Next
<1>5. pairs \subseteq AlertKeys \X Events
  BY StoreAssumption DEF AlertKeys
<1>6. \A p \in pairs : NewRow(id, a).status = "open" /\ \E e \in a.events : p = <<a.key, e>>
  OBVIOUS
<1> HIDE DEF pairs
<1>7. Typed'
  BY <1>1, <1>2, <1>3, <1>5 DEF Inv, Typed
<1>8. Keyed(db)' /\ Keyed(cache)'
  BY <1>1, <1>2, <1>3 DEF Inv, Keyed
<1>9. Joint'
  <2>1. promised'.events \subseteq cache'.events \intersect db'.events
    BY <1>1, <1>2, <1>3 DEF Inv, Joint
  <2>2. ASSUME NEW p \in promised'.evidence
        PROVE  \E i \in AlertIds : HeldIn(cache', i, p) /\ HeldIn(db', i, p)
    <3>1. CASE p \in promised.evidence
      <4>1. PICK i \in AlertIds : HeldIn(cache, i, p) /\ HeldIn(db, i, p)
        BY <3>1 DEF Inv, Joint
      <4>2. HeldIn(cache', i, p)
        BY <1>1, <1>3, <4>1
      <4>3. HeldIn(db', i, p)
        BY <1>1, <1>2, <4>1
      <4> QED
        BY <4>2, <4>3
    <3>2. CASE p \notin promised.evidence
      <4>1. outcome = "ok" /\ p \in pairs
        BY <1>1, <3>2
      <4>2. HeldIn(cache', id, p) /\ HeldIn(db', id, p)
        BY <1>1, <1>2, <1>3, <1>6, <4>1
      <4> QED
        BY <1>4, <4>2
    <3> QED
      BY <3>1, <3>2
  <2> QED
    BY <2>1, <2>2 DEF Joint, HeldIn, Open
<1> QED
  BY <1>7, <1>8, <1>9 DEF Inv

\* Operations on the other tables.
LEMMA OtherSteps ==
  ASSUME Inv, NEW outcome \in Outcomes,
         \/ \E e \in Events : AddEvent(e, outcome)
         \/ \E items \in SUBSET Behaviors : ReplaceBehaviors(items, outcome)
         \/ \E i \in Incidents : AddIncident(i, outcome)
  PROVE  Inv'
<1>1. /\ db \in Stores(Old) /\ cache \in Stores(New)
      /\ promised \in [events : SUBSET Events, evidence : SUBSET (AlertKeys \X Events)]
  BY DEF Inv, Typed
<1>2. /\ Typed'
      /\ db'.alerts = db.alerts /\ cache'.alerts = cache.alerts
      /\ promised'.evidence = promised.evidence
      /\ promised'.events \subseteq cache'.events \intersect db'.events
  <2>1. CASE \E e \in Events : AddEvent(e, outcome)
    <3>1. PICK e \in Events : AddEvent(e, outcome)
      BY <2>1
    <3>2. /\ db' = IF outcome = "failed" THEN db ELSE [db EXCEPT !.events = @ \union {e}]
          /\ cache' = IF outcome = "ok" THEN [cache EXCEPT !.events = @ \union {e}] ELSE cache
          /\ promised' = IF outcome = "ok"
                         THEN [events |-> promised.events \union {e},
                               evidence |-> promised.evidence \union {}]
                         ELSE promised
      BY <3>1 DEF AddEvent, Write, Promise
    <3> QED
      BY <1>1, <3>2 DEF Typed, Stores, Inv, Joint
  <2>2. CASE \E items \in SUBSET Behaviors : ReplaceBehaviors(items, outcome)
    <3>1. PICK items \in SUBSET Behaviors : ReplaceBehaviors(items, outcome)
      BY <2>2
    <3>2. /\ db' = IF outcome = "failed" THEN db ELSE [db EXCEPT !.behaviors = items]
          /\ cache' = IF outcome = "ok" THEN [cache EXCEPT !.behaviors = items] ELSE cache
          /\ promised' = promised
      BY <3>1 DEF ReplaceBehaviors, Write
    <3> QED
      BY <1>1, <3>2 DEF Typed, Stores, Inv, Joint
  <2>3. CASE \E i \in Incidents : AddIncident(i, outcome)
    <3>1. PICK i \in Incidents : AddIncident(i, outcome)
      BY <2>3
    <3> DEFINE row == [alert |-> i.alert, events |-> i.events]
               Next(store) == [store EXCEPT !.incidents = Put(@, i.id, row)]
    <3>2. /\ db' = IF outcome = "failed" THEN db ELSE Next(db)
          /\ cache' = IF outcome = "ok" THEN Next(cache) ELSE cache
          /\ promised' = promised
      BY <3>1 DEF AddIncident, Write
    <3>3. row \in IncidentRows
      BY StoreAssumption DEF IncidentRows
    <3> HIDE DEF row
    <3>4. ASSUME NEW table \in IncidentTables
          PROVE  Put(table, i.id, row) \in IncidentTables
      BY <3>3, PutIncident
    <3>5. ASSUME NEW sources, NEW store \in Stores(sources)
          PROVE  /\ Next(store) \in Stores(sources)
                 /\ Next(store).alerts = store.alerts
                 /\ Next(store).events = store.events
      BY <3>4 DEF Stores
    <3> HIDE DEF Next
    <3> QED
      BY <1>1, <3>2, <3>5 DEF Typed, Inv, Joint
  <2> QED
    BY <2>1, <2>2, <2>3
<1>3. Keyed(db)' /\ Keyed(cache)'
  BY <1>2 DEF Inv, Keyed
<1>4. ASSUME NEW p \in promised'.evidence
      PROVE  \E i \in AlertIds : HeldIn(cache', i, p) /\ HeldIn(db', i, p)
  BY <1>2 DEF Inv, Joint, HeldIn, Open
<1> QED
  BY <1>2, <1>3, <1>4 DEF Inv, Joint, HeldIn, Open

\* The empty repository.
LEMMA EmptyStore ==
  ASSUME NEW sources
  PROVE  Empty \in Stores(sources) /\ Keyed(Empty)
<1>1. NoRows \in [{} -> RowsFrom(sources)] /\ NoRows \in [{} -> IncidentRows] /\ DOMAIN NoRows = {}
  BY DEF NoRows
<1>2. NoRows \in AlertTables(sources) /\ NoRows \in IncidentTables
  BY <1>1 DEF AlertTables, IncidentTables
<1> HIDE DEF NoRows
<1> QED
  BY <1>1, <1>2 DEF Empty, Stores, Keyed

\* Once a reset may have emptied the tables nothing is promised.
LEMMA ResetStep ==
  ASSUME Inv, NEW outcome \in Outcomes, Reset(outcome)
  PROVE  Inv'
<1>1. /\ db' = IF outcome = "failed" THEN db ELSE Empty
      /\ cache' = IF outcome = "ok" THEN Empty ELSE cache
      /\ promised' = IF outcome = "failed" THEN promised ELSE Nothing
  BY DEF Reset, Write
<1>2. CASE outcome = "failed"
  <2>1. db' = db /\ cache' = cache /\ promised' = promised
    BY <1>1, <1>2
  <2> QED
    BY <2>1 DEF Inv, Typed, Keyed, Joint, HeldIn, Open
<1>3. CASE outcome # "failed"
  <2>1. Typed'
    BY <1>1, <1>3, EmptyStore DEF Inv, Typed, Nothing
  <2>2. Keyed(db)' /\ Keyed(cache)'
    BY <1>1, <1>3, EmptyStore DEF Inv, Keyed
  <2>3. Joint'
    BY <1>1, <1>3 DEF Joint, Nothing
  <2> QED
    BY <2>1, <2>2, <2>3 DEF Inv
<1> QED
  BY <1>2, <1>3

\* A new process reads what the tables hold.
LEMMA RestartStep ==
  ASSUME Inv, Restart
  PROVE  Inv'
<1>1. cache' = Load(db) /\ db' = db /\ promised' = promised /\ db \in Stores(Old)
  BY DEF Inv, Typed, Restart
<1>2. Typed' /\ cache'.events = db.events
  BY <1>1, Loaded DEF Inv, Typed
<1>3. /\ DOMAIN cache'.alerts = DOMAIN db.alerts
      /\ \A id \in DOMAIN db.alerts :
           /\ cache'.alerts[id].key = db.alerts[id].key
           /\ cache'.alerts[id].status = db.alerts[id].status
           /\ cache'.alerts[id].events = db.alerts[id].events
  BY <1>1, Loaded
<1>4. Keyed(db)' /\ Keyed(cache)'
  BY <1>1, <1>3 DEF Inv, Keyed
<1>5. ASSUME NEW p, NEW i, HeldIn(db, i, p)
      PROVE  HeldIn(cache', i, p) /\ HeldIn(db', i, p)
  BY <1>1, <1>3, <1>5 DEF HeldIn, Open
<1>6. Joint'
  BY <1>1, <1>2, <1>5 DEF Inv, Joint, HeldIn, Open
<1> QED
  BY <1>2, <1>4, <1>6 DEF Inv

\* The invariant holds at the start, whatever an earlier version left.
LEMMA InitInv == StoreInit => Inv
<1> SUFFICES ASSUME StoreInit
             PROVE  Inv
  OBVIOUS
<1>1. PICK table \in LegacyAlerts : db = [Empty EXCEPT !.alerts = table]
  BY DEF StoreInit
<1>2. table \in AlertTables(Old)
  BY StoreAssumption DEF AlertTables, Old
<1>3. db \in Stores(Old) /\ db.alerts = table
  BY <1>1, <1>2, EmptyStore DEF Stores
<1>4. Keyed(db)
  BY <1>3, StoreAssumption DEF Keyed
<1>5. cache = Load(db) /\ promised = Nothing
  BY DEF StoreInit
<1>6. Typed
  BY <1>3, <1>5, Loaded DEF Typed, Nothing
<1>7. Keyed(cache)
  BY <1>3, <1>4, <1>5, Loaded DEF Keyed
<1>8. Joint
  BY <1>5 DEF Joint, Nothing
<1> QED
  BY <1>4, <1>6, <1>7, <1>8 DEF Inv

\* Every operation, with every outcome, keeps the invariant.
LEMMA StepInv == Inv /\ [StoreNext]_storeVars => Inv'
<1> SUFFICES ASSUME Inv, [StoreNext]_storeVars
             PROVE  Inv'
  OBVIOUS
<1>1. CASE UNCHANGED storeVars
  <2>1. db' = db /\ cache' = cache /\ promised' = promised
    BY <1>1 DEF storeVars
  <2> QED
    BY <2>1 DEF Inv, Typed, Keyed, Joint, HeldIn, Open
<1>2. CASE StoreNext
  BY <1>2, RestartStep, ResetStep, OtherSteps, AlertStep DEF StoreNext
<1> QED
  BY <1>1, <1>2

-----------------------------------------------------------------------------
\* The strengthened invariant: types, keys determined by ids, and one alert
\* that holds each promised piece of evidence both in the tables and for readers.
THEOREM Invariance == StoreSpec => []Inv
  BY InitInv, StepInv, PTL DEF StoreSpec

\* What a caller was told is stored stays readable and durable through merges,
\* failures, unknown outcomes and restarts, until a reset.
THEOREM PromisesKept == StoreSpec => []PromiseKept
<1>1. Inv => PromiseKept
  BY DEF Inv, Joint, HeldIn, PromiseKept, Holds
<1> QED
  BY <1>1, Invariance, PTL

\* Tables and cache hold what the schema says, and readers never see an alert
\* without a source.
THEOREM Types == StoreSpec => []StoreTypeOK
<1>1. ASSUME NEW sources, NEW store \in Stores(sources)
      PROVE  Contents(store, sources)
  <2>1. store.alerts \in AlertTables(sources) /\ store.incidents \in IncidentTables
    BY DEF Stores
  <2> QED
    BY <2>1 DEF Contents, Stores, AlertTables, IncidentTables, Empty
<1>2. Inv => StoreTypeOK
  BY <1>1 DEF Inv, Typed, StoreTypeOK, Old, New
<1> QED
  BY <1>2, Invariance, PTL

\* A step changes a table of the cache as it changed the loaded tables, or not
\* at all.
LEMMA ShownStep == Inv /\ [StoreNext]_storeVars => [ShowsDurable]_storeVars
<1> SUFFICES ASSUME Inv, StoreNext
             PROVE  ShowsDurable
  BY DEF storeVars
<1> DEFINE loaded == Load(db')
<1>0. /\ Typed' /\ Keyed(cache)
      /\ db \in Stores(Old) /\ cache \in Stores(New) /\ db' \in Stores(Old)
  BY StepInv DEF Inv, Typed
<1>1. /\ loaded.events = db'.events
      /\ loaded.behaviors = db'.behaviors
      /\ loaded.incidents = db'.incidents
      /\ DOMAIN loaded.alerts = DOMAIN db'.alerts
      /\ \A id \in DOMAIN db'.alerts :
           db'.alerts[id].source # "" => loaded.alerts[id] = db'.alerts[id]
  BY <1>0, Loaded
<1> HIDE DEF loaded
<1>2. CASE cache' = cache
  BY <1>2 DEF ShowsDurable, Changed, Agreed
<1>3. CASE cache' = loaded
  BY <1>3 DEF ShowsDurable, Changed, Agreed, loaded
<1>4. CASE Restart
  <2>1. cache' = loaded
    BY <1>4 DEF Restart, loaded
  <2> QED
    BY <1>3, <2>1
<1>5. CASE \E outcome \in Outcomes : Reset(outcome)
  <2>1. cache' = cache \/ (cache' = Empty /\ db' = Empty)
    BY <1>5 DEF Reset, Write
  <2>2. /\ Empty.events = {} /\ Empty.behaviors = {}
        /\ DOMAIN Empty.alerts = {} /\ DOMAIN Empty.incidents = {}
    BY DEF Empty, NoRows
  <2> QED
    BY <1>1, <1>2, <2>1, <2>2 DEF ShowsDurable, Changed, Agreed, loaded
<1>6. ASSUME NEW outcome \in Outcomes, NEW e \in Events, AddEvent(e, outcome), cache' # cache
      PROVE  ShowsDurable
  <2>1. cache' = [cache EXCEPT !.events = @ \union {e}]
        /\ db' = [db EXCEPT !.events = @ \union {e}]
    BY <1>6 DEF AddEvent, Write
  <2>2. /\ cache'.events = cache.events \union {e} /\ db'.events = db.events \union {e}
        /\ cache'.behaviors = cache.behaviors /\ cache'.alerts = cache.alerts
        /\ cache'.incidents = cache.incidents
    BY <1>0, <2>1 DEF Stores
  <2> QED
    BY <1>1, <2>2 DEF ShowsDurable, Changed, Agreed, loaded
<1>7. ASSUME NEW outcome \in Outcomes, NEW items \in SUBSET Behaviors,
             ReplaceBehaviors(items, outcome), cache' # cache
      PROVE  ShowsDurable
  <2>1. cache' = [cache EXCEPT !.behaviors = items] /\ db' = [db EXCEPT !.behaviors = items]
    BY <1>7 DEF ReplaceBehaviors, Write
  <2>2. /\ cache'.behaviors = items /\ db'.behaviors = items
        /\ cache'.events = cache.events /\ cache'.alerts = cache.alerts
        /\ cache'.incidents = cache.incidents
    BY <1>0, <2>1 DEF Stores
  <2> QED
    BY <1>1, <2>2 DEF ShowsDurable, Changed, Agreed, loaded
<1>8. ASSUME NEW outcome \in Outcomes, NEW a \in Alerts, NEW id \in Homes(a),
             AddAlert(id, a, outcome), cache' # cache
      PROVE  ShowsDurable
  <2> DEFINE row == NewRow(id, a)
  <2>1. cache' = [cache EXCEPT !.alerts = Put(@, id, row)]
        /\ db' = [db EXCEPT !.alerts = Put(@, id, row)]
    BY <1>8 DEF AddAlert, Write
  <2>2. row.source # ""
    <3>1. row \in RowsFrom(New)
      BY <1>0, RowWritten
    <3> QED
      BY <3>1 DEF RowsFrom, New
  <2> HIDE DEF row
  <2>3. /\ cache'.alerts = Put(cache.alerts, id, row) /\ db'.alerts = Put(db.alerts, id, row)
        /\ cache'.events = cache.events /\ cache'.behaviors = cache.behaviors
        /\ cache'.incidents = cache.incidents
    BY <1>0, <2>1 DEF Stores
  <2>4. loaded.alerts[id] = row /\ id \in DOMAIN loaded.alerts
    BY <1>1, <2>2, <2>3 DEF Put
  <2>5. Changed(cache.alerts, cache'.alerts) \subseteq {id}
        /\ id \in DOMAIN cache'.alerts /\ cache'.alerts[id] = row
    BY <2>3 DEF Changed, Agreed, Put
  <2> QED
    BY <2>3, <2>4, <2>5 DEF ShowsDurable, Changed, Agreed, loaded
<1>9. ASSUME NEW outcome \in Outcomes, NEW i \in Incidents, AddIncident(i, outcome), cache' # cache
      PROVE  ShowsDurable
  <2> DEFINE row == [alert |-> i.alert, events |-> i.events]
  <2>1. cache' = [cache EXCEPT !.incidents = Put(@, i.id, row)]
        /\ db' = [db EXCEPT !.incidents = Put(@, i.id, row)]
    BY <1>9 DEF AddIncident, Write
  <2> HIDE DEF row
  <2>2. /\ cache'.incidents = Put(cache.incidents, i.id, row)
        /\ db'.incidents = Put(db.incidents, i.id, row)
        /\ cache'.events = cache.events /\ cache'.behaviors = cache.behaviors
        /\ cache'.alerts = cache.alerts
    BY <1>0, <2>1 DEF Stores
  <2>3. Changed(cache.incidents, cache'.incidents) \subseteq {i.id}
    BY <2>2 DEF Changed, Agreed, Put
  <2>4. i.id \in Agreed(cache'.incidents, db'.incidents)
    BY <2>2 DEF Agreed, Put
  <2> QED
    BY <1>1, <2>2, <2>3, <2>4 DEF ShowsDurable, Changed, Agreed, loaded
<1> QED
  BY <1>2, <1>4, <1>5, <1>6, <1>7, <1>8, <1>9 DEF StoreNext

\* Readers never see what is not durable.
THEOREM Durability == StoreSpec => DurableBeforeVisible
  BY Invariance, ShownStep, PTL DEF StoreSpec, DurableBeforeVisible

\* The alerts open after a step: the ones open before, and the home of the
\* alert just stored.
LEMMA SecondStep == Inv /\ [StoreNext]_storeVars => [Restart \/ OpensNoSecond]_storeVars
<1> SUFFICES ASSUME Inv, StoreNext, ~Restart
             PROVE  OpensNoSecond
  BY DEF storeVars
<1>0. cache \in Stores(New) /\ Keyed(cache)
  BY DEF Inv, Typed
<1>1. CASE cache'.alerts = cache.alerts
  BY <1>1 DEF OpensNoSecond, Open
<1>2. CASE \E outcome \in Outcomes : Reset(outcome)
  <2>1. cache' = cache \/ cache' = Empty
    BY <1>2 DEF Reset, Write
  <2> QED
    BY <1>1, <2>1 DEF OpensNoSecond, Open, Empty, NoRows
<1>3. ASSUME NEW outcome \in Outcomes, NEW a \in Alerts, NEW id \in Homes(a),
             AddAlert(id, a, outcome), cache' # cache
      PROVE  OpensNoSecond
  <2> DEFINE row == NewRow(id, a)
  <2>1. cache' = [cache EXCEPT !.alerts = Put(@, id, row)]
    BY <1>3 DEF AddAlert, Write
  <2>2. row.key = a.key
    BY <1>0, RowWritten
  <2> HIDE DEF row
  <2>3. cache'.alerts = Put(cache.alerts, id, row)
    BY <1>0, <2>1 DEF Stores
  <2>4. ASSUME NEW k \in AlertKeys, NEW i \in Open(cache', k), i # id
        PROVE  i \in Open(cache, k)
    BY <2>3, <2>4 DEF Open, Put
  <2>5. ASSUME NEW k \in AlertKeys, id \in Open(cache', k)
        PROVE  k = a.key
    BY <2>2, <2>3, <2>5 DEF Open, Put
  <2>6. id \in Open(cache, a.key) \/ Open(cache, a.key) = {}
    BY DEF Homes
  <2> QED
    BY <2>4, <2>5, <2>6 DEF OpensNoSecond
<1>4. ASSUME NEW outcome \in Outcomes,
             \/ \E e \in Events : AddEvent(e, outcome)
             \/ \E items \in SUBSET Behaviors : ReplaceBehaviors(items, outcome)
             \/ \E i \in Incidents : AddIncident(i, outcome)
      PROVE  cache'.alerts = cache.alerts
  BY <1>0, <1>4 DEF AddEvent, ReplaceBehaviors, AddIncident, Write, Stores
<1> QED
  BY <1>1, <1>2, <1>3, <1>4 DEF StoreNext

\* Only a restart can show readers a second open alert of a key.
THEOREM NoSecond == StoreSpec => NoSecondAlert
  BY Invariance, SecondStep, PTL DEF StoreSpec, NoSecondAlert
=============================================================================
