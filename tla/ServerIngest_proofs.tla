------------------------- MODULE ServerIngest_proofs -------------------------
(***************************************************************************)
(* Proofs about ServerIngest, for any events, batches, requests, outcomes  *)
(* of the store and restarts.                                              *)
(*                                                                         *)
(* What an answer of 201 says of the events (AckedAccountedFor) rests on   *)
(* the marks: a request skips an event another one has marked.  So the     *)
(* invariant is about marks and requests together: outside a half reset    *)
(* every marked event is known, that is stored, about to be stored or      *)
(* dropped; and a request no reset falls into has only known events        *)
(* behind it.  Such a request never meets another's half reset.            *)
(*                                                                         *)
(* What alerts and incidents rest on (EvidenceBacked) needs the snapshots  *)
(* of all requests to hold only events that are or were stored (Clean),    *)
(* and the alert an investigation has in hand to be the scope's (Rooted).  *)
(* An accepted alert stays (AckedAlertsKept) because one and the same row  *)
(* has it in tables and cache (Kept), which merges preserve.               *)
(***************************************************************************)
EXTENDS ServerIngest, SequenceTheorems, WellFoundedInduction, TLAPS

Ids == {a.id : a \in Alerts}
Keys == {a.key : a \in Alerts}

Rows == [key : Keys, status : {"open"}, source : {"server", "collector"},
         events : SUBSET Events]

AlertTables == UNION {[D -> Rows] : D \in SUBSET Ids}

IncidentRows == [alert : Ids, events : SUBSET Events]

IncidentTables == UNION {[D -> IncidentRows] : D \in SUBSET Scopes}

Stores == [events : SUBSET Events, behaviors : SUBSET Behaviors,
           alerts : AlertTables, incidents : IncidentTables]

States == [at : Places, batch : Batches, todo : Seq(Events), view : SUBSET Events,
           pending : SUBSET (Events \union Scopes), scope : Scopes \union {""},
           alert : Ids \union {<<>>}, cut : BOOLEAN]

Tables ==
  /\ db \in Stores /\ cache \in Stores
  /\ promised \in [events : SUBSET Events, evidence : SUBSET (Keys \X Events)]

Typed ==
  /\ seen \subseteq Events
  /\ levels \in [Scopes -> DOMAIN Rank]
  /\ handler \in [Handlers -> States]
  /\ requests \in 0..MaxRequests /\ faults \in 0..MaxFaults /\ restarts \in 0..MaxRestarts
  /\ acked \subseteq Batches
  /\ dropped \subseteq Events /\ wiped \subseteq Events /\ torn \subseteq Scopes

-----------------------------------------------------------------------------
(***************************************************************************)
(* The repository by itself.                                               *)
(***************************************************************************)
Keyed(store) == \A a \in Alerts : a.id \in DOMAIN store.alerts => store.alerts[a.id].key = a.key

\* The alert of an incident is stored under the incident's key, or wiped.
Rooted(s, id) == s \in torn \/ (id \in DOMAIN db.alerts /\ db.alerts[id].key = ScopeKey(s))

Backed(store) ==
  /\ Keyed(store)
  /\ store.behaviors \subseteq Derive(store.events \union wiped)
  /\ \A id \in DOMAIN store.alerts : store.alerts[id].events \subseteq store.events \union wiped
  /\ \A s \in DOMAIN store.incidents :
       /\ store.incidents[s].events \subseteq store.events \union wiped
       /\ Rooted(s, store.incidents[s].alert)

StoreInv ==
  /\ Tables
  /\ cache.events \subseteq db.events \union wiped
  /\ Backed(db) /\ Backed(cache)

HeldIn(store, id, e) ==
  /\ id \in Store!Open(store, LocalKey(e))
  /\ e \in store.alerts[id].events /\ store.alerts[id].source = "collector"

\* One and the same alert of the collector holds the event for readers and
\* in the tables.
Kept(e) == \E id : HeldIn(cache, id, e) /\ HeldIn(db, id, e)

-----------------------------------------------------------------------------
(***************************************************************************)
(* The requests.                                                           *)
(***************************************************************************)
Known == db.events \union InFlight \union dropped

Unstored == Filtered \union Invalid

Ahead(me) == {me.todo[i] : i \in DOMAIN me.todo}

\* Before its events are begun, or without any.
Waiting == {"idle", "resetStore", "resetProcessor", "resetLevels", "reinvestigate"}

\* What the places say of the other variables of a request.
Placed(me) ==
  /\ me.at = "store" => me.todo # <<>>
  /\ me.at \in {"derive", "local", "incident", "investigate", "accept"} => me.todo = <<>>
  /\ me.at = "local" => me.pending \subseteq me.view
  /\ me.at = "incident" => me.pending \subseteq Correlate(me.view)
  /\ me.at = "investigate" => me.pending \subseteq Correlate(me.view)
  /\ me.at = "accept" => me.pending \subseteq me.batch.alerts
  /\ me.at \in {"investigate", "reinvestigate"} => me.scope \in Scopes /\ me.alert \in Ids

\* The events behind a request that no reset fell into are known.
Behind(me) ==
  me.at \notin Waiting /\ ~me.cut => Stored(me.batch) \subseteq Known \union Ahead(me)

\* A request works on events that are or were stored.
Clean(me) ==
  /\ me.view \subseteq cache.events \union wiped
  /\ me.at \in {"investigate", "reinvestigate"} => Rooted(me.scope, me.alert)

\* The alerts it has taken are kept.
Delivered(me) ==
  me.at = "accept" /\ ~me.cut => \A e \in me.batch.alerts \ me.pending : Kept(e)

Fine(me) == Placed(me) /\ Behind(me) /\ Clean(me) /\ Delivered(me)

\* A request no reset fell into does not run beside a half reset.
Apart(h) ==
  handler[h].at \notin {"idle", "reinvestigate"} /\ ~handler[h].cut =>
    \A g \in Handlers : g # h => ~HalfReset(g)

Answered ==
  /\ (\E h \in Handlers : HalfReset(h)) => acked = {}
  /\ \A b \in acked : Stored(b) \subseteq Known /\ \A e \in b.alerts : Kept(e)

Inv ==
  /\ Typed /\ StoreInv
  /\ \A h \in Handlers : Fine(handler[h]) /\ Apart(h)
  /\ MarksMatchStore
  /\ Answered

-----------------------------------------------------------------------------
(***************************************************************************)
(* Alerts, and the start of an incident.                                   *)
(***************************************************************************)

\* An alert as a record, and that its id determines its key.
LEMMA AlertForms ==
  /\ \A a \in Alerts : /\ a.id \in Ids
                       /\ Store!Row(a) \in Rows
                       /\ a.events \subseteq Events
  /\ \A a, b \in Alerts : a.id = b.id => a.key = b.key
<1>1. ASSUME NEW a \in Alerts
      PROVE  \/ \E e \in Events : a = LocalAlert(e)
             \/ \E e \in Events : a = CollectorAlert(e)
             \/ \E e \in Events : a = IncidentAlert(ScopeOf(e), e)
  BY DEF Alerts
<1>2. ASSUME NEW a \in Alerts
      PROVE  a.status = "open" /\ a.source \in {"server", "collector"} /\ a.events \subseteq Events
  BY <1>1 DEF LocalAlert, CollectorAlert, IncidentAlert
<1>3. ASSUME NEW a \in Alerts, NEW b \in Alerts, a.id = b.id
      PROVE  a.key = b.key
  <2>1. CASE \E e \in Events : a = LocalAlert(e)
    BY <2>1, <1>1, <1>3 DEF LocalAlert, CollectorAlert, IncidentAlert
  <2>2. CASE \E e \in Events : a = CollectorAlert(e)
    BY <2>2, <1>1, <1>3 DEF LocalAlert, CollectorAlert, IncidentAlert
  <2>3. CASE \E e \in Events : a = IncidentAlert(ScopeOf(e), e)
    BY <2>3, <1>1, <1>3 DEF LocalAlert, CollectorAlert, IncidentAlert
  <2> QED
    BY <1>1, <2>1, <2>2, <2>3
<1>4. ASSUME NEW a \in Alerts
      PROVE  Store!Row(a) \in Rows
  BY <1>2 DEF Store!Row, Rows, Keys
<1> QED
  BY <1>2, <1>3, <1>4 DEF Ids

Earlier == {p \in Nat \X Nat : p[1] < p[2]}

\* A set of natural numbers has a least one.
LEMMA LeastOf ==
  ASSUME NEW T \in SUBSET Nat, T # {}
  PROVE  \E t \in T : \A u \in T : t <= u
<1>1. Earlier = OpToRel(<, Nat)
  BY Zenon DEF Earlier, OpToRel
<1>2. IsWellFoundedOn(Earlier, Nat)
  BY <1>1, NatLessThanWellFounded, Zenon
<1>3. PICK t \in T : \A u \in T : ~(<<u, t>> \in Earlier)
  BY <1>2, WFMin, Zenon
<1>4. ASSUME NEW u \in T, ~(t <= u) PROVE FALSE
  <2>1. t \in Nat /\ u \in Nat /\ u < t
    BY <1>4
  <2>2. <<u, t>> \in Earlier
    BY <2>1 DEF Earlier
  <2> QED
    BY <1>3, <2>2
<1> QED
  BY <1>4

\* The first web shell of a scope that correlates is one of its events.
LEMMA StartIn ==
  ASSUME NEW view \in SUBSET Events, NEW s \in Correlate(view)
  PROVE  Start(view, s) \in view /\ ScopeOf(Start(view, s)) = s
<1> DEFINE shells == {e \in view : ScopeOf(e) = s /\ "B001" \in Codes(e)}
           times == {TimeOf(e) : e \in shells}
<1>1. "B001" \in CodesIn(view, s)
  BY IngestAssumption DEF Correlate
<1>2. shells # {}
  BY <1>1 DEF CodesIn
<1>3. times \in SUBSET Nat /\ times # {}
  BY <1>2, IngestAssumption
<1>4. PICK t \in times : \A u \in times : t <= u
  BY <1>3, LeastOf
<1>5. \E e \in shells : \A f \in shells : TimeOf(e) <= TimeOf(f)
  BY <1>4
<1> HIDE DEF shells
<1>6. Start(view, s) \in shells
  BY <1>5 DEF Start, shells
<1> QED
  BY <1>6 DEF shells

-----------------------------------------------------------------------------
(***************************************************************************)
(* The repository: what each call does to the tables and to the cache.     *)
(***************************************************************************)

\* All rows have a source here, so loading changes nothing.
LEMMA LoadsAll ==
  ASSUME NEW tables \in Stores
  PROVE  Store!Load(tables) = tables
<1> DEFINE Sourced(row) == [row EXCEPT !.source = IF @ = "" THEN "server" ELSE @]
           table == [id \in DOMAIN tables.alerts |-> Sourced(tables.alerts[id])]
<1>1. PICK D \in SUBSET Ids : tables.alerts \in [D -> Rows]
  BY DEF Stores, AlertTables
<1>2. \A row \in Rows : Sourced(row) = row
  BY DEF Rows
<1>3. table = tables.alerts
  BY <1>1, <1>2
<1>4. Store!Load(tables) = [tables EXCEPT !.alerts = table]
  BY DEF Store!Load
<1> QED
  <2>1. tables = [events |-> tables.events, behaviors |-> tables.behaviors,
                  alerts |-> tables.alerts, incidents |-> tables.incidents]
    BY DEF Stores
  <2>2. [tables EXCEPT !.alerts = tables.alerts] = tables
    BY <2>1
  <2> QED
    BY <1>3, <1>4, <2>2


\* Put keeps a table of alerts one, and one of incidents.
LEMMA PutAlert ==
  ASSUME NEW table \in AlertTables, NEW id \in Ids, NEW row \in Rows
  PROVE  Store!Put(table, id, row) \in AlertTables
<1>1. PICK D \in SUBSET Ids : table \in [D -> Rows]
  BY DEF AlertTables
<1>2. Store!Put(table, id, row) \in [D \union {id} -> Rows]
  BY <1>1 DEF Store!Put
<1> QED
  BY <1>2 DEF AlertTables

LEMMA PutIncident ==
  ASSUME NEW table \in IncidentTables, NEW id \in Scopes, NEW row \in IncidentRows
  PROVE  Store!Put(table, id, row) \in IncidentTables
<1>1. PICK D \in SUBSET Scopes : table \in [D -> IncidentRows]
  BY DEF IncidentTables
<1>2. Store!Put(table, id, row) \in [D \union {id} -> IncidentRows]
  BY <1>1 DEF Store!Put
<1> QED
  BY <1>2 DEF IncidentTables

\* A row of a table of alerts.
LEMMA RowOf ==
  ASSUME NEW table \in AlertTables, NEW id \in DOMAIN table
  PROVE  id \in Ids /\ table[id] \in Rows
BY DEF AlertTables

\* What the calls of a request leave for all others.
Grows ==
  /\ db.events \subseteq db'.events
  /\ \A me \in States : Clean(me) => Clean(me)'
  /\ \A e \in Events : Kept(e) => Kept(e)'

\* Alerts keep their keys and events stay: what was clean stays clean.
LEMMA CleanStays ==
  ASSUME UNCHANGED <<wiped, torn>>,
         cache.events \subseteq cache'.events,
         \A id \in DOMAIN db.alerts :
           id \in DOMAIN db'.alerts /\ db'.alerts[id].key = db.alerts[id].key
  PROVE  /\ \A me \in States : Clean(me) => Clean(me)'
         /\ \A s, id : Rooted(s, id) => Rooted(s, id)'
BY DEF Clean, Rooted

\* A call that leaves the alerts leaves what is kept.
LEMMA KeptStays ==
  ASSUME db'.alerts = db.alerts, cache'.alerts = cache.alerts
  PROVE  \A e \in Events : Kept(e) => Kept(e)'
BY DEF Kept, HeldIn, Store!Open

LEMMA EventCall ==
  ASSUME StoreInv, NEW e \in Events, NEW outcome, Store!AddEvent(e, outcome),
         UNCHANGED <<wiped, torn>>
  PROVE  /\ StoreInv' /\ Grows
         /\ db'.events \subseteq db.events \union {e}
         /\ outcome = "ok" => e \in db'.events
<1> DEFINE Added(store) == [store EXCEPT !.events = @ \union {e}]
<1>1. /\ db' = IF outcome = "failed" THEN db ELSE Added(db)
      /\ cache' = IF outcome = "ok" THEN Added(cache) ELSE cache
      /\ outcome \in Outcomes
  BY DEF Store!AddEvent, Store!Write
<1>2. ASSUME NEW store \in Stores
      PROVE  /\ Added(store) \in Stores
             /\ Added(store).events = store.events \union {e}
             /\ Added(store).behaviors = store.behaviors
             /\ Added(store).alerts = store.alerts
             /\ Added(store).incidents = store.incidents
  BY DEF Stores
<1> HIDE DEF Added
<1>3. db \in Stores /\ cache \in Stores
  BY DEF StoreInv, Tables
<1>4. promised' \in [events : SUBSET Events, evidence : SUBSET (Keys \X Events)]
  <2>1. promised \in [events : SUBSET Events, evidence : SUBSET (Keys \X Events)]
    BY DEF StoreInv, Tables
  <2> QED
    BY <2>1 DEF Store!AddEvent, Store!Promise
<1>5. Tables'
  BY <1>1, <1>2, <1>3, <1>4 DEF Tables
<1>6. /\ db.events \subseteq db'.events /\ cache.events \subseteq cache'.events
      /\ db'.events \subseteq db.events \union {e}
      /\ cache'.events \subseteq db'.events \union wiped
      /\ outcome = "ok" => e \in db'.events
      /\ db'.alerts = db.alerts /\ cache'.alerts = cache.alerts
      /\ db'.behaviors = db.behaviors /\ cache'.behaviors = cache.behaviors
      /\ db'.incidents = db.incidents /\ cache'.incidents = cache.incidents
  BY <1>1, <1>2, <1>3 DEF StoreInv
<1>7. Backed(db)' /\ Backed(cache)'
  BY <1>6, CleanStays DEF StoreInv, Backed, Keyed, Derive
<1> QED
  BY <1>5, <1>6, <1>7, CleanStays, KeptStays DEF StoreInv, Grows

LEMMA BehaviorCall ==
  ASSUME StoreInv, NEW view \in SUBSET Events, view \subseteq cache.events \union wiped,
         NEW outcome, Store!ReplaceBehaviors(Derive(view), outcome),
         UNCHANGED <<wiped, torn>>
  PROVE  StoreInv' /\ Grows /\ db'.events = db.events
<1> DEFINE Replaced(store) == [store EXCEPT !.behaviors = Derive(view)]
<1>1. /\ db' = IF outcome = "failed" THEN db ELSE Replaced(db)
      /\ cache' = IF outcome = "ok" THEN Replaced(cache) ELSE cache
      /\ promised' = promised
  BY DEF Store!ReplaceBehaviors, Store!Write
<1>2. Derive(view) \subseteq Behaviors
  BY DEF Derive
<1>3. ASSUME NEW store \in Stores
      PROVE  /\ Replaced(store) \in Stores
             /\ Replaced(store).events = store.events
             /\ Replaced(store).behaviors = Derive(view)
             /\ Replaced(store).alerts = store.alerts
             /\ Replaced(store).incidents = store.incidents
  BY <1>2 DEF Stores
<1> HIDE DEF Replaced
<1>4. db \in Stores /\ cache \in Stores
  BY DEF StoreInv, Tables
<1>5. Tables'
  BY <1>1, <1>3, <1>4 DEF StoreInv, Tables
<1>6. /\ db'.events = db.events /\ cache'.events = cache.events
      /\ db'.alerts = db.alerts /\ cache'.alerts = cache.alerts
      /\ db'.behaviors \in {db.behaviors, Derive(view)}
      /\ cache'.behaviors \in {cache.behaviors, Derive(view)}
      /\ db'.incidents = db.incidents /\ cache'.incidents = cache.incidents
  BY <1>1, <1>3, <1>4
<1>7. /\ Derive(view) \subseteq Derive(cache.events \union wiped)
      /\ Derive(view) \subseteq Derive(db.events \union wiped)
  BY DEF StoreInv, Derive
<1>8. /\ db'.behaviors \subseteq Derive(db'.events \union wiped')
      /\ cache'.behaviors \subseteq Derive(cache'.events \union wiped')
  BY <1>6, <1>7 DEF StoreInv, Backed
<1>9. Backed(db)' /\ Backed(cache)'
  BY <1>6, <1>8, CleanStays DEF StoreInv, Backed, Keyed
<1> QED
  BY <1>5, <1>6, <1>9, CleanStays, KeptStays DEF StoreInv, Grows

\* The row an alert is written in: of its key, with its evidence, and with
\* what the row held before.
LEMMA RowWritten ==
  ASSUME StoreInv, NEW a \in Alerts, a.events \subseteq cache.events \union wiped,
         NEW id \in Store!Homes(a)
  PROVE  LET row == Store!NewRow(id, a)
         IN  /\ id \in Ids
             /\ row \in Rows
             /\ row.key = a.key
             /\ a.events \subseteq row.events
             /\ row.events \subseteq cache.events \union wiped
             /\ \A b \in Alerts : b.id = id => b.key = a.key
             /\ a.source = "collector" => row.source = "collector"
             /\ \A e : HeldIn(cache, id, e) =>
                  e \in row.events /\ row.source = "collector" /\ LocalKey(e) = a.key
<1> DEFINE open == Store!Open(cache, a.key)
<1>1. /\ cache.alerts \in AlertTables
      /\ Keyed(cache)
      /\ \A i \in DOMAIN cache.alerts : cache.alerts[i].events \subseteq cache.events \union wiped
  BY DEF StoreInv, Tables, Stores, Backed
<1>2. CASE id \in open
  <2>1. /\ id \in DOMAIN cache.alerts
        /\ cache.alerts[id].key = a.key
        /\ id \in Ids /\ cache.alerts[id] \in Rows
    BY <1>1, <1>2, RowOf DEF Store!Open
  <2>2. Store!NewRow(id, a) = Store!Merged(cache.alerts[id], a)
    BY <1>2 DEF Store!NewRow
  <2>3. a.source \in {"server", "collector"} /\ a.events \subseteq Events
    BY AlertForms DEF Store!Row, Rows
  <2>4. /\ Store!NewRow(id, a) \in Rows
        /\ Store!NewRow(id, a).key = cache.alerts[id].key
        /\ Store!NewRow(id, a).events = cache.alerts[id].events \union a.events
        /\ Store!NewRow(id, a).source \in {a.source, cache.alerts[id].source}
        /\ (a.source = "collector" \/ cache.alerts[id].source = "collector")
             => Store!NewRow(id, a).source = "collector"
    BY <2>1, <2>2, <2>3 DEF Rows, Store!Merged
  <2>5. \A b \in Alerts : b.id = id => b.key = a.key
    BY <1>1, <2>1 DEF Keyed
  <2>6. \A e : HeldIn(cache, id, e) =>
          /\ e \in cache.alerts[id].events
          /\ cache.alerts[id].source = "collector" /\ LocalKey(e) = a.key
    BY <2>1 DEF HeldIn, Store!Open
  <2> QED
    BY <1>1, <2>1, <2>4, <2>5, <2>6
<1>3. CASE id \notin open
  <2>1. open = {} /\ id = a.id
    BY <1>3 DEF Store!Homes
  <2>2. Store!NewRow(id, a) = Store!Row(a)
    BY <1>3 DEF Store!NewRow
  <2>3. /\ Store!Row(a) \in Rows /\ id \in Ids
        /\ Store!Row(a).key = a.key /\ Store!Row(a).events = a.events
        /\ Store!Row(a).source = a.source
    BY <2>1, AlertForms DEF Store!Row
  <2>4. \A b \in Alerts : b.id = id => b.key = a.key
    BY <2>1, AlertForms
  <2>5. ASSUME NEW e, HeldIn(cache, id, e) PROVE FALSE
    <3>1. id \in DOMAIN cache.alerts /\ cache.alerts[id].status = "open"
      BY <2>5 DEF HeldIn, Store!Open
    <3>2. cache.alerts[id].key = a.key
      BY <3>1, <1>1, <2>1 DEF Keyed
    <3> QED
      BY <3>1, <3>2, <1>3 DEF Store!Open
  <2> QED
    BY <2>2, <2>3, <2>4, <2>5
<1> QED
  BY <1>2, <1>3

LEMMA AlertCall ==
  ASSUME StoreInv, NEW a \in Alerts, a.events \subseteq cache.events \union wiped,
         NEW id \in Store!Homes(a), NEW outcome, Store!AddAlert(id, a, outcome),
         UNCHANGED <<wiped, torn>>
  PROVE  /\ StoreInv' /\ Grows /\ db'.events = db.events
         /\ id \in Ids
         /\ outcome = "ok" => id \in DOMAIN db'.alerts /\ db'.alerts[id].key = a.key
         /\ outcome = "ok" /\ a.source = "collector" =>
              \A e \in a.events : a.key = LocalKey(e) => Kept(e)'
<1> DEFINE row == Store!NewRow(id, a)
           Stored1(store) == [store EXCEPT !.alerts = Store!Put(@, id, row)]
<1>1. /\ db' = IF outcome = "failed" THEN db ELSE Stored1(db)
      /\ cache' = IF outcome = "ok" THEN Stored1(cache) ELSE cache
  BY DEF Store!AddAlert, Store!Write
<1>2. /\ id \in Ids /\ row \in Rows /\ row.key = a.key
      /\ a.events \subseteq row.events
      /\ row.events \subseteq cache.events \union wiped
      /\ \A b \in Alerts : b.id = id => b.key = a.key
      /\ a.source = "collector" => row.source = "collector"
      /\ \A e : HeldIn(cache, id, e) =>
           e \in row.events /\ row.source = "collector" /\ LocalKey(e) = a.key
  BY RowWritten
<1>p. promised' \in [events : SUBSET Events, evidence : SUBSET (Keys \X Events)]
  <2>1. promised \in [events : SUBSET Events, evidence : SUBSET (Keys \X Events)]
    BY DEF StoreInv, Tables
  <2>2. {a.key} \X a.events \subseteq Keys \X Events
    BY AlertForms DEF Keys
  <2>3. promised' = IF outcome = "ok"
                    THEN [events |-> promised.events \union {},
                          evidence |-> promised.evidence \union
                            (IF row.status = "open" THEN {a.key} \X a.events ELSE {})]
                    ELSE promised
    BY DEF Store!AddAlert, Store!Promise
  <2> HIDE DEF row
  <2> QED
    BY <2>1, <2>2, <2>3
<1> HIDE DEF row
<1>3. ASSUME NEW store \in Stores
      PROVE  /\ Stored1(store) \in Stores
             /\ Stored1(store).events = store.events
             /\ Stored1(store).behaviors = store.behaviors
             /\ Stored1(store).incidents = store.incidents
             /\ Stored1(store).alerts = Store!Put(store.alerts, id, row)
  BY <1>2, PutAlert DEF Stores
<1> HIDE DEF Stored1
<1>4. db \in Stores /\ cache \in Stores
  BY DEF StoreInv, Tables
<1>5. Tables'
  BY <1>1, <1>3, <1>4, <1>p DEF Tables
<1>6. /\ db'.events = db.events /\ cache'.events = cache.events
      /\ db'.behaviors = db.behaviors /\ cache'.behaviors = cache.behaviors
      /\ db'.incidents = db.incidents /\ cache'.incidents = cache.incidents
      /\ db'.alerts \in {db.alerts, Store!Put(db.alerts, id, row)}
      /\ cache'.alerts \in {cache.alerts, Store!Put(cache.alerts, id, row)}
      /\ outcome = "ok" => /\ db'.alerts = Store!Put(db.alerts, id, row)
                           /\ cache'.alerts = Store!Put(cache.alerts, id, row)
  BY <1>1, <1>3, <1>4
<1>7. Keyed(db) /\ Keyed(cache)
  BY DEF StoreInv, Backed
<1>8. ASSUME NEW table, \A b \in Alerts : b.id \in DOMAIN table => table[b.id].key = b.key,
             NEW i \in DOMAIN table, i \in Ids
      PROVE  /\ i \in DOMAIN Store!Put(table, id, row)
             /\ Store!Put(table, id, row)[i].key = table[i].key
  <2>1. PICK b \in Alerts : b.id = i
    BY <1>8 DEF Ids
  <2> QED
    BY <2>1, <1>2, <1>8 DEF Store!Put
<1>9. \A i \in DOMAIN db.alerts :
        i \in DOMAIN db'.alerts /\ db'.alerts[i].key = db.alerts[i].key
  <2>1. db.alerts \in AlertTables
    BY <1>4 DEF Stores
  <2>2. \A i \in DOMAIN db.alerts : i \in Ids
    BY <2>1, RowOf
  <2> QED
    BY <2>2, <1>6, <1>7, <1>8 DEF Keyed
<1>10. Keyed(db)' /\ Keyed(cache)'
  <2>1. ASSUME NEW table, \A b \in Alerts : b.id \in DOMAIN table => table[b.id].key = b.key,
               NEW b \in Alerts, b.id \in DOMAIN Store!Put(table, id, row)
        PROVE  Store!Put(table, id, row)[b.id].key = b.key
    BY <2>1, <1>2 DEF Store!Put
  <2> QED
    BY <2>1, <1>6, <1>7 DEF Keyed
<1>11. /\ \A i \in DOMAIN db'.alerts : db'.alerts[i].events \subseteq db.events \union wiped
       /\ \A i \in DOMAIN cache'.alerts : cache'.alerts[i].events \subseteq cache.events \union wiped
  <2>1. row.events \subseteq db.events \union wiped
    BY <1>2 DEF StoreInv
  <2>2. /\ \A i \in DOMAIN db.alerts : db.alerts[i].events \subseteq db.events \union wiped
        /\ \A i \in DOMAIN cache.alerts : cache.alerts[i].events \subseteq cache.events \union wiped
    BY DEF StoreInv, Backed
  <2> QED
    BY <2>1, <2>2, <1>2, <1>6 DEF Store!Put
<1>12. Backed(db)' /\ Backed(cache)'
  BY <1>6, <1>9, <1>10, <1>11, CleanStays DEF StoreInv, Backed
<1>13. ASSUME NEW e \in Events, Kept(e) PROVE Kept(e)'
  <2>1. PICK i : HeldIn(cache, i, e) /\ HeldIn(db, i, e)
    BY <1>13 DEF Kept
  <2>2. CASE i # id
    BY <2>1, <2>2, <1>6 DEF Store!Put, Kept, HeldIn, Store!Open
  <2>3. CASE i = id
    <3>1. row.status = "open"
      BY <1>2 DEF Rows
    <3>2. e \in row.events /\ row.source = "collector" /\ row.key = LocalKey(e)
      BY <1>2, <2>1, <2>3
    <3>3. HeldIn(db, id, e)' /\ HeldIn(cache, id, e)'
      BY <2>1, <2>3, <3>1, <3>2, <1>6 DEF Store!Put, HeldIn, Store!Open
    <3> QED
      BY <3>3 DEF Kept
  <2> QED
    BY <2>2, <2>3
<1>14. ASSUME outcome = "ok", a.source = "collector", NEW e \in a.events, a.key = LocalKey(e)
       PROVE  Kept(e)'
  <2>1. row.status = "open"
    BY <1>2 DEF Rows
  <2>2. e \in row.events /\ row.source = "collector" /\ row.key = LocalKey(e)
    BY <1>2, <1>14
  <2>3. HeldIn(db, id, e)' /\ HeldIn(cache, id, e)'
    BY <1>14, <2>1, <2>2, <1>6 DEF Store!Put, HeldIn, Store!Open
  <2> QED
    BY <2>3 DEF Kept
<1>15. outcome = "ok" => id \in DOMAIN db'.alerts /\ db'.alerts[id].key = a.key
  BY <1>2, <1>6 DEF Store!Put
<1>16. cache'.events \subseteq db'.events \union wiped'
  BY <1>6 DEF StoreInv
<1>17. Grows
  BY <1>6, <1>9, <1>13, CleanStays DEF Grows
<1> QED
  BY <1>2, <1>5, <1>6, <1>12, <1>14, <1>15, <1>16, <1>17 DEF StoreInv

LEMMA IncidentCall ==
  ASSUME StoreInv, NEW s \in Scopes, NEW id \in Ids, NEW evidence \in SUBSET Events,
         evidence \subseteq cache.events \union wiped, Rooted(s, id),
         NEW outcome,
         Store!AddIncident([id |-> s, alert |-> id, events |-> evidence], outcome),
         UNCHANGED <<wiped, torn>>
  PROVE  StoreInv' /\ Grows /\ db'.events = db.events
<1> DEFINE row == [alert |-> id, events |-> evidence]
           Stored1(store) == [store EXCEPT !.incidents = Store!Put(@, s, row)]
<1>1. /\ db' = IF outcome = "failed" THEN db ELSE Stored1(db)
      /\ cache' = IF outcome = "ok" THEN Stored1(cache) ELSE cache
      /\ promised' = promised
  BY DEF Store!AddIncident, Store!Write
<1>2. row \in IncidentRows /\ row.alert = id /\ row.events = evidence
  BY DEF IncidentRows
<1> HIDE DEF row
<1>3. ASSUME NEW store \in Stores
      PROVE  /\ Stored1(store) \in Stores
             /\ Stored1(store).events = store.events
             /\ Stored1(store).behaviors = store.behaviors
             /\ Stored1(store).alerts = store.alerts
             /\ Stored1(store).incidents = Store!Put(store.incidents, s, row)
  BY <1>2, PutIncident DEF Stores
<1> HIDE DEF Stored1
<1>4. db \in Stores /\ cache \in Stores
  BY DEF StoreInv, Tables
<1>5. Tables'
  BY <1>1, <1>3, <1>4 DEF StoreInv, Tables
<1>6. /\ db'.events = db.events /\ cache'.events = cache.events
      /\ db'.behaviors = db.behaviors /\ cache'.behaviors = cache.behaviors
      /\ db'.alerts = db.alerts /\ cache'.alerts = cache.alerts
      /\ db'.incidents \in {db.incidents, Store!Put(db.incidents, s, row)}
      /\ cache'.incidents \in {cache.incidents, Store!Put(cache.incidents, s, row)}
  BY <1>1, <1>3, <1>4
<1>7. /\ \A i \in DOMAIN db'.incidents : db'.incidents[i].events \subseteq db.events \union wiped
      /\ \A i \in DOMAIN cache'.incidents :
           cache'.incidents[i].events \subseteq cache.events \union wiped
      /\ \A i \in DOMAIN db'.incidents : Rooted(i, db'.incidents[i].alert)
      /\ \A i \in DOMAIN cache'.incidents : Rooted(i, cache'.incidents[i].alert)
  <2>1. evidence \subseteq db.events \union wiped
    BY DEF StoreInv
  <2>2. /\ \A i \in DOMAIN db.incidents : db.incidents[i].events \subseteq db.events \union wiped
        /\ \A i \in DOMAIN cache.incidents :
             cache.incidents[i].events \subseteq cache.events \union wiped
        /\ \A i \in DOMAIN db.incidents : Rooted(i, db.incidents[i].alert)
        /\ \A i \in DOMAIN cache.incidents : Rooted(i, cache.incidents[i].alert)
    BY DEF StoreInv, Backed
  <2> QED
    BY <2>1, <2>2, <1>2, <1>6 DEF Store!Put
<1>8. Backed(db)' /\ Backed(cache)'
  BY <1>6, <1>7, CleanStays DEF StoreInv, Backed, Keyed
<1> QED
  BY <1>5, <1>6, <1>8, CleanStays, KeptStays DEF StoreInv, Grows

LEMMA EmptyStore == Store!Empty \in Stores
<1>1. Store!NoRows \in AlertTables /\ Store!NoRows \in IncidentTables
  BY DEF Store!NoRows, AlertTables, IncidentTables
<1> QED
  BY <1>1 DEF Store!Empty, Stores

\* Rows of tables that are emptied refer to what is wiped.
LEMMA ResetCall ==
  ASSUME StoreInv, NEW outcome \in {"ok", "failed", "unknown"}, Store!Reset(outcome),
         wiped \subseteq wiped', torn \subseteq torn',
         outcome # "failed" => db.events \subseteq wiped',
         outcome = "unknown" => DOMAIN cache.incidents \subseteq torn'
  PROVE  /\ StoreInv'
         /\ outcome = "failed" => UNCHANGED <<db, cache>>
         /\ outcome # "failed" => db'.events = {}
         /\ \A me \in States :
              /\ Clean(me)
              /\ outcome # "failed" /\ me.at \in {"investigate", "reinvestigate"}
                   => me.scope \in torn'
              => Clean(me)'
<1>1. /\ db' = IF outcome = "failed" THEN db ELSE Store!Empty
      /\ cache' = IF outcome = "ok" THEN Store!Empty ELSE cache
      /\ promised' = IF outcome = "failed" THEN promised ELSE Store!Nothing
  BY DEF Store!Reset, Store!Write
<1>2. /\ Store!Empty.events = {} /\ Store!Empty.behaviors = {}
      /\ DOMAIN Store!Empty.alerts = {} /\ DOMAIN Store!Empty.incidents = {}
  BY DEF Store!Empty, Store!NoRows
<1>3. Tables'
  BY <1>1, EmptyStore DEF StoreInv, Tables, Store!Nothing
<1>4. CASE outcome = "failed"
  <2>1. db' = db /\ cache' = cache
    BY <1>1, <1>4
  <2>2. \A s, id : Rooted(s, id) => Rooted(s, id)'
    BY <2>1 DEF Rooted
  <2>3. \A me : Clean(me) => Clean(me)'
    BY <2>1, <2>2 DEF Clean
  <2>4. Backed(db)' /\ Backed(cache)'
    BY <2>1, <2>2 DEF StoreInv, Backed, Keyed, Derive
  <2> QED
    BY <1>3, <1>4, <2>1, <2>3, <2>4 DEF StoreInv
<1>5. CASE outcome # "failed"
  <2>1. db' = Store!Empty /\ cache' \in {cache, Store!Empty}
    BY <1>1, <1>5
  <2>2. cache.events \union wiped \subseteq wiped'
    BY <1>5 DEF StoreInv
  <2>3. Backed(db)'
    BY <1>2, <2>1 DEF Backed, Keyed
  <2>4. Backed(cache)'
    <3>1. CASE outcome = "ok"
      BY <1>1, <1>2, <3>1 DEF Backed, Keyed
    <3>2. CASE outcome = "unknown"
      <4>1. cache' = cache /\ \A s \in DOMAIN cache.incidents : \A id : Rooted(s, id)'
        BY <1>1, <3>2 DEF Rooted
      <4> QED
        BY <4>1 DEF StoreInv, Backed, Keyed, Derive
    <3> QED
      BY <1>5, <3>1, <3>2
  <2>5. \A me \in States :
          /\ Clean(me)
          /\ me.at \in {"investigate", "reinvestigate"} => me.scope \in torn'
          => Clean(me)'
    BY <2>2 DEF Clean, Rooted
  <2>6. cache'.events \subseteq db'.events \union wiped'
    BY <1>2, <2>1, <2>2
  <2> QED
    BY <1>2, <1>3, <1>5, <2>1, <2>3, <2>4, <2>5, <2>6 DEF StoreInv
<1> QED
  BY <1>4, <1>5

LEMMA RestartCall ==
  ASSUME StoreInv, Store!Restart, UNCHANGED <<wiped, torn>>
  PROVE  StoreInv' /\ db' = db /\ \A e : Kept(e) => Kept(e)'
<1>1. db' = db /\ promised' = promised /\ cache' = db
  BY LoadsAll DEF Store!Restart, StoreInv, Tables
<1>2. Tables'
  BY <1>1 DEF StoreInv, Tables
<1>3. \A s, id : Rooted(s, id) => Rooted(s, id)'
  BY <1>1 DEF Rooted
<1>4. Backed(db)' /\ Backed(cache)'
  BY <1>1, <1>3 DEF StoreInv, Backed, Keyed, Derive
<1>5. \A e : Kept(e) => Kept(e)'
  BY <1>1 DEF Kept, HeldIn, Store!Open
<1> QED
  BY <1>1, <1>2, <1>4, <1>5 DEF StoreInv

-----------------------------------------------------------------------------
(***************************************************************************)
(* A step of one request.                                                  *)
(***************************************************************************)

\* The events in flight but for the one the request puts down, and with the
\* one it takes up.
LEMMA InFlightMoves ==
  ASSUME handler \in [Handlers -> States], NEW h \in Handlers, NEW st \in States,
         handler' = [handler EXCEPT ![h] = st]
  PROVE  /\ handler[h].at # "store" => InFlight \subseteq InFlight'
         /\ InFlight \subseteq InFlight' \union {Head(handler[h].todo)}
         /\ st.at = "store" => Head(st.todo) \in InFlight'
<1>1. \A g \in Handlers : handler'[g] = IF g = h THEN st ELSE handler[g]
  OBVIOUS
<1>2. \A e : e \in InFlight <=> \E g \in Handlers : handler[g].at = "store" /\ e = Head(handler[g].todo)
  BY DEF InFlight
<1>3. \A e : e \in InFlight' <=>
               \E g \in Handlers : handler'[g].at = "store" /\ e = Head(handler'[g].todo)
  BY DEF InFlight
<1>4. st.at = "store" => Head(st.todo) \in InFlight'
  BY <1>1, <1>3
<1>5. ASSUME NEW e \in InFlight, e # Head(handler[h].todo) \/ handler[h].at # "store"
      PROVE  e \in InFlight'
  <2>1. PICK g \in Handlers : handler[g].at = "store" /\ e = Head(handler[g].todo)
    BY <1>2
  <2>2. g # h
    BY <1>5, <2>1
  <2> QED
    BY <1>1, <1>3, <2>1, <2>2
<1> QED
  BY <1>4, <1>5

\* What is fine stays fine while more is known, stored and kept.
LEMMA FineStays ==
  ASSUME Known \subseteq Known', Grows
  PROVE  \A me \in States : Fine(me) => Fine(me)'
<1>1. ASSUME NEW me \in States, Fine(me) PROVE Fine(me)'
  <2>1. Placed(me)'
    BY <1>1 DEF Fine, Placed, Correlate, CodesIn
  <2>2. Behind(me)'
    BY <1>1 DEF Fine, Behind, Stored, Ahead
  <2>3. Clean(me)'
    BY <1>1 DEF Fine, Grows
  <2>4. Delivered(me)'
    <3>1. me.batch.alerts \subseteq Events
      BY IngestAssumption DEF States
    <3> QED
      BY <1>1, <3>1 DEF Fine, Delivered, Grows
  <2> QED
    BY <2>1, <2>2, <2>3, <2>4 DEF Fine
<1> QED
  BY <1>1

\* The invariant over a step of one request that does not begin or end a half
\* reset.
LEMMA Advance ==
  ASSUME Inv, NEW h \in Handlers, NEW st \in States, Become(h, st),
         ~HalfReset(h), st.at # "resetProcessor",
         Typed', StoreInv', Grows, Known \subseteq Known', Fine(st)',
         (\A g \in Handlers : ~HalfReset(g)) => seen' \ Unstored \subseteq Known',
         st.at \notin {"idle", "reinvestigate"} /\ ~st.cut =>
           \A g \in Handlers : g # h => ~HalfReset(g),
         \A b \in acked' \ acked : /\ \A g \in Handlers : ~HalfReset(g)
                                   /\ Stored(b) \subseteq Known'
                                   /\ \A e \in b.alerts : Kept(e)'
  PROVE  Inv'
<1>1. \A g \in Handlers : handler'[g] = IF g = h THEN st ELSE handler[g]
  BY DEF Become, Inv, Typed
<1>2. \A g \in Handlers : HalfReset(g)' <=> HalfReset(g)
  BY <1>1 DEF HalfReset
<1>3. \A g \in Handlers : handler[g] \in States
  BY DEF Inv, Typed
<1>4. \A g \in Handlers : Fine(handler[g])'
  <2>1. ASSUME NEW g \in Handlers, NEW me, me = handler'[g]
        PROVE  Fine(me)'
    <3>1. CASE g = h
      BY <1>1, <2>1, <3>1
    <3>2. CASE g # h
      <4>1. me = handler[g]
        BY <1>1, <2>1, <3>2
      <4>2. Fine(me) /\ me \in States
        BY <1>3, <4>1 DEF Inv
      <4> QED
        BY <4>2, FineStays
    <3> QED
      BY <3>1, <3>2
  <2> QED
    BY <2>1
<1>5. \A g \in Handlers : Apart(g)'
  <2>1. ASSUME NEW g \in Handlers PROVE Apart(g)'
    <3>1. CASE g = h
      BY <1>1, <1>2, <3>1 DEF Apart
    <3>2. CASE g # h
      <4>1. Apart(g)
        BY DEF Inv
      <4> QED
        BY <1>1, <1>2, <3>2, <4>1 DEF Apart
    <3> QED
      BY <3>1, <3>2
  <2> QED
    BY <2>1
<1>6. MarksMatchStore'
  BY <1>2 DEF MarksMatchStore, Known, Unstored
<1>7. Answered'
  <2>1. (\E g \in Handlers : HalfReset(g)') => acked' = {}
    BY <1>2 DEF Inv, Answered, Typed
  <2>2. ASSUME NEW b \in acked' PROVE Stored(b) \subseteq Known' /\ \A e \in b.alerts : Kept(e)'
    <3>1. b.alerts \subseteq Events
      BY <2>2, IngestAssumption DEF Typed
    <3> QED
      BY <2>2, <3>1 DEF Inv, Answered, Grows
  <2> QED
    BY <2>1, <2>2 DEF Answered, Stored
<1> QED
  BY <1>4, <1>5, <1>6, <1>7 DEF Inv

\* A handler without a request.
LEMMA IdleFine ==
  /\ Idle \in States /\ Idle.at = "idle" /\ Idle.view = {}
  /\ \A me : me.at = "idle" /\ me.view = {} => Fine(me) /\ Fine(me)'
<1>1. (CHOOSE b \in Batches : TRUE) \in Batches
  BY IngestAssumption
<1>2. Idle \in States /\ Idle.at = "idle" /\ Idle.view = {}
  BY <1>1 DEF Idle, States, Places
<1>3. ASSUME NEW me, me.at = "idle", me.view = {} PROVE Fine(me) /\ Fine(me)'
  BY <1>3 DEF Fine, Placed, Behind, Waiting, Clean, Delivered
<1> QED
  BY <1>2, <1>3

\* A step that leaves the repository.
LEMMA StoreSame ==
  ASSUME StoreInv, UNCHANGED <<storeVars, wiped, torn>>
  PROVE  StoreInv' /\ Grows
<1>1. db' = db /\ cache' = cache /\ promised' = promised
  BY DEF storeVars
<1>2. Tables'
  BY <1>1 DEF StoreInv, Tables
<1>3. Backed(db)' /\ Backed(cache)'
  BY <1>1, CleanStays DEF StoreInv, Backed, Keyed, Derive
<1> QED
  BY <1>1, <1>2, <1>3, CleanStays, KeptStays DEF StoreInv, Grows

\* A request past its events goes on, or ends.
LEMMA Onward ==
  ASSUME Inv, NEW h \in Handlers, NEW st \in States, Become(h, st),
         handler[h].at \notin {"store", "resetProcessor"},
         StoreInv', Grows,
         UNCHANGED <<seen, requests, restarts, acked, dropped, wiped, torn>>,
         levels' \in [Scopes -> DOMAIN Rank], faults' \in 0..MaxFaults,
         \/ st.at = "idle" /\ st.view = {}
         \/ /\ handler[h].at \notin Waiting /\ st.at \notin Waiting
            /\ st.batch = handler[h].batch /\ st.todo = handler[h].todo
            /\ st.cut = handler[h].cut
            /\ Placed(st) /\ Clean(st)' /\ Delivered(st)'
  PROVE  Inv'
<1>1. Typed'
  BY DEF Inv, Typed, Become
<1>2. Known \subseteq Known'
  BY InFlightMoves DEF Inv, Typed, Become, Known, Grows
<1>3. ~HalfReset(h) /\ st.at # "resetProcessor"
  BY DEF HalfReset, Waiting
<1>4. Fine(st)'
  <2>1. CASE st.at = "idle" /\ st.view = {}
    BY <2>1, IdleFine
  <2>2. CASE ~(st.at = "idle" /\ st.view = {})
    <3>1. Behind(st)'
      <4>1. Fine(handler[h])
        BY DEF Inv
      <4> QED
        BY <1>2, <2>2, <4>1 DEF Fine, Behind, Stored, Ahead
    <3>2. Placed(st)'
      BY <2>2 DEF Placed, Correlate, CodesIn
    <3> QED
      BY <2>2, <3>1, <3>2 DEF Fine
  <2> QED
    BY <2>1, <2>2
<1>5. st.at \notin {"idle", "reinvestigate"} /\ ~st.cut =>
        \A g \in Handlers : g # h => ~HalfReset(g)
  BY DEF Inv, Apart, Waiting
<1>6. (\A g \in Handlers : ~HalfReset(g)) => seen' \ Unstored \subseteq Known'
  BY <1>2 DEF Inv, MarksMatchStore, Known, Unstored
<1> QED
  BY <1>1, <1>2, <1>3, <1>4, <1>5, <1>6, Advance

\* The count of faults keeps its bound.
LEMMA FaultsBounded ==
  ASSUME Inv, NEW outcome, Met(outcome)
  PROVE  faults' \in 0..MaxFaults
BY IngestAssumption DEF Inv, Typed, Met

-----------------------------------------------------------------------------
(***************************************************************************)
(* The pipeline and the alerts of a request.                               *)
(***************************************************************************)
LEMMA SnapshotStep ==
  ASSUME Inv, NEW h \in Handlers, Snapshot(h)
  PROVE  Inv'
<1>1. PICK me : me = handler[h]
  OBVIOUS
<1>2. PICK st : st = [me EXCEPT !.at = "derive", !.view = cache.events]
  OBVIOUS
<1>3. me \in States /\ StoreInv /\ me.at = "process" /\ me.todo = <<>>
  BY <1>1 DEF Inv, Typed, Snapshot
<1>4. cache.events \subseteq Events
  BY <1>3 DEF StoreInv, Tables, Stores
<1>5. /\ st \in States /\ st.at = "derive" /\ st.view = cache.events
      /\ st.batch = me.batch /\ st.todo = me.todo /\ st.cut = me.cut
  BY <1>2, <1>3, <1>4 DEF States, Places
<1>6. StoreInv' /\ Grows
  BY <1>3, StoreSame DEF Snapshot, history
<1>7. Placed(st) /\ Clean(st) /\ Delivered(st)'
  BY <1>3, <1>5 DEF Placed, Clean, Delivered
<1>8. Clean(st)'
  BY <1>5, <1>6, <1>7 DEF Grows
<1>9. Become(h, st)
  BY <1>1, <1>2 DEF Snapshot
<1> QED
  BY <1>1, <1>3, <1>5, <1>6, <1>7, <1>8, <1>9, Onward
     DEF Snapshot, Inv, Typed, Waiting, counters, history

LEMMA StoreBehaviorsStep ==
  ASSUME Inv, NEW h \in Handlers, NEW outcome \in Outcomes, StoreBehaviors(h, outcome)
  PROVE  Inv'
<1>1. PICK me : me = handler[h]
  OBVIOUS
<1>2. PICK st : st = IF outcome = "ok"
                     THEN [me EXCEPT !.at = "local", !.pending = me.view \intersect Hits]
                     ELSE Idle
  OBVIOUS
<1>3. me \in States /\ Fine(me) /\ StoreInv /\ me.at = "derive"
  BY <1>1 DEF Inv, Typed, StoreBehaviors
<1>4. me.view \in SUBSET Events /\ me.view \subseteq cache.events \union wiped /\ me.todo = <<>>
  BY <1>3 DEF States, Fine, Clean, Placed
<1>5. StoreInv' /\ Grows
  BY <1>1, <1>3, <1>4, BehaviorCall DEF StoreBehaviors, history
<1>6. st \in States
  BY <1>2, <1>3, <1>4, IdleFine DEF States, Places
<1>7. \/ st.at = "idle" /\ st.view = {}
      \/ /\ st.at = "local" /\ st.pending \subseteq st.view /\ st.view = me.view
         /\ st.batch = me.batch /\ st.todo = me.todo /\ st.cut = me.cut
  BY <1>2, <1>3, IdleFine DEF States
<1>8. st.at = "local" => Placed(st) /\ Clean(st) /\ Delivered(st)'
  BY <1>4, <1>7 DEF Placed, Clean, Delivered
<1>9. st.at = "local" => Clean(st)'
  BY <1>5, <1>6, <1>8 DEF Grows
<1>10. Become(h, st) /\ faults' \in 0..MaxFaults
  BY <1>1, <1>2, FaultsBounded DEF StoreBehaviors, Called
<1>11. levels' \in [Scopes -> DOMAIN Rank]
  BY DEF StoreBehaviors, ObserveBehaviors, Raise, Inv, Typed, Rank
<1> QED
  BY <1>1, <1>3, <1>5, <1>6, <1>7, <1>8, <1>9, <1>10, <1>11, Onward
     DEF StoreBehaviors, Waiting, history

LEMMA StoreLocalAlertStep ==
  ASSUME Inv, NEW h \in Handlers, NEW outcome \in Outcomes, StoreLocalAlert(h, outcome)
  PROVE  Inv'
<1>1. PICK me : me = handler[h]
  OBVIOUS
<1>2. PICK e \in me.pending : \E id \in Store!Homes(LocalAlert(e)) :
        Store!AddAlert(id, LocalAlert(e), outcome) /\ Called(h, outcome, [me EXCEPT !.pending = @ \ {e}])
  BY <1>1 DEF StoreLocalAlert
<1>3. PICK st : st = IF outcome = "ok" THEN [me EXCEPT !.pending = @ \ {e}] ELSE Idle
  OBVIOUS
<1>4. me \in States /\ Fine(me) /\ StoreInv /\ me.at = "local"
  BY <1>1 DEF Inv, Typed, StoreLocalAlert
<1>5. /\ e \in me.view /\ me.view \subseteq Events /\ me.pending \subseteq me.view
      /\ me.view \subseteq cache.events \union wiped /\ me.todo = <<>>
  BY <1>4 DEF States, Fine, Clean, Placed
<1>6. LocalAlert(e) \in Alerts /\ LocalAlert(e).events = {e}
  BY <1>5 DEF Alerts, LocalAlert
<1>7. StoreInv' /\ Grows
  BY <1>2, <1>4, <1>5, <1>6, AlertCall DEF StoreLocalAlert, history
<1>8. st \in States
  BY <1>3, <1>4, IdleFine DEF States
<1>9. \/ st.at = "idle" /\ st.view = {}
      \/ /\ st.at = "local" /\ st.pending \subseteq st.view /\ st.view = me.view
         /\ st.batch = me.batch /\ st.todo = me.todo /\ st.cut = me.cut
  BY <1>3, <1>4, <1>5, IdleFine DEF States
<1>10. st.at = "local" => Placed(st) /\ Clean(st) /\ Delivered(st)'
  BY <1>5, <1>9 DEF Placed, Clean, Delivered
<1>11. st.at = "local" => Clean(st)'
  BY <1>7, <1>8, <1>10 DEF Grows
<1>12. Become(h, st) /\ faults' \in 0..MaxFaults
  BY <1>2, <1>3, FaultsBounded DEF Called
<1> QED
  BY <1>1, <1>4, <1>7, <1>8, <1>9, <1>10, <1>11, <1>12, Onward
     DEF StoreLocalAlert, Waiting, history, Inv, Typed

LEMMA CorrelateIncidentsStep ==
  ASSUME Inv, NEW h \in Handlers, CorrelateIncidents(h)
  PROVE  Inv'
<1>1. PICK me : me = handler[h]
  OBVIOUS
<1>2. PICK st : st = [me EXCEPT !.at = "incident", !.pending = Correlate(me.view)]
  OBVIOUS
<1>3. me \in States /\ Fine(me) /\ StoreInv /\ me.at = "local" /\ me.todo = <<>>
  BY <1>1 DEF Inv, Typed, CorrelateIncidents, Fine, Placed
<1>4. Correlate(me.view) \subseteq Scopes
  BY DEF Correlate
<1>5. /\ st \in States /\ st.at = "incident" /\ st.pending = Correlate(me.view)
      /\ st.view = me.view /\ st.batch = me.batch /\ st.todo = me.todo /\ st.cut = me.cut
  BY <1>2, <1>3, <1>4 DEF States, Places
<1>6. StoreInv' /\ Grows
  BY <1>3, StoreSame DEF CorrelateIncidents, history
<1>7. Placed(st) /\ Clean(st) /\ Delivered(st)'
  BY <1>3, <1>5 DEF Placed, Clean, Delivered, Fine
<1>8. Clean(st)'
  BY <1>5, <1>6, <1>7 DEF Grows
<1>9. Become(h, st)
  BY <1>1, <1>2 DEF CorrelateIncidents
<1>10. levels' \in [Scopes -> DOMAIN Rank]
  BY DEF CorrelateIncidents, ObserveIncidents, Raise, Inv, Typed, Rank
<1> QED
  BY <1>1, <1>3, <1>5, <1>6, <1>7, <1>8, <1>9, <1>10, Onward
     DEF CorrelateIncidents, Inv, Typed, Waiting, counters, history

LEMMA StoreIncidentAlertStep ==
  ASSUME Inv, NEW h \in Handlers, NEW outcome \in Outcomes, StoreIncidentAlert(h, outcome)
  PROVE  Inv'
<1>1. PICK me : me = handler[h]
  OBVIOUS
<1>2. PICK s \in me.pending :
        \E id \in Store!Homes(IncidentAlert(s, Start(me.view, s))) :
          /\ Store!AddAlert(id, IncidentAlert(s, Start(me.view, s)), outcome)
          /\ Called(h, outcome, [me EXCEPT !.at = "investigate", !.pending = @ \ {s},
                                           !.scope = s, !.alert = id])
  BY <1>1 DEF StoreIncidentAlert
<1>3. PICK a : a = IncidentAlert(s, Start(me.view, s))
  OBVIOUS
<1>4. PICK id \in Store!Homes(a) :
          /\ Store!AddAlert(id, a, outcome)
          /\ Called(h, outcome, [me EXCEPT !.at = "investigate", !.pending = @ \ {s},
                                           !.scope = s, !.alert = id])
  BY <1>2, <1>3
<1>5. PICK st : st = IF outcome = "ok"
                     THEN [me EXCEPT !.at = "investigate", !.pending = @ \ {s},
                                     !.scope = s, !.alert = id]
                     ELSE Idle
  OBVIOUS
<1>6. me \in States /\ Fine(me) /\ StoreInv /\ me.at = "incident"
  BY <1>1 DEF Inv, Typed, StoreIncidentAlert
<1>7. /\ me.pending \subseteq Correlate(me.view) /\ me.view \in SUBSET Events
      /\ me.view \subseteq cache.events \union wiped /\ me.todo = <<>> /\ Clean(me)
  BY <1>6 DEF States, Fine, Clean, Placed
<1>8. Start(me.view, s) \in me.view /\ ScopeOf(Start(me.view, s)) = s
  BY <1>7, StartIn
<1>9. a \in Alerts /\ a.events = {Start(me.view, s)} /\ a.key = ScopeKey(s) /\ s \in Scopes
  BY <1>3, <1>7, <1>8 DEF Alerts, IncidentAlert, Scopes
<1>10. /\ StoreInv' /\ Grows /\ id \in Ids
       /\ outcome = "ok" => Rooted(s, id)'
  BY <1>4, <1>6, <1>7, <1>8, <1>9, AlertCall DEF StoreIncidentAlert, history, Rooted
<1>11. st \in States
  BY <1>5, <1>6, <1>9, <1>10, IdleFine DEF States, Places
<1>12. \/ st.at = "idle" /\ st.view = {}
       \/ /\ outcome = "ok" /\ st.at = "investigate" /\ st.pending = me.pending \ {s}
          /\ st.view = me.view /\ st.scope = s /\ st.alert = id
          /\ st.batch = me.batch /\ st.todo = me.todo /\ st.cut = me.cut
  BY <1>5, <1>6, IdleFine DEF States
<1>13. st.at = "investigate" => Placed(st) /\ Delivered(st)'
  BY <1>7, <1>9, <1>10, <1>12 DEF Placed, Delivered
<1>14. st.at = "investigate" => Clean(st)'
  <2>1. Clean(me)'
    BY <1>6, <1>7, <1>10 DEF Grows
  <2> QED
    BY <2>1, <1>10, <1>12 DEF Clean
<1>15. Become(h, st) /\ faults' \in 0..MaxFaults
  BY <1>4, <1>5, FaultsBounded DEF Called
<1> QED
  BY <1>1, <1>6, <1>10, <1>11, <1>12, <1>13, <1>14, <1>15, Onward
     DEF StoreIncidentAlert, Waiting, history, Inv, Typed

LEMMA InvestigateStep ==
  ASSUME Inv, NEW h \in Handlers, NEW outcome \in Outcomes, Investigate(h, outcome)
  PROVE  Inv'
<1>1. PICK me : me = handler[h]
  OBVIOUS
<1>2. /\ me \in States /\ Fine(me) /\ StoreInv
      /\ me.at \in {"investigate", "reinvestigate"}
      /\ UNCHANGED <<seen, levels, requests, restarts, history>>
  BY <1>1 DEF Inv, Typed, Investigate, Investigating
<1>3. /\ me.view \subseteq cache.events \union wiped /\ Rooted(me.scope, me.alert)
      /\ me.scope \in Scopes /\ me.alert \in Ids /\ me.view \subseteq Events
      /\ Evidence(me.view, me.scope) \in SUBSET me.view
      /\ me.at = "investigate" => me.todo = <<>> /\ me.pending \subseteq Correlate(me.view)
  BY <1>2 DEF Fine, Clean, Placed, States, Evidence
<1>4. CASE Start(me.view, me.scope) \in cache.events
  <2>1. PICK st : st = IF outcome = "ok" /\ me.at = "investigate"
                       THEN [me EXCEPT !.at = "incident", !.scope = "", !.alert = <<>>]
                       ELSE Idle
    OBVIOUS
  <2>2. /\ Store!AddIncident([id |-> me.scope, alert |-> me.alert,
                              events |-> Evidence(me.view, me.scope)], outcome)
        /\ Met(outcome) /\ Become(h, st)
    BY <1>1, <1>4, <2>1 DEF Investigate, Called
  <2>3. StoreInv' /\ Grows
    BY <1>2, <1>3, <2>2, IncidentCall DEF history
  <2>4. st \in States
    BY <1>2, <2>1, IdleFine DEF States, Places
  <2>5. \/ st.at = "idle" /\ st.view = {}
        \/ /\ me.at = "investigate" /\ st.at = "incident" /\ st.pending = me.pending
           /\ st.view = me.view
           /\ st.batch = me.batch /\ st.todo = me.todo /\ st.cut = me.cut
    BY <1>2, <2>1, IdleFine DEF States
  <2>6. st.at = "incident" => Placed(st) /\ Clean(st) /\ Delivered(st)'
    BY <1>3, <2>5 DEF Placed, Clean, Delivered
  <2>7. st.at = "incident" => Clean(st)'
    BY <2>3, <2>4, <2>6 DEF Grows
  <2>8. faults' \in 0..MaxFaults
    BY <2>2, FaultsBounded
  <2> QED
    BY <1>1, <1>2, <2>2, <2>3, <2>4, <2>5, <2>6, <2>7, <2>8, Onward
       DEF Waiting, history, Inv, Typed
<1>5. CASE Start(me.view, me.scope) \notin cache.events
  <2>1. Become(h, Idle) /\ UNCHANGED <<storeVars, faults>>
    BY <1>1, <1>5 DEF Investigate
  <2>2. StoreInv' /\ Grows
    BY <1>2, <2>1, StoreSame DEF history
  <2>3. PICK st : st = Idle
    OBVIOUS
  <2> QED
    BY <1>1, <1>2, <2>1, <2>2, <2>3, IdleFine, Onward DEF history, Inv, Typed
<1> QED
  BY <1>4, <1>5

LEMMA EndPipelineStep ==
  ASSUME Inv, NEW h \in Handlers, EndPipeline(h)
  PROVE  Inv'
<1>1. PICK me : me = handler[h]
  OBVIOUS
<1>2. PICK st : st = [me EXCEPT !.at = "accept", !.view = {}, !.pending = me.batch.alerts]
  OBVIOUS
<1>3. me \in States /\ Fine(me) /\ StoreInv /\ me.at = "incident" /\ me.todo = <<>>
  BY <1>1 DEF Inv, Typed, EndPipeline, Fine, Placed
<1>4. me.batch.alerts \subseteq Events
  BY <1>3, IngestAssumption DEF States
<1>5. /\ st \in States /\ st.at = "accept" /\ st.pending = me.batch.alerts
      /\ st.view = {} /\ st.batch = me.batch /\ st.todo = me.todo /\ st.cut = me.cut
  BY <1>2, <1>3, <1>4 DEF States, Places
<1>6. StoreInv' /\ Grows
  BY <1>3, StoreSame DEF EndPipeline, history
<1>7. Placed(st) /\ Clean(st)' /\ Delivered(st)'
  BY <1>3, <1>5 DEF Placed, Clean, Delivered
<1>8. Become(h, st)
  BY <1>1, <1>2 DEF EndPipeline
<1> QED
  BY <1>1, <1>3, <1>5, <1>6, <1>7, <1>8, Onward
     DEF EndPipeline, Inv, Typed, Waiting, counters, history

LEMMA AcceptAlertStep ==
  ASSUME Inv, NEW h \in Handlers, NEW outcome \in Outcomes, AcceptAlert(h, outcome)
  PROVE  Inv'
<1>1. PICK me : me = handler[h]
  OBVIOUS
<1>2. /\ me \in States /\ Fine(me) /\ StoreInv /\ me.at = "accept" /\ me.todo = <<>>
      /\ UNCHANGED <<seen, levels, requests, restarts, history>>
  BY <1>1 DEF Inv, Typed, AcceptAlert, Fine, Placed
<1>3. PICK e \in me.pending :
        IF e \in cache.events
        THEN /\ \E id \in Store!Homes(CollectorAlert(e)) :
                  Store!AddAlert(id, CollectorAlert(e), outcome)
             /\ Called(h, outcome, [me EXCEPT !.pending = @ \ {e}])
        ELSE Become(h, Idle) /\ UNCHANGED <<storeVars, faults>>
  BY <1>1 DEF AcceptAlert
<1>4. /\ me.pending \subseteq me.batch.alerts /\ me.batch.alerts \subseteq Events
      /\ me.view \subseteq cache.events \union wiped
  BY <1>2, IngestAssumption DEF States, Fine, Placed, Clean
<1>5. CASE e \in cache.events
  <2>1. PICK st : st = IF outcome = "ok" THEN [me EXCEPT !.pending = @ \ {e}] ELSE Idle
    OBVIOUS
  <2>2. Met(outcome) /\ Become(h, st)
    BY <1>3, <1>5, <2>1 DEF Called
  <2>3. PICK a : a = CollectorAlert(e)
    OBVIOUS
  <2>4. /\ a \in Alerts /\ a.events = {e} /\ a.key = LocalKey(e)
        /\ a.source = "collector"
    BY <1>4, <2>3 DEF Alerts, CollectorAlert
  <2>5. StoreInv' /\ Grows /\ (outcome = "ok" => Kept(e)')
    BY <1>2, <1>3, <1>5, <2>3, <2>4, AlertCall DEF history
  <2>6. st \in States
    BY <1>2, <2>1, IdleFine DEF States
  <2>7. \/ st.at = "idle" /\ st.view = {}
        \/ /\ outcome = "ok" /\ st.at = "accept" /\ st.pending = me.pending \ {e}
           /\ st.view = me.view
           /\ st.batch = me.batch /\ st.todo = me.todo /\ st.cut = me.cut
    BY <1>2, <2>1, IdleFine DEF States
  <2>8. st.at = "accept" => Placed(st) /\ Clean(st)
    BY <1>2, <1>4, <2>7 DEF Placed, Clean
  <2>9. st.at = "accept" => Delivered(st)'
    <3>1. Delivered(me)
      BY <1>2 DEF Fine
    <3>2. \A f \in me.batch.alerts : Kept(f) => Kept(f)'
      BY <1>4, <2>5 DEF Grows
    <3> QED
      BY <1>2, <2>5, <2>7, <3>1, <3>2 DEF Delivered
  <2>10. st.at = "accept" => Clean(st)'
    BY <2>5, <2>6, <2>8 DEF Grows
  <2>11. faults' \in 0..MaxFaults
    BY <2>2, FaultsBounded
  <2> QED
    BY <1>1, <1>2, <2>2, <2>5, <2>6, <2>7, <2>8, <2>9, <2>10, <2>11, Onward
       DEF Waiting, history, Inv, Typed
<1>6. CASE e \notin cache.events
  <2>1. Become(h, Idle) /\ UNCHANGED <<storeVars, faults>>
    BY <1>3, <1>6
  <2>2. StoreInv' /\ Grows
    BY <1>2, <2>1, StoreSame DEF history
  <2>3. PICK st : st = Idle
    OBVIOUS
  <2> QED
    BY <1>1, <1>2, <2>1, <2>2, <2>3, IdleFine, Onward DEF history, Inv, Typed
<1> QED
  BY <1>5, <1>6

-----------------------------------------------------------------------------
(***************************************************************************)
(* The beginning and the end of a request.                                 *)
(***************************************************************************)

\* Nothing is put down by a request that stores no event.
LEMMA KnownStays ==
  ASSUME Inv, NEW h \in Handlers, NEW st \in States, Become(h, st),
         handler[h].at # "store", db' = db, dropped \subseteq dropped'
  PROVE  Known \subseteq Known'
BY InFlightMoves DEF Inv, Typed, Become, Known

\* A request as it begins.
LEMMA Begins ==
  ASSUME NEW b \in Batches
  PROVE  /\ Begun(b) \in States /\ Begun(b).batch = b /\ Begun(b).view = {}
         /\ \/ Begun(b).at = "process" /\ Begun(b).todo = b.events
            \/ /\ Begun(b).at = "accept" /\ Begun(b).todo = <<>> /\ b.events = <<>>
               /\ Begun(b).pending = b.alerts
<1>1. b.events \in Seq(Events) /\ b.alerts \subseteq Events /\ (b.reset = "only" => b.events = <<>>)
  BY IngestAssumption
<1>2. (CHOOSE c \in Batches : TRUE) \in Batches
  BY IngestAssumption
<1> QED
  BY <1>1, <1>2 DEF Begun, Idle, States, Places

\* And with whatever it is told of a reset.
LEMMA BegunFine ==
  ASSUME NEW b \in Batches, NEW cut \in BOOLEAN,
         NEW st, st = [Begun(b) EXCEPT !.cut = cut]
  PROVE  /\ st \in States /\ st.at \in {"process", "accept"} /\ st.cut = cut
         /\ Fine(st)'
<1>1. /\ st \in States /\ st.batch = b /\ st.view = {} /\ st.cut = cut
      /\ \/ st.at = "process" /\ st.todo = b.events
         \/ st.at = "accept" /\ st.todo = <<>> /\ b.events = <<>> /\ st.pending = b.alerts
  <2>1. PICK r : r = Begun(b)
    OBVIOUS
  <2>2. /\ r \in States /\ r.batch = b /\ r.view = {}
        /\ \/ r.at = "process" /\ r.todo = b.events
           \/ r.at = "accept" /\ r.todo = <<>> /\ b.events = <<>> /\ r.pending = b.alerts
    BY <2>1, Begins
  <2>3. st = [r EXCEPT !.cut = cut]
    BY <2>1
  <2> QED
    BY <2>2, <2>3 DEF States
<1>2. Stored(b) \subseteq Ahead(st)
  <2>1. CASE st.at = "process"
    BY <1>1, <2>1 DEF Stored, Ahead
  <2>2. CASE st.at = "accept"
    BY <1>1, <2>2 DEF Stored
  <2> QED
    BY <1>1, <2>1, <2>2
<1>3. Behind(st)'
  BY <1>1, <1>2 DEF Behind, Stored, Ahead
<1>4. Placed(st)' /\ Clean(st)' /\ Delivered(st)'
  BY <1>1 DEF Placed, Clean, Delivered
<1> QED
  BY <1>1, <1>3, <1>4 DEF Fine

LEMMA ReceiveStep ==
  ASSUME Inv, NEW h \in Handlers, NEW b \in Batches, Receive(h, b)
  PROVE  Inv'
<1> DEFINE half == \E g \in Handlers : HalfReset(g)
<1>1. PICK cut \in BOOLEAN : cut <=> half
  OBVIOUS
<1>2. PICK next : next = IF b.reset = "no" THEN Begun(b)
                         ELSE [Idle EXCEPT !.at = "resetStore", !.batch = b]
  OBVIOUS
<1>3. PICK st : st = [next EXCEPT !.cut = cut]
  OBVIOUS
<1>4. Become(h, st)
  <2>1. ResetSteps[1] = "resetStore"
    BY DEF ResetSteps
  <2>2. half = cut
    BY <1>1
  <2> QED
    BY <1>2, <1>3, <2>1, <2>2 DEF Receive
<1>5. /\ st \in States /\ st.at \in {"process", "accept", "resetStore"}
      /\ st.cut = cut /\ Fine(st)'
  <2>1. CASE b.reset = "no"
    BY <1>2, <1>3, <2>1, BegunFine
  <2>2. CASE b.reset # "no"
    <3>1. /\ st \in States /\ st.at = "resetStore" /\ st.view = {} /\ st.cut = cut
      BY <1>2, <1>3, <2>2, IdleFine DEF States, Places
    <3>2. Fine(st)'
      BY <3>1 DEF Fine, Placed, Behind, Clean, Delivered, Waiting
    <3> QED
      BY <3>1, <3>2
  <2> QED
    BY <2>1, <2>2
<1>6. StoreInv' /\ Grows
  BY StoreSame DEF Receive, history, Inv
<1>7. handler[h].at = "idle" /\ ~HalfReset(h)
  BY DEF Receive, HalfReset
<1>8. Known \subseteq Known'
  BY <1>4, <1>5, <1>7, KnownStays DEF Receive, storeVars, history
<1>9. Typed'
  <2>1. requests' \in 0..MaxRequests
    BY IngestAssumption DEF Inv, Typed, Receive
  <2>2. handler' \in [Handlers -> States]
    BY <1>4, <1>5 DEF Inv, Typed, Become
  <2> QED
    BY <2>1, <2>2 DEF Inv, Typed, Receive, history
<1>10. (\A g \in Handlers : ~HalfReset(g)) => seen' \ Unstored \subseteq Known'
  BY <1>8 DEF Inv, MarksMatchStore, Known, Unstored, Receive
<1>11. ~st.cut => \A g \in Handlers : ~HalfReset(g)
  BY <1>1, <1>5
<1>12. acked' = acked
  BY DEF Receive, history
<1> QED
  BY <1>4, <1>5, <1>6, <1>7, <1>8, <1>9, <1>10, <1>11, <1>12, Advance

LEMMA ReadIncidentStep ==
  ASSUME Inv, NEW h \in Handlers, NEW s \in Scopes, ReadIncident(h, s)
  PROVE  Inv'
<1>1. PICK st : st = [Idle EXCEPT !.at = "reinvestigate", !.view = cache.incidents[s].events,
                                  !.scope = s, !.alert = cache.incidents[s].alert]
  OBVIOUS
<1>2. Become(h, st) /\ handler[h].at = "idle" /\ ~HalfReset(h)
  BY <1>1 DEF ReadIncident, HalfReset
<1>3. /\ cache.incidents[s] \in IncidentRows
      /\ cache.incidents[s].events \subseteq cache.events \union wiped
      /\ Rooted(s, cache.incidents[s].alert)
  BY DEF ReadIncident, Inv, StoreInv, Tables, Stores, IncidentTables, Backed
<1>4. /\ st \in States /\ st.at = "reinvestigate" /\ st.view = cache.incidents[s].events
      /\ st.scope = s /\ st.alert = cache.incidents[s].alert /\ st.alert \in Ids
  BY <1>1, <1>3, IdleFine DEF States, Places, IncidentRows
<1>5. Fine(st)
  BY <1>3, <1>4 DEF Fine, Placed, Behind, Clean, Delivered, Waiting
<1>6. StoreInv' /\ Grows
  BY StoreSame DEF ReadIncident, history, Inv
<1>7. Known \subseteq Known'
  BY <1>2, <1>4, KnownStays DEF ReadIncident, storeVars, history
<1>8. Fine(st)'
  BY <1>4, <1>5, <1>6, <1>7, FineStays
<1>9. Typed'
  BY <1>2, <1>4, IngestAssumption DEF Inv, Typed, ReadIncident, Become, history
<1>10. (\A g \in Handlers : ~HalfReset(g)) => seen' \ Unstored \subseteq Known'
  BY <1>7 DEF Inv, MarksMatchStore, Known, Unstored, ReadIncident
<1>11. acked' = acked
  BY DEF ReadIncident, history
<1> QED
  BY <1>2, <1>4, <1>6, <1>7, <1>8, <1>9, <1>10, <1>11, Advance

LEMMA AnswerStep ==
  ASSUME Inv, NEW h \in Handlers, Answer(h)
  PROVE  Inv'
<1>1. PICK me : me = handler[h]
  OBVIOUS
<1>2. PICK st : st = Idle
  OBVIOUS
<1>3. /\ me \in States /\ Fine(me) /\ me.at = "accept" /\ me.pending = {} /\ me.todo = <<>>
  BY <1>1 DEF Inv, Typed, Answer, Fine, Placed
<1>4. Become(h, st) /\ ~HalfReset(h)
  BY <1>1, <1>2, <1>3 DEF Answer, HalfReset
<1>5. st \in States /\ st.at = "idle" /\ Fine(st)'
  BY <1>2, IdleFine
<1>6. StoreInv' /\ Grows
  BY StoreSame DEF Answer, Inv
<1>7. Known \subseteq Known'
  BY <1>1, <1>3, <1>4, <1>5, KnownStays DEF Answer, storeVars
<1>8. Typed'
  <2>1. handler' \in [Handlers -> States]
    BY <1>4, <1>5 DEF Inv, Typed, Become
  <2>2. me.batch \in Batches
    BY <1>3 DEF States
  <2>3. acked' \subseteq Batches
    BY <1>1, <2>2 DEF Inv, Typed, Answer
  <2> QED
    BY <2>1, <2>3 DEF Inv, Typed, Answer, counters
<1>9. (\A g \in Handlers : ~HalfReset(g)) => seen' \ Unstored \subseteq Known'
  BY <1>7 DEF Inv, MarksMatchStore, Known, Unstored, Answer
<1>10. ASSUME NEW b \in acked' \ acked
       PROVE  /\ \A g \in Handlers : ~HalfReset(g)
              /\ Stored(b) \subseteq Known' /\ \A e \in b.alerts : Kept(e)'
  <2>1. b = me.batch /\ ~me.cut
    BY <1>1, <1>10 DEF Answer
  <2>2. Ahead(me) = {}
    BY <1>3 DEF Ahead
  <2>3. Stored(b) \subseteq Known
    BY <1>3, <2>1, <2>2 DEF Fine, Behind, Waiting
  <2>4. \A e \in b.alerts : Kept(e)
    BY <1>3, <2>1 DEF Fine, Delivered
  <2>5. b.alerts \subseteq Events
    BY <1>3, <2>1, IngestAssumption DEF States
  <2>6. \A g \in Handlers : ~HalfReset(g)
    BY <1>1, <1>3, <1>4, <2>1 DEF Inv, Apart
  <2> QED
    BY <1>6, <1>7, <2>3, <2>4, <2>5, <2>6 DEF Grows
<1> QED
  BY <1>4, <1>5, <1>6, <1>7, <1>8, <1>9, <1>10, Advance

-----------------------------------------------------------------------------
(***************************************************************************)
(* The events of a request.                                                *)
(***************************************************************************)

\* A list of events by its head and its tail.
LEMMA HeadTail ==
  ASSUME NEW me \in States, me.todo # <<>>
  PROVE  /\ Head(me.todo) \in Events
         /\ [me EXCEPT !.todo = Tail(@)] \in States
         /\ Ahead(me) \subseteq {Head(me.todo)} \union Ahead([me EXCEPT !.todo = Tail(@)])
<1>1. PICK todo \in Seq(Events) : todo = me.todo
  BY DEF States
<1>2. /\ Head(todo) \in Events /\ Tail(todo) \in Seq(Events)
      /\ Head(todo) = todo[1]
      /\ Len(todo) \in Nat /\ Len(Tail(todo)) = Len(todo) - 1
      /\ \A i \in 1 .. Len(todo) - 1 : Tail(todo)[i] = todo[i + 1]
  BY <1>1, HeadTailProperties
<1>3. [me EXCEPT !.todo = Tail(@)] \in States
  BY <1>1, <1>2 DEF States
<1>4. [me EXCEPT !.todo = Tail(@)].todo = Tail(todo)
  BY <1>1 DEF States
<1>5. ASSUME NEW i \in DOMAIN todo, todo[i] # Head(todo)
      PROVE  \E j \in DOMAIN Tail(todo) : Tail(todo)[j] = todo[i]
  <2>1. i \in 1 .. Len(todo) /\ i # 1
    BY <1>1, <1>2, <1>5
  <2>2. i - 1 \in 1 .. Len(todo) - 1 /\ Tail(todo)[i - 1] = todo[i]
    BY <1>2, <2>1
  <2>3. DOMAIN Tail(todo) = 1 .. Len(Tail(todo))
    BY <1>2
  <2> QED
    BY <1>2, <2>2, <2>3
<1>6. Ahead(me) \subseteq {Head(me.todo)} \union Ahead([me EXCEPT !.todo = Tail(@)])
  BY <1>1, <1>4, <1>5 DEF Ahead
<1> QED
  BY <1>1, <1>2, <1>3, <1>6

\* Whatever happens to the head of its list, a request is as fine behind it,
\* once the head is known or not to be stored.
LEMMA BehindHead ==
  ASSUME NEW me \in States, NEW st, me.todo # <<>>, Fine(me),
         me.at \notin Waiting,
         st = [me EXCEPT !.at = "process", !.todo = Tail(@)],
         Known \subseteq Known', Grows,
         ~me.cut => Head(me.todo) \in Known' \union Unstored
  PROVE  st \in States /\ st.at = "process" /\ st.cut = me.cut /\ Fine(st)'
<1>1. PICK rest : rest = [me EXCEPT !.todo = Tail(@)]
  OBVIOUS
<1>2. /\ rest \in States /\ st = [rest EXCEPT !.at = "process"]
      /\ Ahead(me) \subseteq {Head(me.todo)} \union Ahead(rest)
      /\ rest.batch = me.batch /\ rest.view = me.view /\ rest.cut = me.cut
  BY <1>1, HeadTail DEF States
<1>3. /\ st \in States /\ st.at = "process" /\ st.todo = rest.todo
      /\ st.batch = me.batch /\ st.view = me.view /\ st.cut = me.cut
  BY <1>2 DEF States, Places
<1>4. Stored(me.batch) \intersect Unstored = {}
  BY DEF Stored, Unstored
<1>5. ~me.cut => Stored(st.batch) \subseteq Known' \union Ahead(st)
  <2>1. Ahead(st) = Ahead(rest)
    BY <1>3 DEF Ahead
  <2>2. ~me.cut => Stored(me.batch) \subseteq Known \union Ahead(me)
    BY DEF Fine, Behind
  <2> QED
    BY <1>2, <1>3, <1>4, <2>1, <2>2
<1>6. Behind(st)'
  BY <1>3, <1>5 DEF Behind, Stored, Ahead
<1>7. Clean(st)'
  BY <1>3 DEF Fine, Clean, Grows
<1>8. Placed(st)' /\ Delivered(st)'
  BY <1>3 DEF Placed, Delivered
<1> QED
  BY <1>3, <1>6, <1>7, <1>8 DEF Fine

LEMMA ProcessStep ==
  ASSUME Inv, NEW h \in Handlers, Process(h)
  PROVE  Inv'
<1>1. PICK me : me = handler[h]
  OBVIOUS
<1>2. PICK e : e = Head(me.todo)
  OBVIOUS
<1>3. /\ me \in States /\ Fine(me) /\ me.at = "process" /\ me.todo # <<>> /\ e \in Events
      /\ UNCHANGED <<storeVars, levels, counters, history>>
  BY <1>1, <1>2, HeadTail DEF Inv, Typed, Process
<1>4. PICK skip : skip = [me EXCEPT !.at = "process", !.todo = Tail(@)]
  OBVIOUS
<1>5. skip = [me EXCEPT !.todo = Tail(@)]
  BY <1>3, <1>4 DEF States
<1>6. PICK st : st = IF e \in seen \/ e \in Filtered THEN skip
                     ELSE IF e \in Invalid THEN Idle
                     ELSE [me EXCEPT !.at = "store"]
  OBVIOUS
<1>7. Become(h, st) /\ seen' = (IF e \in seen THEN seen ELSE Mark(e))
  BY <1>1, <1>2, <1>5, <1>6 DEF Process
<1>8. StoreInv' /\ Grows
  BY <1>3, StoreSame DEF history, Inv
<1>9. st \in States
  BY <1>3, <1>5, <1>6, HeadTail, IdleFine DEF States, Places
<1>10. Known \subseteq Known'
  BY <1>1, <1>3, <1>7, <1>9, KnownStays DEF storeVars, history
<1>11. ~me.cut => \A g \in Handlers : ~HalfReset(g)
  BY <1>1, <1>3 DEF Inv, Apart, HalfReset
<1>12. Fine(st)' /\ st.at \in {"process", "idle", "store"} /\ (st.at = "idle" \/ st.cut = me.cut)
  <2>1. CASE e \in seen \/ e \in Filtered
    <3>1. ~me.cut => e \in Known' \union Unstored
      BY <1>10, <1>11, <2>1 DEF Inv, MarksMatchStore, Known, Unstored
    <3>2. skip \in States /\ skip.at = "process" /\ skip.cut = me.cut /\ Fine(skip)'
      BY <1>2, <1>3, <1>4, <1>8, <1>10, <3>1, BehindHead DEF Waiting
    <3> QED
      BY <1>6, <2>1, <3>2
  <2>2. CASE e \notin seen /\ e \notin Filtered /\ e \in Invalid
    BY <1>6, <2>2, IdleFine
  <2>3. CASE e \notin seen /\ e \notin Filtered /\ e \notin Invalid
    <3>1. st = [me EXCEPT !.at = "store"]
      BY <1>6, <2>3
    <3>2. /\ st.at = "store" /\ st.todo = me.todo /\ st.batch = me.batch
          /\ st.view = me.view /\ st.cut = me.cut
      BY <1>3, <3>1 DEF States
    <3>3. Fine(st)
      BY <1>3, <3>2 DEF Fine, Placed, Behind, Waiting, Ahead, Clean, Delivered
    <3> QED
      BY <1>8, <1>9, <1>10, <3>2, <3>3, FineStays
  <2> QED
    BY <2>1, <2>2, <2>3
<1>13. (\A g \in Handlers : ~HalfReset(g)) => seen' \ Unstored \subseteq Known'
  <2>1. seen' \subseteq seen \union {e}
    BY <1>7 DEF Mark
  <2>2. (\A g \in Handlers : ~HalfReset(g)) => seen \ Unstored \subseteq Known'
    BY <1>10 DEF Inv, MarksMatchStore, Known, Unstored
  <2>3. e \notin seen => e \in Unstored \union Known'
    <3>1. CASE e \notin seen /\ e \notin Filtered /\ e \notin Invalid
      <4>1. st.at = "store" /\ st.todo = me.todo
        BY <1>3, <1>6, <3>1 DEF States
      <4>2. Head(st.todo) \in InFlight'
        BY <1>7, <1>9, <4>1, InFlightMoves DEF Become, Inv, Typed
      <4> QED
        BY <1>2, <4>1, <4>2 DEF Known
    <3> QED
      BY <3>1 DEF Unstored
  <2> QED
    BY <1>7, <2>1, <2>2, <2>3
<1>14. Typed'
  BY <1>3, <1>7, <1>9 DEF Inv, Typed, Become, Mark, counters, history
<1>15. ~HalfReset(h) /\ acked' = acked
  BY <1>1, <1>3 DEF HalfReset, history
<1> QED
  BY <1>7, <1>8, <1>9, <1>10, <1>11, <1>12, <1>13, <1>14, <1>15, Advance

LEMMA StoreEventStep ==
  ASSUME Inv, NEW h \in Handlers, NEW outcome \in Outcomes, StoreEvent(h, outcome)
  PROVE  Inv'
<1>1. PICK me : me = handler[h]
  OBVIOUS
<1>2. PICK e : e = Head(me.todo)
  OBVIOUS
<1>3. /\ me \in States /\ Fine(me) /\ me.at = "store" /\ me.todo # <<>> /\ e \in Events
      /\ UNCHANGED <<seen, levels, requests, restarts, acked, wiped, torn>>
  BY <1>1, <1>2, HeadTail DEF Inv, Typed, StoreEvent, Fine, Placed
<1>4. PICK rest : rest = [me EXCEPT !.at = "process", !.todo = Tail(@)]
  OBVIOUS
<1>5. PICK st : st = IF outcome = "ok" THEN rest ELSE Idle
  OBVIOUS
<1>6. /\ Store!AddEvent(e, outcome) /\ Met(outcome) /\ Become(h, st)
      /\ dropped' = IF outcome = "ok" THEN dropped \ {e} ELSE dropped \union {e}
  BY <1>1, <1>2, <1>4, <1>5 DEF StoreEvent, Called
<1>7. StoreInv' /\ Grows /\ (outcome = "ok" => e \in db'.events)
  BY <1>3, <1>6, EventCall DEF Inv
<1>8. rest \in States
  <2>1. [me EXCEPT !.todo = Tail(@)] \in States
    BY <1>3, HeadTail
  <2> QED
    BY <1>4, <2>1 DEF States, Places
<1>9. st \in States
  BY <1>5, <1>8, IdleFine
<1>10. Known \subseteq Known' /\ e \in Known'
  <2>1. InFlight \subseteq InFlight' \union {e}
    BY <1>1, <1>2, <1>6, <1>9, InFlightMoves DEF Inv, Typed, Become
  <2>2. e \in db'.events \union dropped' /\ dropped \subseteq dropped' \union {e}
    BY <1>6, <1>7
  <2> QED
    BY <1>7, <2>1, <2>2 DEF Known, Grows
<1>11. Fine(st)' /\ st.at \in {"process", "idle"} /\ (st.at = "idle" \/ st.cut = me.cut)
  <2>1. rest.at = "process" /\ rest.cut = me.cut /\ Fine(rest)'
    BY <1>2, <1>3, <1>4, <1>7, <1>10, BehindHead DEF Waiting
  <2> QED
    BY <1>5, <2>1, IdleFine
<1>12. Typed'
  <2>1. faults' \in 0..MaxFaults
    BY <1>6, FaultsBounded
  <2> QED
    BY <1>3, <1>6, <1>9, <2>1 DEF Inv, Typed, Become
<1>13. ~me.cut => \A g \in Handlers : ~HalfReset(g)
  BY <1>1, <1>3 DEF Inv, Apart, HalfReset
<1>14. (\A g \in Handlers : ~HalfReset(g)) => seen' \ Unstored \subseteq Known'
  BY <1>3, <1>10 DEF Inv, MarksMatchStore, Known, Unstored
<1>15. ~HalfReset(h) /\ acked' = acked
  BY <1>1, <1>3 DEF HalfReset
<1> QED
  BY <1>6, <1>7, <1>9, <1>10, <1>11, <1>12, <1>13, <1>14, <1>15, Advance

-----------------------------------------------------------------------------
(***************************************************************************)
(* Resets.                                                                 *)
(***************************************************************************)

\* The steps of a reset in their order.
LEMMA AfterResetIs ==
  ASSUME NEW h \in Handlers, NEW me, me = handler[h], me \in States
  PROVE  /\ me.at = "resetStore" => AfterReset(h) = [me EXCEPT !.at = "resetProcessor"]
         /\ me.at = "resetProcessor" => AfterReset(h) = [me EXCEPT !.at = "resetLevels"]
         /\ me.at = "resetLevels" => AfterReset(h) = [Begun(me.batch) EXCEPT !.cut = me.cut]
<1>1. /\ DOMAIN ResetSteps = 1..3 /\ ResetSteps[1] = "resetStore"
      /\ ResetSteps[2] = "resetProcessor" /\ ResetSteps[3] = "resetLevels"
  BY DEF ResetSteps
<1>2. ASSUME NEW k \in 1..3, me.at = ResetSteps[k]
      PROVE  AfterReset(h) = IF k = 3 THEN [Begun(me.batch) EXCEPT !.cut = me.cut]
                             ELSE [me EXCEPT !.at = ResetSteps[k + 1]]
  <2>1. \A j \in DOMAIN ResetSteps : ResetSteps[j] = me.at <=> j = k
    BY <1>1, <1>2
  <2>2. (CHOOSE j \in DOMAIN ResetSteps : ResetSteps[j] = handler[h].at) = k
    BY <1>1, <2>1
  <2> DEFINE i == CHOOSE j \in DOMAIN ResetSteps : ResetSteps[j] = handler[h].at
  <2>3. AfterReset(h) = IF i = 3 THEN [Begun(handler[h].batch) EXCEPT !.cut = handler[h].cut]
                        ELSE [handler[h] EXCEPT !.at = ResetSteps[i + 1]]
    BY Zenon DEF AfterReset
  <2> QED
    BY <2>2, <2>3
<1>3. me.at = "resetStore" => AfterReset(h) = [me EXCEPT !.at = "resetProcessor"]
  BY <1>1, <1>2
<1>4. me.at = "resetProcessor" => AfterReset(h) = [me EXCEPT !.at = "resetLevels"]
  BY <1>1, <1>2
<1>5. me.at = "resetLevels" => AfterReset(h) = [Begun(me.batch) EXCEPT !.cut = me.cut]
  BY <1>1, <1>2
<1> QED
  BY <1>3, <1>4, <1>5

\* The emptied repository cuts every other request; its own goes on to the
\* processor, or ends in an error.
LEMMA ResetStoreStep ==
  ASSUME Inv, NEW h \in Handlers, NEW outcome \in Outcomes, ResetStore(h, outcome)
  PROVE  Inv'
<1>1. PICK me : me = handler[h]
  OBVIOUS
<1>2. PICK st : st = IF outcome = "ok" THEN [me EXCEPT !.at = "resetProcessor"] ELSE Idle
  OBVIOUS
<1>3. /\ me \in States /\ me.at = "resetStore" /\ StoreInv
      /\ Store!Reset(outcome) /\ outcome \in {"ok", "failed", "unknown"}
      /\ UNCHANGED <<seen, levels, requests, restarts>> /\ Met(outcome)
  BY <1>1, IngestAssumption DEF Inv, Typed, ResetStore
<1>4. /\ st \in States
      /\ IF outcome = "ok"
         THEN /\ st.at = "resetProcessor" /\ st.view = me.view /\ st.cut = me.cut
         ELSE st.at = "idle" /\ st.view = {}
  BY <1>2, <1>3, IdleFine DEF States, Places
<1>5. handler' = [g \in Handlers |-> IF g = h THEN st ELSE
                    [handler[g] EXCEPT !.cut = handler[g].at # "idle" /\ (@ \/ outcome # "failed")]]
  <2>1. outcome = "ok" => AfterReset(h) = [me EXCEPT !.at = "resetProcessor"]
    BY <1>1, <1>3, AfterResetIs
  <2> QED
    BY <1>1, <1>2, <2>1 DEF ResetStore
<1>6. ASSUME NEW g \in Handlers, g # h
      PROVE  /\ handler[g] \in States /\ handler'[g] \in States
             /\ handler'[g].at = handler[g].at /\ handler'[g].batch = handler[g].batch
             /\ handler'[g].todo = handler[g].todo /\ handler'[g].view = handler[g].view
             /\ handler'[g].pending = handler[g].pending
             /\ handler'[g].scope = handler[g].scope /\ handler'[g].alert = handler[g].alert
             /\ handler'[g].cut <=>
                  handler[g].at # "idle" /\ (handler[g].cut \/ outcome # "failed")
  <2>1. handler[g] \in States
    BY DEF Inv, Typed
  <2>2. handler'[g] = [handler[g] EXCEPT !.cut =
                         handler[g].at # "idle" /\ (@ \/ outcome # "failed")]
    BY <1>5, <1>6
  <2>3. PICK cut \in BOOLEAN :
          cut <=> handler[g].at # "idle" /\ (handler[g].cut \/ outcome # "failed")
    OBVIOUS
  <2>4. handler'[g] = [handler[g] EXCEPT !.cut = cut]
    BY <2>1, <2>2, <2>3 DEF States
  <2> QED
    BY <2>1, <2>3, <2>4 DEF States
<1>7. handler' \in [Handlers -> States] /\ handler'[h] = st
  BY <1>4, <1>5, <1>6
<1>8. /\ outcome = "failed" => UNCHANGED history
      /\ outcome # "failed" =>
           /\ acked' = {} /\ wiped' = wiped \union db.events
           /\ dropped' = IF outcome = "ok" THEN dropped ELSE dropped \union db.events
           /\ torn' = torn \union {handler[g].scope : g \in {f \in Handlers : Investigating(f)}}
                           \union (IF outcome = "ok" THEN {} ELSE DOMAIN cache.incidents)
  BY DEF ResetStore
<1>9. /\ wiped \subseteq wiped' /\ torn \subseteq torn'
      /\ outcome # "failed" => db.events \subseteq wiped'
      /\ outcome = "unknown" => DOMAIN cache.incidents \subseteq torn'
      /\ outcome # "failed" => \A g \in Handlers : Investigating(g) => handler[g].scope \in torn'
  BY <1>8 DEF history
<1>10. /\ StoreInv'
       /\ outcome = "failed" => UNCHANGED <<db, cache>>
       /\ outcome # "failed" => db'.events = {}
       /\ \A r \in States :
            /\ Clean(r)
            /\ outcome # "failed" /\ r.at \in {"investigate", "reinvestigate"}
                 => r.scope \in torn'
            => Clean(r)'
  BY <1>3, <1>9, ResetCall
<1>11. Typed'
  <2>1. faults' \in 0..MaxFaults
    BY <1>3, FaultsBounded
  <2>2. db.events \subseteq Events /\ DOMAIN cache.incidents \subseteq Scopes
    BY <1>3 DEF StoreInv, Tables, Stores, IncidentTables
  <2>3. \A g \in Handlers : Investigating(g) => handler[g].scope \in Scopes
    BY DEF Inv, Fine, Placed, Investigating
  <2>4. /\ acked' \subseteq Batches /\ dropped' \subseteq Events
        /\ wiped' \subseteq Events /\ torn' \subseteq Scopes
    BY <1>8, <2>2, <2>3 DEF Inv, Typed, history
  <2> QED
    BY <1>3, <1>7, <2>1, <2>4 DEF Inv, Typed
<1>12. InFlight' = InFlight
  <2>1. \A g \in Handlers : handler'[g].at = "store" <=> handler[g].at = "store"
    BY <1>1, <1>3, <1>4, <1>6, <1>7
  <2>2. \A g \in Handlers : handler[g].at = "store" => handler'[g].todo = handler[g].todo
    BY <1>1, <1>3, <1>6
  <2>3. \A e : e \in InFlight <=> \E g \in Handlers : handler[g].at = "store" /\ e = Head(handler[g].todo)
    BY DEF InFlight
  <2>4. \A e : e \in InFlight' <=>
                 \E g \in Handlers : handler'[g].at = "store" /\ e = Head(handler'[g].todo)
    BY DEF InFlight
  <2>5. \A e : e \in InFlight <=> e \in InFlight'
    BY <2>1, <2>2, <2>3, <2>4
  <2> QED
    BY <2>5 DEF InFlight
<1>13. outcome # "ok" => Known \subseteq Known'
  <2>1. CASE outcome = "failed"
    BY <1>8, <1>10, <1>12, <2>1 DEF Known, history
  <2>2. CASE outcome = "unknown"
    BY <1>8, <1>12, <2>2 DEF Known
  <2> QED
    BY <1>3, <2>1, <2>2
<1>14. outcome = "failed" => \A e : Kept(e) => Kept(e)'
  BY <1>10 DEF Kept, HeldIn, Store!Open
<1>15. ASSUME NEW g \in Handlers, NEW r, r = handler'[g]
       PROVE  Fine(r)'
  <2>1. CASE g = h
    <3>1. Clean(me)
      BY <1>1 DEF Inv, Fine
    <3>2. Clean(me)'
      BY <1>3, <1>10, <3>1
    <3>3. Clean(st)'
      BY <1>4, <3>2 DEF Clean
    <3>4. Placed(st)' /\ Behind(st)' /\ Delivered(st)'
      BY <1>4 DEF Placed, Behind, Delivered, Waiting
    <3> QED
      BY <1>7, <1>15, <2>1, <3>3, <3>4 DEF Fine
  <2>2. CASE g # h
    <3>1. PICK q : q = handler[g]
      OBVIOUS
    <3>2. /\ q \in States /\ r \in States /\ r.at = q.at /\ r.batch = q.batch
          /\ r.todo = q.todo /\ r.view = q.view /\ r.pending = q.pending
          /\ r.scope = q.scope /\ r.alert = q.alert
          /\ r.cut <=> q.at # "idle" /\ (q.cut \/ outcome # "failed")
          /\ Fine(q)
      BY <1>6, <1>15, <2>2, <3>1 DEF Inv
    <3>3. Placed(r)'
      BY <3>2 DEF Fine, Placed, Correlate, CodesIn
    <3>4. Behind(r)'
      <4>1. r.at \notin Waiting /\ ~r.cut => outcome = "failed" /\ ~q.cut
        BY <3>2 DEF Waiting
      <4>2. Ahead(r) = Ahead(q)
        BY <3>2 DEF Ahead
      <4> QED
        BY <1>13, <3>2, <4>1, <4>2 DEF Fine, Behind, Stored, Ahead
    <3>5. Clean(r)'
      <4>1. outcome # "failed" /\ q.at \in {"investigate", "reinvestigate"} => q.scope \in torn'
        BY <1>9, <3>1 DEF Investigating
      <4>2. Clean(q)'
        BY <1>10, <3>2, <4>1 DEF Fine
      <4> QED
        BY <3>2, <4>2 DEF Clean
    <3>6. Delivered(r)'
      <4>1. r.at = "accept" /\ ~r.cut => outcome = "failed" /\ ~q.cut
        BY <3>2
      <4> QED
        BY <1>14, <3>2, <4>1 DEF Fine, Delivered
    <3> QED
      BY <3>3, <3>4, <3>5, <3>6 DEF Fine
  <2> QED
    BY <2>1, <2>2
<1>16. /\ \A g \in Handlers : g # h => (HalfReset(g)' <=> HalfReset(g))
       /\ HalfReset(h)' <=> outcome = "ok"
       /\ ~HalfReset(h)
  BY <1>1, <1>3, <1>4, <1>6, <1>7 DEF HalfReset
<1>17. ASSUME NEW g \in Handlers PROVE Apart(g)'
  <2>1. Apart(g)
    BY DEF Inv
  <2>2. CASE g = h
    BY <1>1, <1>3, <1>4, <1>7, <1>16, <2>1, <2>2 DEF Apart
  <2>3. CASE g # h
    BY <1>6, <1>16, <2>1, <2>3 DEF Apart
  <2> QED
    BY <2>2, <2>3
<1>18. MarksMatchStore'
  BY <1>3, <1>13, <1>16 DEF Inv, MarksMatchStore, Known
<1>19. Answered'
  <2>1. CASE outcome = "failed"
    BY <1>8, <1>13, <1>14, <1>16, <2>1 DEF Inv, Answered, Stored, history
  <2>2. CASE outcome # "failed"
    BY <1>8, <2>2 DEF Answered
  <2> QED
    BY <2>1, <2>2
<1> QED
  BY <1>10, <1>11, <1>15, <1>17, <1>18, <1>19 DEF Inv

\* The processor forgets its marks while every other request is cut or idle.
LEMMA ResetProcessorStep ==
  ASSUME Inv, NEW h \in Handlers, ResetProcessor(h)
  PROVE  Inv'
<1>1. PICK me : me = handler[h]
  OBVIOUS
<1>2. PICK st : st = [me EXCEPT !.at = "resetLevels"]
  OBVIOUS
<1>3. /\ me \in States /\ Fine(me) /\ me.at = "resetProcessor" /\ HalfReset(h)
      /\ seen' = {} /\ dropped' = {}
      /\ UNCHANGED <<storeVars, levels, counters, acked, wiped, torn>>
  BY <1>1 DEF Inv, Typed, ResetProcessor, HalfReset
<1>4. /\ st \in States /\ st.at = "resetLevels" /\ st.view = me.view /\ st.cut = me.cut
  BY <1>2, <1>3 DEF States, Places
<1>5. handler' = [handler EXCEPT ![h] = st]
  BY <1>1, <1>2, <1>3, AfterResetIs DEF ResetProcessor, Become
<1>6. \A g \in Handlers : handler[g] \in States /\ handler'[g] = IF g = h THEN st ELSE handler[g]
  BY <1>5 DEF Inv, Typed
<1>7. StoreInv' /\ Grows
  BY <1>3, StoreSame DEF Inv
<1>8. \A g \in Handlers : HalfReset(g)' <=> g # h /\ HalfReset(g)
  BY <1>4, <1>6 DEF HalfReset
<1>9. acked = {} /\ acked' = {}
  BY <1>3 DEF Inv, Answered
<1>10. ASSUME NEW g \in Handlers, NEW r, r = handler'[g] PROVE Fine(r)'
  <2>1. CASE g = h
    <3>1. Clean(me)'
      BY <1>3, <1>7 DEF Fine, Grows
    <3>2. Clean(st)'
      BY <1>4, <3>1 DEF Clean
    <3>3. Placed(st)' /\ Behind(st)' /\ Delivered(st)'
      BY <1>4 DEF Placed, Behind, Delivered, Waiting
    <3> QED
      BY <1>6, <1>10, <2>1, <3>2, <3>3 DEF Fine
  <2>2. CASE g # h
    <3>1. r = handler[g] /\ r \in States /\ Fine(r)
      BY <1>6, <1>10, <2>2 DEF Inv
    <3>2. r.at \in {"idle", "reinvestigate"} \/ r.cut
      BY <1>3, <2>2, <3>1 DEF Inv, Apart
    <3>3. Clean(r)'
      BY <1>7, <3>1 DEF Fine, Grows
    <3>4. Behind(r)' /\ Delivered(r)'
      BY <3>2 DEF Behind, Delivered, Waiting
    <3>5. Placed(r)'
      BY <3>1 DEF Fine, Placed, Correlate, CodesIn
    <3> QED
      BY <3>3, <3>4, <3>5 DEF Fine
  <2> QED
    BY <2>1, <2>2
<1>11. ASSUME NEW g \in Handlers PROVE Apart(g)'
  <2>1. Apart(g)
    BY DEF Inv
  <2> QED
    BY <1>1, <1>3, <1>4, <1>6, <1>8, <2>1 DEF Apart
<1>12. MarksMatchStore'
  BY <1>3 DEF MarksMatchStore
<1>13. Answered'
  BY <1>9 DEF Answered
<1>14. Typed'
  BY <1>3, <1>4, <1>5 DEF Inv, Typed, counters
<1> QED
  BY <1>7, <1>10, <1>11, <1>12, <1>13, <1>14 DEF Inv

LEMMA ResetLevelsStep ==
  ASSUME Inv, NEW h \in Handlers, ResetLevels(h)
  PROVE  Inv'
<1>1. PICK me : me = handler[h]
  OBVIOUS
<1>2. PICK st : st = [Begun(me.batch) EXCEPT !.cut = me.cut]
  OBVIOUS
<1>3. /\ me \in States /\ me.at = "resetLevels" /\ me.batch \in Batches /\ me.cut \in BOOLEAN
      /\ ~HalfReset(h)
      /\ UNCHANGED <<storeVars, seen, counters, history>>
  BY <1>1 DEF Inv, Typed, ResetLevels, HalfReset, States
<1>4. Become(h, st)
  BY <1>1, <1>2, <1>3, AfterResetIs DEF ResetLevels
<1>5. st \in States /\ st.at \in {"process", "accept"} /\ st.cut = me.cut /\ Fine(st)'
  <2>1. me.batch \in Batches /\ me.cut \in BOOLEAN
    BY <1>3
  <2> QED
    <3>1. PICK b, cut : b = me.batch /\ cut = me.cut
      OBVIOUS
    <3>2. b \in Batches /\ cut \in BOOLEAN /\ st = [Begun(b) EXCEPT !.cut = cut]
      BY <1>2, <2>1, <3>1
    <3>3. st \in States /\ st.at \in {"process", "accept"} /\ st.cut = cut /\ Fine(st)'
      BY <3>2, BegunFine
    <3> QED
      BY <3>1, <3>3
<1>6. StoreInv' /\ Grows
  BY <1>3, StoreSame DEF Inv, history
<1>7. Known \subseteq Known'
  BY <1>1, <1>3, <1>4, <1>5, KnownStays DEF storeVars, history
<1>8. levels' \in [Scopes -> DOMAIN Rank]
  BY DEF ResetLevels, Rank
<1>9. Typed'
  BY <1>3, <1>4, <1>5, <1>8 DEF Inv, Typed, Become, counters, history
<1>10. (\A g \in Handlers : ~HalfReset(g)) => seen' \ Unstored \subseteq Known'
  BY <1>3, <1>7 DEF Inv, MarksMatchStore, Known, Unstored
<1>11. ~st.cut => \A g \in Handlers : g # h => ~HalfReset(g)
  BY <1>1, <1>3, <1>5 DEF Inv, Apart
<1>12. acked' = acked
  BY <1>3 DEF history
<1> QED
  BY <1>3, <1>4, <1>5, <1>6, <1>7, <1>9, <1>10, <1>11, <1>12, Advance

-----------------------------------------------------------------------------
(***************************************************************************)
(* The invariant.                                                          *)
(***************************************************************************)

\* Whatever leaves the requests and all they know leaves the invariant.
LEMMA Unmoved ==
  ASSUME Inv, UNCHANGED <<storeVars, seen, handler, counters, history>>,
         levels' \in [Scopes -> DOMAIN Rank]
  PROVE  Inv'
<1>1. StoreInv' /\ Grows
  BY StoreSame DEF Inv, history
<1>2. Known' = Known
  BY DEF Known, InFlight, storeVars, history
<1>3. \A g \in Handlers : HalfReset(g)' <=> HalfReset(g)
  BY DEF HalfReset
<1>4. \A g \in Handlers : Fine(handler[g])'
  <2>1. ASSUME NEW g \in Handlers, NEW r, r = handler'[g] PROVE Fine(r)'
    <3>1. r \in States /\ Fine(r)
      BY <2>1 DEF Inv, Typed
    <3> QED
      BY <1>1, <1>2, <3>1, FineStays
  <2> QED
    BY <2>1
<1>5. \A g \in Handlers : Apart(g)'
  BY <1>3 DEF Inv, Apart
<1>6. MarksMatchStore'
  BY <1>2, <1>3 DEF Inv, MarksMatchStore, Known
<1>7. Answered'
  <2>1. \A b \in acked : \A e \in b.alerts : e \in Events
    BY IngestAssumption DEF Inv, Typed
  <2> QED
    BY <1>1, <1>2, <1>3, <2>1 DEF Inv, Answered, Stored, Grows, history
<1>8. Typed'
  BY DEF Inv, Typed, counters, history
<1> QED
  BY <1>1, <1>4, <1>5, <1>6, <1>7, <1>8 DEF Inv

\* A new process knows what the tables hold, and nothing else.
LEMMA RestartStep ==
  ASSUME Inv, Restart
  PROVE  Inv'
<1>1. /\ Store!Restart /\ seen' = {} /\ handler' = [h \in Handlers |-> Idle]
      /\ dropped' = dropped \union InFlight
      /\ UNCHANGED <<requests, faults, acked, wiped, torn>>
  BY DEF Restart
<1>2. StoreInv' /\ db' = db /\ \A e : Kept(e) => Kept(e)'
  BY <1>1, RestartCall DEF Inv
<1>3. \A h \in Handlers : handler'[h] = Idle /\ ~HalfReset(h)'
  BY <1>1, IdleFine DEF HalfReset
<1>4. \A h \in Handlers : Fine(handler[h])'
  <2>1. ASSUME NEW h \in Handlers, NEW r, r = handler'[h] PROVE Fine(r)'
    BY <1>3, <2>1, IdleFine
  <2> QED
    BY <2>1
<1>5. \A h \in Handlers : Apart(h)'
  BY <1>3 DEF Apart
<1>6. MarksMatchStore'
  BY <1>1 DEF MarksMatchStore
<1>7. Known \subseteq Known'
  BY <1>1, <1>2 DEF Known
<1>8. Answered'
  BY <1>1, <1>2, <1>3, <1>7 DEF Inv, Answered, Stored
<1>9. Typed'
  <2>1. InFlight \subseteq Events
    <3>1. \A h \in Handlers : handler[h].at = "store" => Head(handler[h].todo) \in Events
      BY HeadTail DEF Inv, Typed, Fine, Placed
    <3> QED
      BY <3>1 DEF InFlight
  <2>2. levels' \in [Scopes -> DOMAIN Rank] /\ restarts' \in 0..MaxRestarts
    BY IngestAssumption DEF Restart, Rank, Inv, Typed
  <2>3. handler' \in [Handlers -> States]
    BY <1>1, IdleFine
  <2> QED
    BY <1>1, <2>1, <2>2, <2>3 DEF Inv, Typed
<1> QED
  BY <1>2, <1>4, <1>5, <1>6, <1>8, <1>9 DEF Inv

LEMMA InitInv == Init => Inv
<1> SUFFICES ASSUME Init PROVE Inv
  OBVIOUS
<1>1. db = Store!Empty /\ cache = db /\ promised = Store!Nothing
  <2>1. db = [Store!Empty EXCEPT !.alerts = <<>>] /\ cache = Store!Load(db) /\ promised = Store!Nothing
    BY DEF Init, Store!StoreInit
  <2>2. <<>> = Store!NoRows
    BY DEF Store!NoRows
  <2>3. db = Store!Empty
    BY <2>1, <2>2 DEF Store!Empty
  <2> QED
    BY <2>1, <2>3, EmptyStore, LoadsAll
<1>2. StoreInv
  <2>1. /\ Store!Empty.behaviors = {} /\ Store!Empty.events = {}
        /\ DOMAIN Store!Empty.alerts = {} /\ DOMAIN Store!Empty.incidents = {}
    BY DEF Store!Empty, Store!NoRows
  <2> QED
    BY <1>1, <2>1, EmptyStore DEF StoreInv, Tables, Backed, Keyed, Store!Nothing
<1>3. Typed
  BY IdleFine, IngestAssumption DEF Init, Typed, Rank
<1>4. \A h \in Handlers : handler[h] = Idle /\ ~HalfReset(h)
  BY IdleFine DEF Init, HalfReset
<1>5. \A h \in Handlers : Fine(handler[h]) /\ Apart(h)
  BY <1>4, IdleFine DEF Apart
<1>6. MarksMatchStore /\ Answered
  BY DEF Init, MarksMatchStore, Answered
<1> QED
  BY <1>2, <1>3, <1>5, <1>6 DEF Inv

LEMMA Invariance == Inv /\ [Next]_vars => Inv'
<1> SUFFICES ASSUME Inv, [Next]_vars PROVE Inv'
  OBVIOUS
<1>1. ASSUME NEW h \in Handlers, NEW b \in Batches, Receive(h, b) PROVE Inv'
  BY <1>1, ReceiveStep
<1>2. ASSUME NEW h \in Handlers, NEW s \in Scopes, ReadIncident(h, s) PROVE Inv'
  BY <1>2, ReadIncidentStep
<1>3. ASSUME NEW h \in Handlers, Handle(h) PROVE Inv'
  <2>1. CASE Call(h)
    <3>1. PICK outcome \in Outcomes :
            \/ ResetStore(h, outcome) \/ StoreEvent(h, outcome)
            \/ StoreBehaviors(h, outcome) \/ StoreLocalAlert(h, outcome)
            \/ StoreIncidentAlert(h, outcome) \/ Investigate(h, outcome)
            \/ AcceptAlert(h, outcome)
      BY <2>1 DEF Call
    <3> QED
      BY <3>1, ResetStoreStep, StoreEventStep, StoreBehaviorsStep, StoreLocalAlertStep,
         StoreIncidentAlertStep, InvestigateStep, AcceptAlertStep
  <2> QED
    BY <1>3, <2>1, ResetProcessorStep, ResetLevelsStep, ProcessStep, SnapshotStep,
       CorrelateIncidentsStep, EndPipelineStep, AnswerStep DEF Handle
<1>4. ASSUME NEW s \in Scopes, WindowEnds(s) PROVE Inv'
  <2>1. levels' \in [Scopes -> DOMAIN Rank]
    BY <1>4 DEF WindowEnds, Inv, Typed, Rank
  <2> QED
    BY <1>4, <2>1, Unmoved DEF WindowEnds
<1>5. CASE Restart
  BY <1>5, RestartStep
<1>6. CASE UNCHANGED vars
  <2>1. UNCHANGED <<storeVars, seen, handler, counters, history>> /\ levels' = levels
    BY <1>6 DEF vars
  <2> QED
    BY <2>1, Unmoved DEF Inv, Typed
<1> QED
  BY <1>1, <1>2, <1>3, <1>4, <1>5, <1>6 DEF Next

LEMMA Always == Spec => []Inv
<1> QED
  BY InitInv, Invariance, PTL DEF Spec

-----------------------------------------------------------------------------
(***************************************************************************)
(* What the runs check.                                                    *)
(***************************************************************************)

\* Tables of the invariant's types are EvidenceStore's.
LEMMA StoreTypes == Tables => Store!StoreTypeOK
<1> SUFFICES ASSUME Tables PROVE Store!StoreTypeOK
  OBVIOUS
<1>1. Store!AlertIds = Ids /\ Store!AlertKeys = Keys
  BY DEF Store!AlertIds, Store!AlertKeys, Ids, Keys
<1>2. ASSUME NEW s \in Scopes, NEW id \in Ids
      PROVE  s \in {i.id : i \in Incidents} /\ id \in {i.alert : i \in Incidents}
  <2> DEFINE row == [id |-> s, alert |-> id, events |-> {}]
  <2>1. row \in Incidents
    BY DEF Incidents, Ids
  <2>2. row.id = s /\ row.alert = id
    OBVIOUS
  <2> QED
    BY <2>1, <2>2
<1>3. ASSUME NEW store \in Stores, NEW sources, {"server", "collector"} \subseteq sources
      PROVE  Store!Contents(store, sources)
  <2>1. DOMAIN store = DOMAIN Store!Empty
    BY DEF Stores, Store!Empty
  <2>2. /\ store.events \subseteq Events /\ store.behaviors \subseteq Behaviors
        /\ store.alerts \in AlertTables /\ store.incidents \in IncidentTables
    BY DEF Stores
  <2>3. /\ DOMAIN store.alerts \subseteq Ids
        /\ \A id \in DOMAIN store.alerts : store.alerts[id] \in Store!RowsFrom(sources)
    <3>1. Rows \subseteq Store!RowsFrom(sources)
      BY <1>1, <1>3 DEF Rows, Store!RowsFrom
    <3> QED
      BY <2>2, <3>1 DEF AlertTables
  <2>4. /\ DOMAIN store.incidents \subseteq Scopes
        /\ \A s \in DOMAIN store.incidents : store.incidents[s] \in IncidentRows
    BY <2>2 DEF IncidentTables
  <2>5. \A s \in DOMAIN store.incidents : store.incidents[s] \in Store!IncidentRows
    <3> SUFFICES ASSUME NEW s \in DOMAIN store.incidents
                 PROVE  store.incidents[s] \in Store!IncidentRows
      OBVIOUS
    <3> DEFINE row == store.incidents[s]
    <3>1. row \in [alert : Ids, events : SUBSET Events] /\ s \in Scopes
      BY <2>4 DEF IncidentRows
    <3>2. row.alert \in {i.alert : i \in Incidents}
      BY <3>1, <1>2
    <3>3. row \in [alert : {i.alert : i \in Incidents}, events : SUBSET Events]
      BY <3>1, <3>2
    <3> QED
      BY <3>3 DEF Store!IncidentRows
  <2>6. DOMAIN store.incidents \subseteq {i.id : i \in Incidents}
    <3> SUFFICES ASSUME NEW s \in DOMAIN store.incidents
                 PROVE  s \in {i.id : i \in Incidents}
      OBVIOUS
    <3>1. s \in Scopes /\ store.incidents[s].alert \in Ids
      BY <2>4 DEF IncidentRows
    <3> QED
      BY <3>1, <1>2
  <2> QED
    BY <1>1, <2>1, <2>2, <2>3, <2>5, <2>6 DEF Store!Contents
<1>4. Store!Contents(db, {"", "server", "collector"}) /\ Store!Contents(cache, {"server", "collector"})
  BY <1>3 DEF Tables
<1> QED
  BY <1>1, <1>4 DEF Tables, Store!StoreTypeOK

\* Types of tables, cache, marks, levels and requests, and where a request
\* has events or a scope in hand (internal/app/service.go:62-256).
THEOREM TypeCorrect == Spec => []IngestTypeOK
<1>1. ASSUME Inv PROVE IngestTypeOK
  <2>1. Store!StoreTypeOK
    BY <1>1, StoreTypes DEF Inv, StoreInv
  <2>2. ASSUME NEW h \in Handlers
        PROVE  LET me == handler[h]
               IN /\ me.at \in Places /\ me.batch \in Batches /\ me.todo \in Seq(Events)
                  /\ me.view \subseteq Events /\ me.pending \subseteq Events \union Scopes
                  /\ me.cut \in BOOLEAN
                  /\ me.at = "store" => me.todo # <<>>
                  /\ Investigating(h) => me.scope \in Scopes
    <3>1. handler[h] \in States /\ Placed(handler[h])
      BY <1>1 DEF Inv, Typed, Fine
    <3> QED
      BY <3>1 DEF States, Placed, Investigating
  <2> QED
    BY <1>1, <2>1, <2>2 DEF Inv, Typed, IngestTypeOK
<1> QED
  BY <1>1, Always, PTL

\* Nothing durable refers to what never was: every event an alert or incident
\* names, and the alert of every incident, is stored or was wiped by a reset
\* under the request (internal/app/service.go:62-69, 141-172, 193-204).
THEOREM AlertsAndIncidentsBacked == Spec => []EvidenceBacked
<1>1. Inv => EvidenceBacked
  BY DEF Inv, StoreInv, Backed, Rooted, EvidenceBacked
<1> QED
  BY <1>1, Always, PTL

\* Behaviors, for readers and in the tables, are derived from events that are
\* or were stored, whatever overtakes the pipeline (internal/app/service.go:118-120).
THEOREM BehaviorsDerived == Spec => []BehaviorsBacked
<1>1. Inv => BehaviorsBacked
  BY DEF Inv, StoreInv, Backed, BehaviorsBacked
<1> QED
  BY <1>1, Always, PTL

\* An event of a batch answered 201 is durable, about to be, or known dropped
\* (internal/processor/processor.go:74).
THEOREM EventsAccounted == Spec => []AckedAccountedFor
<1>1. Inv => AckedAccountedFor
  BY DEF Inv, Answered, Known, AckedAccountedFor
<1> QED
  BY <1>1, Always, PTL

\* No interleaving of resets with requests and each other leaves a mark on an
\* event the repository forgot (internal/app/service.go:62-69).
THEOREM MarksSound == Spec => []MarksMatchStore
<1>1. Inv => MarksMatchStore
  BY DEF Inv
<1> QED
  BY <1>1, Always, PTL

\* A collector alert answered 201 stays an open alert of the collector's with
\* its event, for readers and in the tables (internal/store/postgres.go:232-253).
THEOREM AlertsKept == Spec => []AckedAlertsKept
<1>1. Inv => AckedAlertsKept
  BY DEF Inv, Answered, Kept, HeldIn, AckedAlertsKept
<1> QED
  BY <1>1, Always, PTL
=============================================================================
