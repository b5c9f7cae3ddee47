---------------------------- MODULE EvidenceStore ----------------------------
(***************************************************************************)
(* The durable repository, internal/store/postgres.go: PostgreSQL tables   *)
(* behind an in-process cache.  Mutators hold one lock, write the database *)
(* first and the cache only when the write was reported done; readers see  *)
(* the cache; a restarted process loads the cache from the tables.         *)
(*                                                                         *)
(* A write is "ok", "failed" (nothing written) or "unknown": committed,    *)
(* but the answer lost to the operation timeout or the connection, which   *)
(* the code cannot tell from a failure.  A process that dies between the   *)
(* two writes is an unknown one followed by Restart.                       *)
(*                                                                         *)
(* Rows of an earlier version have no source; loading makes it "server".   *)
(*                                                                         *)
(* Events and behaviors are identities: their payload is a function of it. *)
(* Of an alert's merged fields the evidence and the source are kept (rule  *)
(* ids are merged like the evidence; severity only rises).                 *)
(***************************************************************************)
EXTENDS Naturals

CONSTANTS
  Events,      \* event identities
  Behaviors,   \* behavior identities
  Alerts,      \* what callers pass: [id, key, status, source, events]
  Incidents,   \* what callers pass: [id, alert, events]
  LegacyAlerts,  \* tables of alerts an earlier version may have left
  Outcomes     \* what a write may meet

AlertIds == {a.id : a \in Alerts}
AlertKeys == {a.key : a \in Alerts}

RowsFrom(sources) ==
  [key : AlertKeys, status : {"open", "closed"}, source : sources, events : SUBSET Events]

ASSUME StoreAssumption ==
  /\ Alerts \subseteq [id : AlertIds, key : AlertKeys, status : {"open", "closed"},
                       source : {"server", "collector"}, events : SUBSET Events]
  /\ \A i \in Incidents : i.events \subseteq Events
  /\ \A table \in LegacyAlerts :
       /\ DOMAIN table \subseteq AlertIds
       /\ table \in [DOMAIN table -> RowsFrom({"", "server", "collector"})]
       /\ \A a \in Alerts : a.id \in DOMAIN table => a.key = table[a.id].key
  /\ Outcomes \subseteq {"ok", "failed", "unknown"}
  /\ \A a, b \in Alerts : a.id = b.id => a.key = b.key

VARIABLES
  db,        \* the tables
  cache,     \* the in-process snapshot every read is served from
  promised   \* history: what was reported stored and not reset since:
             \* events, and evidence as pairs of correlation key and event

storeVars == <<db, cache, promised>>

NoRows == [id \in {} |-> id]

Empty == [events |-> {}, behaviors |-> {}, alerts |-> NoRows, incidents |-> NoRows]

Nothing == [events |-> {}, evidence |-> {}]

\* What NewPostgres loads.
\* Faulty: rows as they are.
LoadRaw(tables) == tables

Load(tables) ==
  LET Sourced(row) == [row EXCEPT !.source = IF @ = "" THEN "server" ELSE @]
  IN  [tables EXCEPT !.alerts =
         [id \in DOMAIN tables.alerts |-> Sourced(tables.alerts[id])]]

StoreInit ==
  /\ \E table \in LegacyAlerts : db = [Empty EXCEPT !.alerts = table]
  /\ cache = Load(db)
  /\ promised = Nothing

\* The function `table` with `row` at `id`.
Put(table, id, row) ==
  [i \in DOMAIN table \union {id} |-> IF i = id THEN row ELSE table[i]]

-----------------------------------------------------------------------------
\* One mutation: Change is applied to the tables unless the write failed, and
\* to the cache when it was reported done.
Write(Change(_), outcome) ==
  /\ outcome \in Outcomes
  /\ db' = IF outcome = "failed" THEN db ELSE Change(db)
  /\ cache' = IF outcome = "ok" THEN Change(cache) ELSE cache

\* What a write reported done adds to the promise.
Promise(outcome, events, evidence) ==
  promised' = IF outcome = "ok"
              THEN [events |-> promised.events \union events,
                    evidence |-> promised.evidence \union evidence]
              ELSE promised

\* Faulty: the cache first, whatever becomes of the write.
AddEventCacheFirst(e, outcome) ==
  /\ db' = IF outcome = "failed" THEN db ELSE [db EXCEPT !.events = @ \union {e}]
  /\ cache' = [cache EXCEPT !.events = @ \union {e}]
  /\ Promise(outcome, {e}, {})

AddEvent(e, outcome) ==
  /\ Write(LAMBDA s : [s EXCEPT !.events = @ \union {e}], outcome)
  /\ Promise(outcome, {e}, {})

\* DELETE and INSERTs in one transaction.
ReplaceBehaviors(items, outcome) ==
  /\ Write(LAMBDA s : [s EXCEPT !.behaviors = items], outcome)
  /\ UNCHANGED promised

\* The open alerts an alert of this key is merged into; the loop over the
\* cache's map takes the first it meets.
Open(store, key) ==
  {id \in DOMAIN store.alerts :
     store.alerts[id].key = key /\ store.alerts[id].status = "open"}

\* Where the alert goes: an open one of its key, or a row of its own.
\* Faulty: always a row of its own.
HomesUnmerged(a) == {a.id}

Homes(a) == IF Open(cache, a.key) = {} THEN {a.id} ELSE Open(cache, a.key)

\* Faulty: the evidence of the later alert replaces the earlier one's.
MergedLatest(existing, a) ==
  [existing EXCEPT !.events = a.events,
                   !.source = IF a.source = "collector" \/ @ = "" THEN a.source ELSE @]

\* Faulty: the source is the later alert's.
MergedLastSource(existing, a) ==
  [existing EXCEPT !.events = @ \union a.events, !.source = a.source]

Merged(existing, a) ==
  [existing EXCEPT !.events = @ \union a.events,
                   !.source = IF a.source = "collector" \/ @ = "" THEN a.source ELSE @]

Row(a) == [key |-> a.key, status |-> a.status, source |-> a.source, events |-> a.events]

\* The row written, the same to the tables and to the cache: it is computed
\* from the cache.
NewRow(id, a) ==
  IF id \in Open(cache, a.key) THEN Merged(cache.alerts[id], a) ELSE Row(a)

AddAlert(id, a, outcome) ==
  /\ id \in Homes(a)
  /\ LET row == NewRow(id, a)
     IN /\ Write(LAMBDA s : [s EXCEPT !.alerts = Put(@, id, row)], outcome)
        /\ Promise(outcome, {},
                   IF row.status = "open" THEN {a.key} \X a.events ELSE {})

AddIncident(i, outcome) ==
  /\ Write(LAMBDA s : [s EXCEPT !.incidents =
                         Put(@, i.id, [alert |-> i.alert, events |-> i.events])],
           outcome)
  /\ UNCHANGED promised

\* TRUNCATE, then an empty cache.  Once the tables may be empty, nothing is
\* promised any more.
Reset(outcome) ==
  /\ Write(LAMBDA s : Empty, outcome)
  /\ promised' = IF outcome = "failed" THEN promised ELSE Nothing

\* A new process: NewPostgres loads the tables.
Restart ==
  /\ cache' = Load(db)
  /\ UNCHANGED <<db, promised>>

StoreNext ==
  \/ Restart
  \/ \E outcome \in Outcomes :
       \/ Reset(outcome)
       \/ \E e \in Events : AddEvent(e, outcome)
       \/ \E items \in SUBSET Behaviors : ReplaceBehaviors(items, outcome)
       \/ \E a \in Alerts : \E id \in Homes(a) : AddAlert(id, a, outcome)
       \/ \E i \in Incidents : AddIncident(i, outcome)

StoreSpec == StoreInit /\ [][StoreNext]_storeVars
-----------------------------------------------------------------------------
IncidentRows == [alert : {i.alert : i \in Incidents}, events : SUBSET Events]

Contents(store, sources) ==
  /\ DOMAIN store = DOMAIN Empty
  /\ store.events \subseteq Events
  /\ store.behaviors \subseteq Behaviors
  /\ DOMAIN store.alerts \subseteq AlertIds
  /\ \A id \in DOMAIN store.alerts : store.alerts[id] \in RowsFrom(sources)
  /\ DOMAIN store.incidents \subseteq {i.id : i \in Incidents}
  /\ \A id \in DOMAIN store.incidents : store.incidents[id] \in IncidentRows

\* The type invariant; what readers see has a source.
StoreTypeOK ==
  /\ Contents(db, {"", "server", "collector"})
  /\ Contents(cache, {"server", "collector"})
  /\ promised \in [events : SUBSET Events, evidence : SUBSET (AlertKeys \X Events)]

Holds(store) ==
  /\ promised.events \subseteq store.events
  /\ \A p \in promised.evidence :
       \E id \in Open(store, p[1]) : p[2] \in store.alerts[id].events

\* What a caller was told is stored can be read, and is in the tables to be
\* read after a restart, through merges, failures, unknown outcomes and
\* restarts, until a Reset (docs/POSTGRESQL_STORAGE.md:5).
PromiseKept == Holds(cache) /\ Holds(db)

\* The ids two tables agree on, and those a table has anew or changed.
Agreed(table, other) == {id \in DOMAIN table \intersect DOMAIN other : table[id] = other[id]}

Changed(table, next) == DOMAIN next \ Agreed(next, table)

ShowsDurable ==
  LET loaded == Load(db')
  IN  /\ cache'.events \ cache.events \subseteq loaded.events
      /\ cache'.behaviors # cache.behaviors => cache'.behaviors = loaded.behaviors
      /\ Changed(cache.alerts, cache'.alerts) \subseteq Agreed(cache'.alerts, loaded.alerts)
      /\ Changed(cache.incidents, cache'.incidents)
           \subseteq Agreed(cache'.incidents, loaded.incidents)

\* No call shows readers what is not yet durable: each row a step adds to the
\* cache or changes there is, after the step, the same row of the tables.
DurableBeforeVisible == [][ShowsDurable]_storeVars

OpensNoSecond ==
  \A k \in AlertKeys :
    \A id \in Open(cache', k) : id \in Open(cache, k) \/ Open(cache, k) = {}

\* AddAlert never opens a second alert for a correlation key that readers
\* already see an open alert of; only a restart can show two, by loading a row
\* whose write was reported failed.
NoSecondAlert == [][Restart \/ OpensNoSecond]_storeVars

\* "Collector Alert and B900 use the same correlation key ..., the repository
\* merges rules and evidence, in the end only one alert is kept"
\* (docs/COLLECTOR_SERVER_API.md:20).
OneAlertPerKey ==
  \A k \in AlertKeys : \A i, j \in Open(cache, k) : i = j
=============================================================================
