---------------------------- MODULE ServerIngest ----------------------------
(***************************************************************************)
(* The server's ingestion, internal/app/service.go: HTTP handlers that run *)
(* concurrently, one per request, over the shared Processor (dedup by      *)
(* event id), Repository (EvidenceStore) and collection Manager.  A        *)
(* handler is not a transaction: between any two calls below another       *)
(* handler may run, a store call may fail, or the process may die.         *)
(*                                                                         *)
(* Any batch may be posted at any time, so a batch may be retried, also    *)
(* while an earlier attempt is still running.  A batch is a sequence of    *)
(* events and a set of events it carries a collector alert of; a post to   *)
(* /api/events or /api/events/batch is a batch without alerts.  A request  *)
(* may reset the service, "first" (batch, replay) or "only" (/api/reset):  *)
(* three steps, with other requests between them.  And an incident may be  *)
(* investigated again on request, as it was read.                          *)
(*                                                                         *)
(* What an event says is left to constants: the behaviors derived from it  *)
(* alone (those of several events, B003 and B004, are left out), its scope *)
(* and its time.  The incident is one per scope, its window not modelled.  *)
(***************************************************************************)
EXTENDS Naturals, Sequences

CONSTANTS
  Handlers,      \* requests that may be in progress together
  Events,
  Batches,       \* [events : Seq(Events), alerts : SUBSET Events, reset : "no", "first" or "only"]
  Codes(_),      \* codes of the behaviors derived from an event
  ScopeOf(_),    \* host and container of an event
  TimeOf(_),     \* its timestamp
  Filtered,      \* events of an unsupported type or filtered by the agent rules
  Invalid,       \* events without a field that validateEvent wants
  Pattern,       \* behavior codes that make an incident, "B001" its start
  FingerprintLife,  \* 5 * cacheTTL
  Outcomes,      \* what a store call may meet, see EvidenceStore
  MaxRequests,   \* bound: requests handled
  MaxFaults,     \* bound: store calls that are not "ok"
  MaxRestarts    \* bound: restarts of the process

ASSUME IngestAssumption ==
  /\ Batches # {}
  /\ \A b \in Batches : /\ b.events \in Seq(Events) /\ b.alerts \subseteq Events
                        /\ b.reset \in {"no", "first", "only"}
                        /\ b.reset = "only" => b.events = <<>>
  /\ "B001" \in Pattern
  /\ \A e \in Events : TimeOf(e) \in Nat
  /\ Outcomes \subseteq {"ok", "failed", "unknown"}
  /\ MaxRequests \in Nat /\ MaxFaults \in Nat /\ MaxRestarts \in Nat

Hits == {e \in Events : "B900" \in Codes(e)}
Scopes == {ScopeOf(e) : e \in Events}

Behaviors == UNION {{[code |-> c, event |-> e] : c \in Codes(e)} : e \in Events}

LocalKey(e) == <<"B900", e>>
ScopeKey(s) == <<"scope", s>>

LocalAlert(e) ==
  [id |-> <<"local", e>>, key |-> LocalKey(e), status |-> "open",
   source |-> "server", events |-> {e}]

CollectorAlert(e) ==
  [id |-> <<"collector", e>>, key |-> LocalKey(e), status |-> "open",
   source |-> "collector", events |-> {e}]

\* The alert of an incident names the first of its evidence.
IncidentAlert(s, e) ==
  [id |-> <<"incident", s>>, key |-> ScopeKey(s), status |-> "open",
   source |-> "server", events |-> {e}]

Alerts ==
  {LocalAlert(e) : e \in Events} \union {CollectorAlert(e) : e \in Events}
    \union {IncidentAlert(ScopeOf(e), e) : e \in Events}

Incidents == [id : Scopes, alert : {a.id : a \in Alerts}, events : SUBSET Events]

VARIABLES
  db, cache, promised,   \* the repository, see EvidenceStore
  seen,        \* Processor.fingerprints
  levels,      \* collection level of each scope; an expired window is "NORMAL"
  handler,     \* each handler: where it is and its local variables
  requests, faults, restarts,  \* counters of the bounds
  acked,       \* history: batches answered 201 since the repository was emptied
  dropped,     \* history: events marked seen whose storing failed or was cut off
  wiped,       \* history: events stored before the repository was emptied
  torn         \* history: scopes whose alert was wiped while a request, or the
               \* cache after a reset of unknown outcome, kept the incident

storeVars == <<db, cache, promised>>
counters == <<requests, faults, restarts>>
history == <<acked, dropped, wiped, torn>>
vars == <<storeVars, seen, levels, handler, counters, history>>

Store == INSTANCE EvidenceStore WITH LegacyAlerts <- {<<>>}

\* batch   the request
\* todo    its events not yet processed
\* view    the events the pipeline works on (a snapshot)
\* pending events or scopes the present loop has not reached
\* scope   of the incident in hand, and
\* alert   the id of the alert it got
\* cut     history: a reset of another request fell into this one
Idle == [at |-> "idle", batch |-> CHOOSE b \in Batches : TRUE, todo |-> <<>>,
         view |-> {}, pending |-> {}, scope |-> "", alert |-> <<>>, cut |-> FALSE]

Init ==
  /\ Store!StoreInit
  /\ seen = {}
  /\ levels = [s \in Scopes |-> "NORMAL"]
  /\ handler = [h \in Handlers |-> Idle]
  /\ requests = 0 /\ faults = 0 /\ restarts = 0
  /\ acked = {} /\ dropped = {} /\ wiped = {} /\ torn = {}

-----------------------------------------------------------------------------
(***************************************************************************)
(* What the engines compute from a snapshot of events.                     *)
(***************************************************************************)
Derive(view) == {b \in Behaviors : b.event \in view}

CodesIn(view, s) == UNION {Codes(e) : e \in {f \in view : ScopeOf(f) = s}}

Correlate(view) == {s \in Scopes : Pattern \subseteq CodesIn(view, s)}

\* The first event of the scope with behavior B001.
Start(view, s) ==
  LET shells == {e \in view : ScopeOf(e) = s /\ "B001" \in Codes(e)}
  IN  CHOOSE e \in shells : \A f \in shells : TimeOf(e) <= TimeOf(f)

Evidence(view, s) ==
  {e \in view : /\ ScopeOf(e) = s /\ Codes(e) # {}
                /\ TimeOf(e) >= TimeOf(Start(view, s))}

\* Manager.set: a level is not lowered before its window ends.
Rank == [NORMAL |-> 0, WATCH |-> 1, INVESTIGATION |-> 2]

Raise(level, s) == IF Rank[level] >= Rank[levels[s]] THEN level ELSE levels[s]

ObserveBehaviors(view) ==
  levels' = [s \in Scopes |->
    IF "B900" \in CodesIn(view, s) THEN Raise("INVESTIGATION", s)
    ELSE IF "B001" \in CodesIn(view, s) THEN Raise("WATCH", s)
    ELSE levels[s]]

ObserveIncidents(scopes) ==
  levels' = [s \in Scopes |-> IF s \in scopes THEN Raise("INVESTIGATION", s) ELSE levels[s]]

-----------------------------------------------------------------------------
(***************************************************************************)
(* A handler.                                                              *)
(***************************************************************************)
Become(h, state) == handler' = [handler EXCEPT ![h] = state]

Met(outcome) ==
  /\ outcome # "ok" => faults < MaxFaults
  /\ faults' = IF outcome = "ok" THEN faults ELSE faults + 1

\* A call of the repository with its outcome: an error ends the request.
Called(h, outcome, state) ==
  /\ Met(outcome)
  /\ Become(h, IF outcome = "ok" THEN state ELSE Idle)

\* The order of Service.Reset.
\* Faulty: the processor before the repository.
ResetStepsMarksFirst == <<"resetProcessor", "resetStore", "resetLevels">>

ResetSteps == <<"resetStore", "resetProcessor", "resetLevels">>

\* The repository is empty and the processor still knows its events.
HalfReset(h) == handler[h].at = "resetProcessor"

\* The request has an incident in hand and its alert stored.
Investigating(h) == handler[h].at \in {"investigate", "reinvestigate"}

\* The request after a reset, if it has one.  A batch without events skips
\* the pipeline, a batch that resets runs it on what came meanwhile.
Begun(b) ==
  IF b.reset = "only" \/ (b.reset = "no" /\ b.events = <<>>)
  THEN [Idle EXCEPT !.at = "accept", !.batch = b, !.pending = b.alerts]
  ELSE [Idle EXCEPT !.at = "process", !.batch = b, !.todo = b.events]

Receive(h, b) ==
  /\ handler[h].at = "idle"
  /\ requests < MaxRequests
  /\ requests' = requests + 1
  /\ LET next == IF b.reset = "no" THEN Begun(b)
                 ELSE [Idle EXCEPT !.at = ResetSteps[1], !.batch = b]
     IN  Become(h, [next EXCEPT !.cut = \E g \in Handlers : HalfReset(g)])
  /\ UNCHANGED <<storeVars, seen, levels, faults, restarts, history>>

AfterReset(h) ==
  LET me == handler[h]
      i == CHOOSE j \in DOMAIN ResetSteps : ResetSteps[j] = me.at
  IN IF i = 3 THEN [Begun(me.batch) EXCEPT !.cut = me.cut] ELSE [me EXCEPT !.at = ResetSteps[i + 1]]

\* An emptied repository takes back what was answered before, and reaches
\* into the requests in progress.  A reset that reports an error goes no
\* further, whatever became of the tables.
ResetStore(h, outcome) ==
  /\ handler[h].at = "resetStore"
  /\ Store!Reset(outcome)
  /\ Met(outcome)
  /\ handler' = [g \in Handlers |->
       IF g = h THEN IF outcome = "ok" THEN AfterReset(h) ELSE Idle
       ELSE [handler[g] EXCEPT !.cut = handler[g].at # "idle" /\ (@ \/ outcome # "failed")]]
  /\ UNCHANGED <<seen, levels, requests, restarts>>
  /\ IF outcome = "failed" THEN UNCHANGED history
     ELSE /\ acked' = {}
          /\ wiped' = wiped \union db.events
          /\ dropped' = IF outcome = "ok" THEN dropped ELSE dropped \union db.events
          /\ torn' = torn \union {handler[g].scope : g \in {f \in Handlers : Investigating(f)}}
                          \union (IF outcome = "ok" THEN {} ELSE DOMAIN cache.incidents)

ResetProcessor(h) ==
  /\ handler[h].at = "resetProcessor"
  /\ seen' = {} /\ dropped' = {}
  /\ Become(h, AfterReset(h))
  /\ UNCHANGED <<storeVars, levels, counters, acked, wiped, torn>>

ResetLevels(h) ==
  /\ handler[h].at = "resetLevels"
  /\ levels' = [s \in Scopes |-> "NORMAL"]
  /\ Become(h, AfterReset(h))
  /\ UNCHANGED <<storeVars, seen, counters, history>>

\* Marking an event forgets the fingerprints too old at its time.
Mark(e) == {f \in seen \union {e} : TimeOf(e) <= TimeOf(f) + FingerprintLife}

\* Processor.Process of the next event, and validateEvent of what it accepts.
\* Faulty: the event is taken off the list before it is stored.
ProcessAdvancing(h) ==
  LET me == handler[h]
      e == Head(me.todo)
      skip == [me EXCEPT !.todo = Tail(@)]
  IN /\ me.at = "process" /\ me.todo # <<>>
     /\ seen' = IF e \in seen THEN seen ELSE Mark(e)
     /\ Become(h, IF e \in seen \/ e \in Filtered THEN skip
                  ELSE IF e \in Invalid THEN Idle
                  ELSE [skip EXCEPT !.at = "store"])
     /\ UNCHANGED <<storeVars, levels, counters, history>>

Process(h) ==
  LET me == handler[h]
      e == Head(me.todo)
      skip == [me EXCEPT !.todo = Tail(@)]
  IN /\ me.at = "process" /\ me.todo # <<>>
     /\ seen' = IF e \in seen THEN seen ELSE Mark(e)
     /\ Become(h, IF e \in seen \/ e \in Filtered THEN skip
                  ELSE IF e \in Invalid THEN Idle
                  ELSE [me EXCEPT !.at = "store"])
     /\ UNCHANGED <<storeVars, levels, counters, history>>

StoreEvent(h, outcome) ==
  LET me == handler[h]
      e == Head(me.todo)
  IN /\ me.at = "store"
     /\ Store!AddEvent(e, outcome)
     /\ Called(h, outcome, [me EXCEPT !.at = "process", !.todo = Tail(@)])
     /\ dropped' = IF outcome = "ok" THEN dropped \ {e} ELSE dropped \union {e}
     /\ UNCHANGED <<seen, levels, requests, restarts, acked, wiped, torn>>

\* RunPipeline begins.
\* Faulty: it works on every event the processor has marked.
SnapshotMarked(h) ==
  /\ handler[h].at = "process" /\ handler[h].todo = <<>>
  /\ Become(h, [handler[h] EXCEPT !.at = "derive", !.view = seen])
  /\ UNCHANGED <<storeVars, seen, levels, counters, history>>

Snapshot(h) ==
  /\ handler[h].at = "process" /\ handler[h].todo = <<>>
  /\ Become(h, [handler[h] EXCEPT !.at = "derive", !.view = cache.events])
  /\ UNCHANGED <<storeVars, seen, levels, counters, history>>

StoreBehaviors(h, outcome) ==
  LET me == handler[h]
  IN /\ me.at = "derive"
     /\ Store!ReplaceBehaviors(Derive(me.view), outcome)
     /\ Called(h, outcome, [me EXCEPT !.at = "local", !.pending = me.view \intersect Hits])
     /\ IF outcome = "ok" THEN ObserveBehaviors(me.view) ELSE UNCHANGED levels
     /\ UNCHANGED <<seen, requests, restarts, history>>

StoreLocalAlert(h, outcome) ==
  LET me == handler[h]
  IN /\ me.at = "local"
     /\ \E e \in me.pending :
          /\ \E id \in Store!Homes(LocalAlert(e)) :
               Store!AddAlert(id, LocalAlert(e), outcome)
          /\ Called(h, outcome, [me EXCEPT !.pending = @ \ {e}])
     /\ UNCHANGED <<seen, levels, requests, restarts, history>>

CorrelateIncidents(h) ==
  LET me == handler[h]
  IN /\ me.at = "local" /\ me.pending = {}
     /\ ObserveIncidents(Correlate(me.view))
     /\ Become(h, [me EXCEPT !.at = "incident", !.pending = Correlate(me.view)])
     /\ UNCHANGED <<storeVars, seen, counters, history>>

StoreIncidentAlert(h, outcome) ==
  LET me == handler[h]
  IN /\ me.at = "incident"
     /\ \E s \in me.pending :
          LET a == IncidentAlert(s, Start(me.view, s))
          IN \E id \in Store!Homes(a) :
               /\ Store!AddAlert(id, a, outcome)
               /\ Called(h, outcome, [me EXCEPT !.at = "investigate", !.pending = @ \ {s},
                                                !.scope = s, !.alert = id])
     /\ UNCHANGED <<seen, levels, requests, restarts, history>>

\* POST /api/agent/investigate (and /api/alerts) of an incident readers see.
ReadIncident(h, s) ==
  /\ handler[h].at = "idle"
  /\ requests < MaxRequests
  /\ requests' = requests + 1
  /\ s \in DOMAIN cache.incidents
  /\ Become(h, [Idle EXCEPT !.at = "reinvestigate", !.view = cache.incidents[s].events,
                            !.scope = s, !.alert = cache.incidents[s].alert])
  /\ UNCHANGED <<storeVars, seen, levels, faults, restarts, history>>

\* Agent.Investigate reads the seed event and the events around it, and
\* stores the incident with its findings: one just correlated, or as read.
Investigate(h, outcome) ==
  LET me == handler[h]
      s == me.scope
      next == [me EXCEPT !.at = "incident", !.scope = "", !.alert = <<>>]
  IN /\ Investigating(h)
     /\ IF Start(me.view, s) \in cache.events
        THEN /\ Store!AddIncident([id |-> s, alert |-> me.alert,
                                   events |-> Evidence(me.view, s)], outcome)
             /\ Called(h, outcome, IF me.at = "investigate" THEN next ELSE Idle)
        ELSE Become(h, Idle) /\ UNCHANGED <<storeVars, faults>>
     /\ UNCHANGED <<seen, levels, requests, restarts, history>>

EndPipeline(h) ==
  LET me == handler[h]
  IN /\ me.at = "incident" /\ me.pending = {}
     /\ Become(h, [me EXCEPT !.at = "accept", !.view = {}, !.pending = me.batch.alerts])
     /\ UNCHANGED <<storeVars, seen, levels, counters, history>>

\* Faulty: the event is not looked up.
AcceptAlertUnchecked(h, outcome) ==
  LET me == handler[h]
  IN /\ me.at = "accept"
     /\ \E e \in me.pending :
          /\ \E id \in Store!Homes(CollectorAlert(e)) :
               Store!AddAlert(id, CollectorAlert(e), outcome)
          /\ Called(h, outcome, [me EXCEPT !.pending = @ \ {e}])
     /\ UNCHANGED <<seen, levels, requests, restarts, history>>

\* A collector alert whose event is unknown ends the request with a 400.
AcceptAlert(h, outcome) ==
  LET me == handler[h]
  IN /\ me.at = "accept"
     /\ \E e \in me.pending :
          IF e \in cache.events
          THEN /\ \E id \in Store!Homes(CollectorAlert(e)) :
                    Store!AddAlert(id, CollectorAlert(e), outcome)
               /\ Called(h, outcome, [me EXCEPT !.pending = @ \ {e}])
          ELSE Become(h, Idle) /\ UNCHANGED <<storeVars, faults>>
     /\ UNCHANGED <<seen, levels, requests, restarts, history>>

\* Faulty: 201 as soon as the request is read.
AnswerEarly(h) ==
  LET me == handler[h]
  IN /\ me.at \in {"process", "accept"} /\ me.pending = {}
     /\ acked' = IF me.cut THEN acked ELSE acked \union {me.batch}
     /\ IF me.at = "accept" THEN Become(h, Idle) ELSE UNCHANGED handler
     /\ UNCHANGED <<storeVars, seen, levels, counters, dropped, wiped, torn>>

\* 201.  The history keeps it unless a reset fell into the request.
Answer(h) ==
  LET me == handler[h]
  IN /\ me.at = "accept" /\ me.pending = {}
     /\ acked' = IF me.cut THEN acked ELSE acked \union {me.batch}
     /\ Become(h, Idle)
     /\ UNCHANGED <<storeVars, seen, levels, counters, dropped, wiped, torn>>

-----------------------------------------------------------------------------
\* The window of a scope ends: set and List then take its level for NORMAL.
WindowEnds(s) ==
  /\ levels[s] # "NORMAL"
  /\ levels' = [levels EXCEPT ![s] = "NORMAL"]
  /\ UNCHANGED <<storeVars, seen, handler, counters, history>>

InFlight == {Head(handler[h].todo) : h \in {g \in Handlers : handler[g].at = "store"}}

\* The process dies and a new one loads the tables.
Restart ==
  /\ restarts < MaxRestarts
  /\ restarts' = restarts + 1
  /\ Store!Restart
  /\ seen' = {}
  /\ levels' = [s \in Scopes |-> "NORMAL"]
  /\ handler' = [h \in Handlers |-> Idle]
  /\ dropped' = dropped \union InFlight
  /\ UNCHANGED <<requests, faults, acked, wiped, torn>>

Call(h) == \E outcome \in Outcomes :
  \/ ResetStore(h, outcome)
  \/ StoreEvent(h, outcome)
  \/ StoreBehaviors(h, outcome)
  \/ StoreLocalAlert(h, outcome)
  \/ StoreIncidentAlert(h, outcome)
  \/ Investigate(h, outcome)
  \/ AcceptAlert(h, outcome)

Handle(h) ==
  \/ ResetProcessor(h) \/ ResetLevels(h)
  \/ Process(h) \/ Snapshot(h) \/ CorrelateIncidents(h) \/ EndPipeline(h) \/ Answer(h)
  \/ Call(h)

Next ==
  \/ \E h \in Handlers :
       \/ \E b \in Batches : Receive(h, b)
       \/ \E s \in Scopes : ReadIncident(h, s)
       \/ Handle(h)
  \/ \E s \in Scopes : WindowEnds(s)
  \/ Restart

Spec == Init /\ [][Next]_vars

-----------------------------------------------------------------------------
Places == {"idle", "resetStore", "resetProcessor", "resetLevels", "process", "store", "derive", "local", "incident", "investigate", "accept",
           "reinvestigate"}

\* The type invariant.
IngestTypeOK ==
  /\ Store!StoreTypeOK
  /\ seen \subseteq Events
  /\ levels \in [Scopes -> DOMAIN Rank]
  /\ \A h \in Handlers :
       LET me == handler[h]
       IN /\ me.at \in Places
          /\ me.batch \in Batches
          /\ me.todo \in Seq(Events)
          /\ me.view \subseteq Events
          /\ me.pending \subseteq Events \union Scopes
          /\ me.cut \in BOOLEAN
          /\ me.at = "store" => me.todo # <<>>
          /\ Investigating(h) => me.scope \in Scopes
  /\ requests \in 0..MaxRequests /\ faults \in 0..MaxFaults /\ restarts \in 0..MaxRestarts
  /\ acked \subseteq Batches
  /\ dropped \subseteq Events /\ wiped \subseteq Events
  /\ torn \subseteq Scopes

\* Durable alerts and incidents never refer to what never was durable: each
\* event an alert or incident names is stored, or was until a reset overtook
\* the request, and an incident's alert is stored and of its own scope, unless
\* a reset wiped the alert under an incident in hand (internal/app/service.go:62-69, 141-172, 193-204).
EvidenceBacked ==
  /\ \A id \in DOMAIN db.alerts : db.alerts[id].events \subseteq db.events \union wiped
  /\ \A s \in DOMAIN db.incidents :
       LET i == db.incidents[s]
       IN /\ i.events \subseteq db.events \union wiped
          /\ s \in torn \/ (i.alert \in DOMAIN db.alerts /\ db.alerts[i.alert].key = ScopeKey(s))

\* Behaviors are derived from events that are or were stored, though the
\* pipeline works on a snapshot that other requests, resets and restarts
\* overtake (internal/app/service.go:118-120).
BehaviorsBacked ==
  /\ cache.behaviors \subseteq Derive(cache.events \union wiped)
  /\ db.behaviors \subseteq Derive(db.events \union wiped)

Stored(b) == {b.events[i] : i \in DOMAIN b.events} \ (Filtered \union Invalid)

\* An event of a batch answered 201 is durable, or another request is about to
\* store it, or it was dropped: storing it failed, or the process died, after
\* the processor had marked it (internal/processor/processor.go:74).
AckedAccountedFor ==
  \A b \in acked : Stored(b) \subseteq db.events \union InFlight \union dropped

\* Unless a reset is half done, an event the processor would refuse as a
\* duplicate is stored, or about to be, or known dropped: no reset, however it
\* interleaves with requests and other resets, leaves a mark on an event the
\* repository forgot (internal/app/service.go:62-69).
MarksMatchStore ==
  (\A h \in Handlers : ~HalfReset(h)) =>
     seen \ (Filtered \union Invalid) \subseteq db.events \union InFlight \union dropped

\* A collector alert answered 201 stays: an open alert of its key names its
\* event and counts as the collector's, for readers and in the tables, though
\* the pipeline stores the same alert as the server's again and again
\* (internal/store/postgres.go:232-253).
AckedAlertsKept ==
  \A b \in acked : \A e \in b.alerts : \A s \in {cache, db} :
    \E id \in Store!Open(s, LocalKey(e)) :
      e \in s.alerts[id].events /\ s.alerts[id].source = "collector"

\* "The batch always uses stable event and alert ids, so a retry is
\* idempotent ... stable ids guarantee that the retry completes by upsert and
\* dedup" (docs/COLLECTOR_SERVER_API.md:104,106): a batch answered 201 is
\* stored, unless a request is still storing it.
AckedStored == \A b \in acked : Stored(b) \subseteq db.events \union InFlight

\* "behaviors is the derived view of all current events, replaced as a whole
\* by each pipeline" (docs/POSTGRESQL_STORAGE.md:112): once every request has
\* been answered, the behaviors are those of the events stored.
BehaviorsCurrent ==
  (\A h \in Handlers : handler[h].at = "idle") => cache.behaviors = Derive(cache.events)

\* "In the end only one alert is kept" (docs/COLLECTOR_SERVER_API.md:20).
OneAlertPerKey == Store!OneAlertPerKey
=============================================================================
