---------------------------- MODULE UploadRouter ----------------------------
(***************************************************************************)
(* The collector's upload router, internal/collector/upload_router.go with *)
(* the policy of upload_policy.go: it decides for every event whether to   *)
(* upload it now, keep it as context for a later alert, count it into an   *)
(* aggregate, or never let it leave the host.  It composes the context     *)
(* buffer (RollingBuffer) with two aggregators (EventAggregator).          *)
(*                                                                         *)
(* The router's mutex makes every call atomic.  An event's payload is its  *)
(* number; the order of a result (by event timestamp) is abstracted to a   *)
(* set of routed items.                                                    *)
(***************************************************************************)
EXTENDS Integers, FiniteSets, SequencesExt

CONSTANTS
  Scopes,            \* event scopes (eventScopeKey)
  Templates,         \* the events that occur: [type, scope, public, level, hit]
  TTL, MaxBytes, MaxBytesPerScope,   \* RollingBuffer
  Window, MaxKeys,                   \* EventAggregator
  PostAlertWindow,   \* how long a scope counts as alerted
  Lag,               \* bound: how far a ticker's time trails the clock
  MaxTime,           \* bound: the clock
  MaxEvents          \* bound: the events processed

ASSUME RouterAssumption ==
  /\ Templates \subseteq [type : STRING, scope : Scopes, public : BOOLEAN,
                          level : STRING, hit : BOOLEAN]
  /\ TTL \in Nat \ {0}
  /\ MaxBytes \in Nat \ {0}
  /\ MaxBytesPerScope \in 1..MaxBytes
  /\ Window \in Nat \ {0}
  /\ MaxKeys \in Nat \ {0}
  /\ PostAlertWindow \in Nat \ {0}
  /\ Lag \in Nat
  /\ MaxEvents \in Nat

VARIABLES
  buffer,           \* the RollingBuffer object
  aggregator,       \* the aggregator whose summaries are uploaded
  localAggregator,  \* the aggregator whose summaries stay on the host
  alertedScopes,    \* expiry per alerted scope; NotAlerted for an absent key
  clock,            \* the time
  now,              \* the time passed to the last call
  received,         \* the events processed so far: number -> mode decided, key
  retained,         \* the metric LocalOnlySummaries
  evicted,          \* identities counted by the metric BufferEvicted
  routed,           \* the result of the last call
  uploaded,         \* identities of the single events routed by earlier calls
  stopped           \* the forced flush of shutdown has happened

vars == <<buffer, aggregator, localAggregator, alertedScopes, clock, now,
          received, retained, evicted, routed, uploaded, stopped>>

NotAlerted == -Lag - 1

Keys == {<<t.scope, t.type>> : t \in Templates}

Buf == INSTANCE RollingBuffer
         WITH Sizes <- {1}, MaxAdds <- MaxEvents, added <- Len(received)
Agg == INSTANCE EventAggregator
         WITH buckets <- aggregator, summaries <- <<>>, counted <- <<>>,
              time <- clock, FlushLag <- Lag, MaxTicks <- MaxTime
Loc == INSTANCE EventAggregator
         WITH buckets <- localAggregator, summaries <- <<>>, counted <- <<>>,
              time <- clock, FlushLag <- Lag, MaxTicks <- MaxTime

-----------------------------------------------------------------------------
(***************************************************************************)
(* DefaultUploadPolicy.Decide.  `hit` is the detection's verdict on the    *)
(* event, which Process has written into it before it asks the policy.     *)
(***************************************************************************)
ContextTypes  == {"process_exec", "file_create", "file_write", "file_chmod", "file_unlink"}
BaselineTypes == {"network_accept", "dns_query", "process_fork", "process_exit"}
ReadTypes     == {"file_open", "file_read"}

Decide(e) ==
  LET Decision(m, p, c) == [mode |-> m, priority |-> p, promote |-> c]
  IN CASE e.hit -> Decision("ALWAYS", "high", TRUE)
       [] ~e.hit /\ e.level = "INVESTIGATION" -> Decision("ALWAYS", "high", FALSE)
       [] OTHER ->
          CASE e.type \in ContextTypes -> Decision("ON_ALERT", "high", FALSE)
            [] e.type = "network_connect" /\ e.public ->
                 Decision("ON_ALERT", "high", FALSE)
            [] e.type = "network_connect" /\ ~e.public ->
                 Decision("AGGREGATE", "normal", FALSE)
            [] e.type \in BaselineTypes -> Decision("AGGREGATE", "normal", FALSE)
            [] e.type \in ReadTypes -> Decision("LOCAL_ONLY", "normal", FALSE)
            [] OTHER -> Decision("ON_ALERT", "normal", FALSE)

\* What the runner receives: one event, or a summary of `events`.
Item(id, events, priority, alert) ==
  [id |-> id, events |-> events, priority |-> priority, alert |-> alert]

Single(id, priority, alert) == Item(id, {id[2]}, priority, alert)

Entry(id, s, t, promotable) ==
  [id |-> id, scope |-> s, timestamp |-> t, size |-> 1, promotable |-> promotable]

Ids(entries) == {e.id : e \in entries}

\* expireAlertsLocked
LiveAlerts(t) ==
  [s \in Scopes |-> IF alertedScopes[s] <= t THEN NotAlerted ELSE alertedScopes[s]]

\* A context event is uploaded at once while its scope's alert is active.
\* Faulty: the alert's window is not consulted.
NeverActive(s, t) == FALSE

Active(s, t) == LiveAlerts(t)[s] > t

(***************************************************************************)
(* retainLocalSummariesLocked: summaries enter the buffer one by one, not  *)
(* promotable.                                                             *)
(***************************************************************************)
\* Faulty: a local summary is promotable.
SummaryPromotable(n, s, t) == Entry(<<"summary", n>>, s.key[1], t, TRUE)

SummaryEntry(n, s, t) == Entry(<<"summary", n>>, s.key[1], t, FALSE)

RetainOne(acc, s, t) ==
  LET n == acc.kept + 1
      r == Buf!Add(acc.buffer, SummaryEntry(n, s, t))
  IN [buffer |-> r.buffer, kept |-> n, evicted |-> acc.evicted \union r.evicted]

Retain(b, summaries, t) ==
  FoldLeft(LAMBDA acc, s : RetainOne(acc, s, t),
           [buffer |-> b, kept |-> retained, evicted |-> {}], summaries)

(***************************************************************************)
(* updateGaugesLocked closes every call: the buffer expires once more, and *)
(* what the call evicted is added to the metric.                           *)
(***************************************************************************)
\* Faulty: the evictions of the closing Stats call are not counted.
SettleUncounted(b, gone, t) ==
  /\ buffer' = Buf!Expire(b, t).buffer
  /\ evicted' = evicted \union Ids(gone)

Settle(b, gone, t) ==
  /\ buffer' = Buf!Expire(b, t).buffer
  /\ evicted' = evicted \union Ids(gone \union Buf!Expire(b, t).evicted)

Route(items) ==
  /\ routed' = items
  /\ uploaded' = uploaded \union Ids({i \in items : i.id[1] = "event"})

\* A bucket counts the latest events of its key: no earlier bucket of the key
\* is left when a fresh one is made.
Members(bucket) ==
  LET ofKey == {i \in DOMAIN received :
                  received[i] = [mode |-> "AGGREGATE", key |-> bucket.key]}
  IN {i \in ofKey : Cardinality({j \in ofKey : j >= i}) <= bucket.count}

Summaries(emitted) ==
  {Item(<<"aggregate", s.key, s.first, s.last>>, Members(s), "normal", FALSE) :
     s \in ToSet(emitted)}

-----------------------------------------------------------------------------
(***************************************************************************)
(* Process, one branch per upload mode.                                    *)
(***************************************************************************)
UploadNow(id, s, d, hit, t) ==
  LET p == Buf!Promote(buffer, s, t)
      context == {Single(e.id, "high", FALSE) : e \in ToSet(p.promoted)}
      event == Single(id, d.priority, hit)
  IN /\ d.mode = "ALWAYS"
     /\ IF d.promote
          THEN /\ alertedScopes' = [LiveAlerts(t) EXCEPT ![s] = t + PostAlertWindow]
               /\ Settle(p.buffer, p.evicted, t)
               /\ Route(context \union {event})
          ELSE /\ alertedScopes' = LiveAlerts(t)
               /\ Settle(buffer, {}, t)
               /\ Route({event})
     /\ UNCHANGED <<aggregator, localAggregator, retained>>

KeepForAlert(id, s, d, t) ==
  LET added == Buf!Add(buffer, Entry(id, s, t, TRUE))
  IN /\ d.mode = "ON_ALERT"
     /\ alertedScopes' = LiveAlerts(t)
     /\ IF Active(s, t)
          THEN Route({Single(id, "high", FALSE)}) /\ Settle(buffer, {}, t)
          ELSE Route({}) /\ Settle(added.buffer, added.evicted, t)
     /\ UNCHANGED <<aggregator, localAggregator, retained>>

Aggregate(key, d, t) ==
  LET added == Agg!AddEvent(aggregator, key, t)
  IN /\ d.mode = "AGGREGATE"
     /\ alertedScopes' = LiveAlerts(t)
     /\ aggregator' = added.buckets
     /\ Route(Summaries(added.emitted))
     /\ Settle(buffer, {}, t)
     /\ UNCHANGED <<localAggregator, retained>>

KeepLocal(key, d, t) ==
  LET added == Loc!AddEvent(localAggregator, key, t)
      kept  == Retain(buffer, added.emitted, t)
  IN /\ d.mode = "LOCAL_ONLY"
     /\ alertedScopes' = LiveAlerts(t)
     /\ localAggregator' = added.buckets
     /\ Route({})
     /\ Settle(kept.buffer, kept.evicted, t)
     /\ retained' = kept.kept
     /\ UNCHANGED aggregator

Process(e) ==
  LET id  == <<"event", Len(received) + 1>>
      d   == Decide(e)
      key == <<e.scope, e.type>>
  IN /\ ~stopped
     /\ Len(received) < MaxEvents
     /\ now' = clock
     /\ received' = Append(received, [mode |-> d.mode, key |-> key])
     /\ \/ UploadNow(id, e.scope, d, e.hit, clock)
        \/ KeepForAlert(id, e.scope, d, clock)
        \/ Aggregate(key, d, clock)
        \/ KeepLocal(key, d, clock)
     /\ UNCHANGED <<clock, stopped>>

(***************************************************************************)
(* Flush, from the ticker or, forced, once at shutdown.                    *)
(***************************************************************************)
Flush(t, force) ==
  LET flushed == Agg!Flush(aggregator, t, force)
      local   == Loc!Flush(localAggregator, t, force)
      kept    == Retain(buffer, IF force THEN <<>> ELSE local.emitted, t)
  IN /\ ~stopped
     /\ now' = t
     /\ alertedScopes' = LiveAlerts(t)
     /\ aggregator' = flushed.buckets
     /\ localAggregator' = local.buckets
     /\ Route(Summaries(flushed.emitted))
     /\ Settle(kept.buffer, kept.evicted, t)
     /\ retained' = kept.kept
     /\ stopped' = force
     /\ UNCHANGED <<clock, received>>

Tick ==
  /\ clock < MaxTime
  /\ clock' = clock + 1
  /\ UNCHANGED <<buffer, aggregator, localAggregator, alertedScopes, now, received,
                 retained, evicted, routed, uploaded, stopped>>

Init ==
  /\ buffer = Buf!EmptyBuffer
  /\ aggregator = <<>> /\ localAggregator = <<>>
  /\ alertedScopes = [s \in Scopes |-> NotAlerted]
  /\ clock = 0 /\ now = 0
  /\ received = <<>>
  /\ retained = 0
  /\ evicted = {} /\ routed = {} /\ uploaded = {}
  /\ stopped = FALSE

Next ==
  \/ \E e \in Templates : Process(e)
  \/ \E d \in 0..Lag : Flush(clock - d, FALSE)
  \/ Flush(clock, TRUE)
  \/ Tick

Spec == Init /\ [][Next]_vars

-----------------------------------------------------------------------------
OfMode(m) == {<<"event", i>> : i \in {j \in DOMAIN received : received[j].mode = m}}
BufferedIds == Ids(ToSet(buffer.global))

\* Custody of what the buffer was given: every context event is in exactly one
\* of three places, the buffer, the uploads, or the eviction metric; every local
\* summary in the buffer or the metric.  Nothing disappears uncounted over
\* expiry, both limits, promotion and the post-alert window.
BufferCustody ==
  /\ OfMode("ON_ALERT") \union {<<"summary", n>> : n \in 1..retained} =
       BufferedIds \union evicted \union (uploaded \ OfMode("ALWAYS"))
  /\ BufferedIds \intersect (evicted \union uploaded) = {}
  /\ evicted \intersect uploaded = {}

\* While a scope counts as alerted its context is uploaded, never held: no
\* promotable entry of the scope waits in the buffer, where only the next alert
\* would reach it, even though ticks carry times behind the last event's.
AlertedScopeHoldsNoContext ==
  \A e \in ToSet(buffer.global) :
    e.promotable => alertedScopes[e.scope] = NotAlerted

\* LOCAL_ONLY activity never leaves the host: neither its events nor its
\* summaries are routed, by promotion, overflow or the flush at shutdown.
LocalOnlyStaysLocal ==
  \A i \in routed : i.id[1] # "summary" /\ i.id \notin OfMode("LOCAL_ONLY")

\* No event is routed by two calls: promotion takes it out of the buffer, and a
\* post-alert upload does not buffer it.
RoutedOnce == [][\A i \in routed' : routed' # routed => i.id \notin uploaded]_vars

\* An alert takes with it every context event of its scope that is still alive.
AlertBringsContext ==
  [][\A i \in routed' \ routed :
       i.alert =>
         LET s == received'[i.id[2]].key[1]
         IN \A e \in ToSet(buffer.global) :
              e.scope = s /\ e.promotable /\ e.timestamp > now' - TTL =>
                e.id \in Ids(routed')]_vars

(***************************************************************************)
(* The router implements the interface its runner relies on.  The events   *)
(* kept are those of context that was evicted and those of LOCAL_ONLY.     *)
(***************************************************************************)
Numbers(ids) == {id[2] : id \in {i \in ids : i[1] = "event"}}

AggregatedKeys ==
  {<<t.scope, t.type>> : t \in {u \in Templates : Decide(u).mode = "AGGREGATE"}}

BucketOf(k) == UNION {Members(b) : b \in {c \in ToSet(aggregator) : c.key = k}}

Context == Numbers(Ids({e \in ToSet(buffer.global) : e.promotable}))
Counts  == [k \in AggregatedKeys |-> BucketOf(k)]
OnHost  == Numbers(evicted \union OfMode("LOCAL_ONLY"))
Returned ==
  {[events |-> i.events, priority |-> i.priority, alert |-> i.alert] : i \in routed}

Contract == INSTANCE EventRouter
  WITH Events <- 1..MaxEvents, Keys <- AggregatedKeys,
       context <- Context, counted <- Counts, kept <- OnHost, routed <- Returned

\* Every call of the router, whatever its buffer, aggregators and alerted scopes
\* do, is a call of the interface: the events it routes, holds, counts and keeps
\* change hands as the runner assumes.
ImplementsEventRouter == Contract!RouterSpec
=============================================================================
