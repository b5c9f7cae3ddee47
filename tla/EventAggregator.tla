--------------------------- MODULE EventAggregator ---------------------------
(***************************************************************************)
(* The collector's aggregator, internal/collector/aggregator.go: frequent  *)
(* low-value events with one key become one summary per window.            *)
(*                                                                         *)
(* `buckets` is the order list of the code, least recently used first; its *)
(* map from keys to buckets holds the same buckets.  UploadRouter runs two *)
(* aggregators and reuses the operators.                                   *)
(***************************************************************************)
EXTENDS Integers, Lists

CONSTANTS
  Keys,     \* aggregation keys: scope, event type, executable, target
  Window,   \* how long a bucket collects
  MaxKeys   \* how many buckets are kept at a time

ASSUME AggregatorAssumption == Window \in Nat \ {0} /\ MaxKeys \in Nat \ {0}

Bucket(k, t) == [key |-> k, count |-> 1, first |-> t, last |-> t]

Due(bucket, t) == t - bucket.first >= Window

Position(buckets, k) == {i \in DOMAIN buckets : buckets[i].key = k}

(***************************************************************************)
(* AddEvent is Add: count the event in its live bucket, which becomes most *)
(* recent; or replace a bucket whose window is over by a fresh one; or,    *)
(* with every key in use, give up the least recently used bucket.          *)
(***************************************************************************)
CountIn(buckets, i, t) ==
  Append(RemoveAt(buckets, i),
         [buckets[i] EXCEPT !.count = @ + 1, !.last = t])

AllInUse(buckets) == Len(buckets) >= MaxKeys

AddEvent(buckets, k, t) ==
  LET fresh == Bucket(k, t)
      known == Position(buckets, k)
      at    == CHOOSE i \in known : TRUE
      live  == {i \in known : ~ Due(buckets[i], t)}
  IN CASE live # {} ->
            [buckets |-> CountIn(buckets, at, t), emitted |-> <<>>]
       [] known # {} /\ live = {} ->
            [buckets |-> Append(RemoveAt(buckets, at), fresh),
             emitted |-> <<buckets[at]>>]
       [] known = {} /\ AllInUse(buckets) ->
            [buckets |-> Append(Tail(buckets), fresh), emitted |-> <<Head(buckets)>>]
       [] OTHER ->
            [buckets |-> Append(buckets, fresh), emitted |-> <<>>]

Leaving(buckets, t, force) == {b \in ToSet(buckets) : force \/ Due(b, t)}

\* Faulty: every bucket is emitted, only the due ones are removed.
FlushKeeping(buckets, t, force) ==
  [buckets |-> Those(buckets, ToSet(buckets) \ Leaving(buckets, t, force)),
   emitted |-> buckets]

Flush(buckets, t, force) ==
  [buckets |-> Those(buckets, ToSet(buckets) \ Leaving(buckets, t, force)),
   emitted |-> Those(buckets, Leaving(buckets, t, force))]

-----------------------------------------------------------------------------
(***************************************************************************)
(* The component on its own.  Add is called with the time of the event's   *)
(* processing, which advances from one event to the next; Flush with the   *)
(* time its ticker fired, which may lie before the last Add.               *)
(***************************************************************************)
CONSTANTS
  FlushLag,  \* bound: how far a flush's time trails the clock
  MaxTicks   \* bound: the clock

VARIABLES
  buckets,    \* the EventAggregator object
  time,       \* the clock
  summaries,  \* every summary handed to the caller, in order
  counted     \* per key, the events added

aggregatorVars == <<buckets, time, summaries, counted>>

AggregatorInit ==
  /\ buckets = <<>>
  /\ time = 0
  /\ summaries = <<>>
  /\ counted = [k \in Keys |-> 0]

Observe(k) ==
  /\ time < MaxTicks
  /\ time' = time + 1
  /\ LET added == AddEvent(buckets, k, time')
     IN /\ buckets' = added.buckets
        /\ summaries' = summaries \o added.emitted
  /\ counted' = [counted EXCEPT ![k] = @ + 1]

FlushAt(t, force) ==
  /\ LET flushed == Flush(buckets, t, force)
     IN /\ buckets' = flushed.buckets
        /\ summaries' = summaries \o flushed.emitted
  /\ UNCHANGED <<time, counted>>

Idle ==
  /\ time < MaxTicks
  /\ time' = time + 1
  /\ UNCHANGED <<buckets, summaries, counted>>

AggregatorNext ==
  \/ \E k \in Keys : Observe(k)
  \/ \E d \in 0..FlushLag : FlushAt(time - d, FALSE)
  \/ FlushAt(time, TRUE)
  \/ Idle

AggregatorSpec == AggregatorInit /\ [][AggregatorNext]_aggregatorVars

-----------------------------------------------------------------------------
Counted(list, k) ==
  FoldLeft(LAMBDA n, b : IF b.key = k THEN n + b.count ELSE n, 0, list)

\* Aggregation never loses or repeats an observation: for every key, the counts
\* of the summaries handed out and of the bucket still open add up to the
\* events added (aggregator.go:39-79, over window ends, flushes and evictions).
CountsConserved ==
  \A k \in Keys : counted[k] = Counted(summaries, k) + Counted(buckets, k)

\* A summary's event identity is the hash of key, first and last observation
\* (aggregator.go:104-105).  Two summaries never share one, or the server would
\* drop the second as a duplicate and its count with it.
SummaryIdentitiesDistinct ==
  \A i, j \in DOMAIN summaries :
    /\ summaries[i].key = summaries[j].key
    /\ summaries[i].first = summaries[j].first
    /\ summaries[i].last = summaries[j].last
    => i = j
=============================================================================
