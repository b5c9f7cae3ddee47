---------------------------- MODULE Runner_proofs ----------------------------
(***************************************************************************)
(* Proofs about Runner, for any number of events and keys, any batch and   *)
(* queue size and any number of retries: type correctness, the custody of  *)
(* events (nothing lost, nothing twice), what may be in doubt with the     *)
(* server, and what a clean return of Run means.                           *)
(*                                                                         *)
(* The invariants the runs check are not inductive.  Inv adds what they    *)
(* rest on: the channel, the buckets and the routed items never overlap    *)
(* among themselves (Distinct), and how the control state relates to the   *)
(* rest (Control).                                                         *)
(*                                                                         *)
(* Filled bounds the batches, and Distance is what every step of the       *)
(* shutdown flush lowers.                                                  *)
(***************************************************************************)
EXTENDS Runner, TLAPS, FiniteSetTheorems

Distinct ==
  /\ \A i, j \in DOMAIN events : events[i] = events[j] => i = j
  /\ \A j, k \in Keys : j # k => counted[j] \intersect counted[k] = {}
  /\ \A i, j \in routed : i # j => i.events \intersect j.events = {}

Places == NothingLost /\ NothingTwice /\ Distinct

Control ==
  /\ loop = "select" => routed = {} /\ ~final
  /\ loop = "backoff" => attempt < Retries
  /\ final => reader = "done" /\ events = <<>> /\ Counted = {}
  /\ loop = "nil" => final /\ routed = {} /\ \A p \in Priorities : batches[p] = {}
  /\ reader = "sending" => taken # 0
  /\ abandoned \subseteq {taken}
  /\ abandoned # {} => reader = "done" /\ cancelled

Reported ==
  /\ source = "failed" => reader = "done"
  /\ reader # "done" => readErrors = "" /\ sourceErr = ""
  /\ source = "failed" => readErrors = "failed" \/ sourceErr = "failed"
  /\ sourceErr # "" => readErrors = ""
  /\ final => readErrors = ""
  /\ loop = "nil" => sourceErr # "failed" \/ cancelled

Inv == RunnerTypeOK /\ Places /\ Control /\ Reported /\ OneBatchInDoubt

-----------------------------------------------------------------------------
(***************************************************************************)
(* Type correctness of one step.                                           *)
(***************************************************************************)

\* An item built from events, a priority and the alert flag is an item.
LEMMA ItemType ==
  ASSUME NEW S \in SUBSET Events, NEW p \in Priorities, NEW a \in BOOLEAN
  PROVE  Router!Item(S, p, a) \in Router!Items
BY DEF Router!Item, Router!Items, Priorities

\* The summaries of a set of keys are items.
LEMMA SummaryTypes ==
  ASSUME counted \in [Keys -> SUBSET Events], NEW ks \in SUBSET Keys
  PROVE  Router!Summaries(ks) \subseteq Router!Items
<1> SUFFICES ASSUME NEW k \in ks
             PROVE  Router!Item(counted[k], "normal", FALSE) \in Router!Items
  BY DEF Router!Summaries
<1> QED
  BY ItemType DEF Priorities

\* A call of the router keeps its variables within their types.
LEMMA RouterTypes ==
  ASSUME RouterTyped, NEW e \in Events, Router!Process(e)
  PROVE  RouterTyped'
<1> USE DEF RouterTyped, Router!Hold
<1>1. CASE Router!UploadNow(e)
  <2>1. PICK alert \in BOOLEAN, promoted \in SUBSET context :
          /\ routed' = {Router!Item({c}, "high", FALSE) : c \in promoted}
                         \union {Router!Item({e}, "high", alert)}
          /\ Router!Hold(context \ promoted, {})
          /\ UNCHANGED counted
    BY <1>1 DEF Router!UploadNow
  <2>2. \A c \in promoted : Router!Item({c}, "high", FALSE) \in Router!Items
    BY ItemType DEF Priorities
  <2>3. Router!Item({e}, "high", alert) \in Router!Items
    BY ItemType DEF Priorities
  <2> QED
    BY <2>1, <2>2, <2>3
<1>2. CASE Router!HoldAsContext(e)
  BY <1>2 DEF Router!HoldAsContext
<1>3. ASSUME NEW k \in Keys, Router!CountInto(e, k)
      PROVE  RouterTyped'
  <2>1. \A j \in Keys : Router!Summaries({j}) \subseteq Router!Items
    BY SummaryTypes
  <2> QED
    BY <1>3, <2>1 DEF Router!CountInto
<1>4. CASE Router!KeepOnHost(e)
  BY <1>4 DEF Router!KeepOnHost
<1> QED
  BY <1>1, <1>2, <1>3, <1>4 DEF Router!Process

\* So does its flush.
LEMMA RouterFlushTypes ==
  ASSUME RouterTyped, NEW force \in BOOLEAN, Router!Flush(force)
  PROVE  RouterTyped'
<1>1. PICK due \in SUBSET Keys :
        /\ routed' = Router!Summaries(due)
        /\ counted' = [k \in Keys |-> IF k \in due THEN {} ELSE counted[k]]
        /\ Router!Hold(context, {})
  BY DEF Router!Flush
<1> QED
  BY <1>1, SummaryTypes DEF RouterTyped, Router!Hold

\* The batch being sent holds events.
LEMMA BatchType ==
  ASSUME Uploads, sending \in Priorities
  PROVE  Batch \subseteq Events
BY DEF Uploads, Batch, Carried, Router!Items

\* Each part of the type invariant survives a step on its own.
LEMMA FlagsStep ==
  ASSUME Flags, Next
  PROVE  Flags'
BY DEF Flags, Next, ReaderStep, LoopStep, readerVars, senderVars, routerVars,
   ReadSample, HandOver, GiveUp, ReadFails, Cancel, ReceiveEvent, ReceiveError,
   AggregateTick, BatchTick, CloseSource, BeginShutdown, Enqueue, BackToSelect,
   FlushAll, Return, SendRequest, Succeed, FailRequest, Retry, StopRetrying, TimeOut

\* Run's and the reader's control state and the errors handed over.
LEMMA PhasesStep ==
  ASSUME Phases, RouterTyped, Next
  PROVE  Phases'
<1>1. CASE \E p \in Priorities : BatchTick(p)
  BY <1>1 DEF BatchTick, BeginFlush, Phases, readerVars, senderVars, routerVars
<1>2. CASE Enqueue
  BY <1>2 DEF Enqueue, Phases, RouterTyped, Router!Items, Priorities, readerVars
<1>3. CASE FlushAll
  BY <1>3 DEF FlushAll, BeginFlush, Phases, Priorities, readerVars
<1> QED
  BY <1>1, <1>2, <1>3 DEF Phases, AfterFailure,
   Next, ReaderStep, LoopStep, readerVars, senderVars, routerVars,
   ReadSample, HandOver, GiveUp, ReadFails, Cancel, ReceiveEvent,
   ReceiveError, AggregateTick, CloseSource, BeginShutdown, BackToSelect,
   Return, SendRequest, Succeed, FailRequest, Retry, StopRetrying, TimeOut

\* The events read and the attempts of a send never pass their bounds.
LEMMA CountersStep ==
  ASSUME Counters, Control, Next
  PROVE  Counters'
<1> USE RunnerAssumption DEF Counters, readerVars, senderVars
<1>1. CASE ReadSample
  BY <1>1 DEF ReadSample
<1>2. CASE Retry
  BY <1>2 DEF Retry, Control
<1>3. ASSUME UNCHANGED taken, attempt' = attempt \/ attempt' = 0
      PROVE  Counters'
  BY <1>3
<1> QED
  BY <1>1, <1>2, <1>3 DEF BeginFlush, 
   Next, ReaderStep, LoopStep, HandOver, GiveUp, ReadFails, Cancel,
   ReceiveEvent, ReceiveError, AggregateTick, BatchTick, CloseSource,
   BeginShutdown, Enqueue, BackToSelect, FlushAll, Return, SendRequest,
   Succeed, FailRequest, StopRetrying, TimeOut

\* The channel takes an event only while it has room.
LEMMA ChannelStep ==
  ASSUME Channel, Counters, Control, Next
  PROVE  Channel'
<1> USE RunnerAssumption DEF Channel
<1>1. CASE HandOver
  <2>1. taken \in Events /\ Len(events) < QueueSize
    BY <1>1 DEF HandOver, Control, Counters, Events
  <2> QED
    BY <1>1, <2>1 DEF HandOver
<1>2. CASE ReceiveEvent
  BY <1>2 DEF ReceiveEvent
<1> QED
  BY <1>1, <1>2 DEF
   Next, ReaderStep, LoopStep, readerVars, senderVars, routerVars,
   ReadSample, GiveUp, ReadFails, Cancel, ReceiveError, AggregateTick,
   BatchTick, CloseSource, BeginShutdown, Enqueue, BackToSelect, FlushAll,
   Return, SendRequest, Succeed, FailRequest, Retry, StopRetrying, TimeOut

\* Only the three calls of the router and enqueue touch its variables.
LEMMA RouterTypedStep ==
  ASSUME RouterTyped, Channel, Next
  PROVE  RouterTyped'
<1>1. CASE ReceiveEvent
  <2>1. Head(events) \in Events
    BY <1>1 DEF ReceiveEvent, Channel
  <2> QED
    BY <1>1, <2>1, RouterTypes DEF ReceiveEvent
<1>2. CASE AggregateTick
  BY <1>2, RouterFlushTypes DEF AggregateTick
<1>3. CASE BeginShutdown
  BY <1>3, RouterFlushTypes DEF BeginShutdown
<1> QED
  BY <1>1, <1>2, <1>3 DEF RouterTyped,
   Next, ReaderStep, LoopStep, readerVars, senderVars, routerVars,
   ReadSample, HandOver, GiveUp, ReadFails, Cancel, ReceiveError, BatchTick,
   CloseSource, Enqueue, BackToSelect, FlushAll, Return, SendRequest,
   Succeed, FailRequest, Retry, StopRetrying, TimeOut

\* Batches hold items, and what is uploaded or given up was read.
LEMMA UploadsStep ==
  ASSUME Uploads, Phases, Counters, RouterTyped, Control, Next
  PROVE  Uploads'
<1>1. CASE GiveUp
  <2>1. taken \in Events
    BY <1>1, RunnerAssumption DEF GiveUp, Control, Counters, Events
  <2> QED
    BY <1>1, <2>1 DEF GiveUp, Uploads, senderVars
<1>2. CASE Enqueue
  <2>1. PICK i \in routed :
          batches' = [batches EXCEPT ![i.priority] = batches[i.priority] \union {i}]
    BY <1>2 DEF Enqueue
  <2>2. i \in Router!Items /\ i.priority \in Priorities
    BY DEF RouterTyped, Router!Items, Priorities
  <2> QED
    BY <1>2, <2>1, <2>2 DEF Enqueue, Uploads, readerVars
<1>3. CASE Succeed
  <2>1. Batch \subseteq Events
    BY BatchType DEF Phases
  <2> QED
    BY <1>3, <2>1 DEF Succeed, Uploads, readerVars
<1>4. CASE FailRequest
  <2>1. Batch \subseteq Events
    BY BatchType DEF Phases
  <2> QED
    BY <1>4, <2>1 DEF FailRequest, Uploads, readerVars
<1> QED
  BY <1>1, <1>2, <1>3, <1>4 DEF Uploads, BeginFlush,
   Next, ReaderStep, LoopStep, readerVars, senderVars, routerVars,
   ReadSample, HandOver, ReadFails, Cancel, ReceiveEvent, ReceiveError,
   AggregateTick, BatchTick, CloseSource, BeginShutdown, BackToSelect,
   FlushAll, Return, SendRequest, Retry, StopRetrying, TimeOut

\* The parts make the type invariant.
LEMMA TypeStep ==
  ASSUME RunnerTypeOK, Control, Next
  PROVE  RunnerTypeOK'
BY FlagsStep, PhasesStep, CountersStep, ChannelStep, RouterTypedStep, UploadsStep
DEF RunnerTypeOK

-----------------------------------------------------------------------------
(***************************************************************************)
(* Custody inside the router: what a call hands out, holds, counts and     *)
(* keeps is what it had and what it was given, each event in one place.    *)
(***************************************************************************)
RouterApart ==
  /\ context \intersect (Counted \union kept \union Carried(routed)) = {}
  /\ Counted \intersect (kept \union Carried(routed)) = {}
  /\ kept \intersect Carried(routed) = {}
  /\ \A j, k \in Keys : j # k => counted[j] \intersect counted[k] = {}
  /\ \A i, j \in routed : i # j => i.events \intersect j.events = {}

RouterOwned == context \union Counted \union kept \union Carried(routed)

\* The summaries of disjoint buckets carry exactly what the buckets counted, and
\* no two of them the same event.
LEMMA SummariesCarry ==
  ASSUME NEW ks \in SUBSET Keys
  PROVE  /\ Carried(Router!Summaries(ks)) = UNION {counted[k] : k \in ks}
         /\ (\A j, k \in Keys : j # k => counted[j] \intersect counted[k] = {})
              => \A i, j \in Router!Summaries(ks) : i # j => i.events \intersect j.events = {}
<1>1. \A k \in ks : Router!Item(counted[k], "normal", FALSE).events = counted[k]
  BY DEF Router!Item
<1>2. ASSUME NEW x \in Carried(Router!Summaries(ks))
      PROVE  x \in UNION {counted[k] : k \in ks}
  BY <1>1, <1>2 DEF Carried, Router!Summaries
<1>3. ASSUME NEW k \in ks, NEW x \in counted[k]
      PROVE  x \in Carried(Router!Summaries(ks))
  <2>1. Router!Item(counted[k], "normal", FALSE) \in Router!Summaries(ks)
    BY <1>3 DEF Router!Summaries
  <2> QED
    BY <1>1, <1>3, <2>1 DEF Carried
<1>4. ASSUME \A j, k \in Keys : j # k => counted[j] \intersect counted[k] = {},
             NEW i \in Router!Summaries(ks), NEW j \in Router!Summaries(ks), i # j
      PROVE  i.events \intersect j.events = {}
  BY <1>1, <1>4 DEF Router!Summaries
<1> QED
  BY <1>2, <1>3, <1>4

Singles(P, e, alert) ==
  {Router!Item({c}, "high", FALSE) : c \in P} \union {Router!Item({e}, "high", alert)}

\* An uploaded event and the context promoted with it are items of one event
\* each.
LEMMA SinglesCarry ==
  ASSUME NEW P, NEW e, NEW alert, e \notin P
  PROVE  /\ Carried(Singles(P, e, alert)) = P \union {e}
         /\ \A i, j \in Singles(P, e, alert) : i # j => i.events \intersect j.events = {}
<1> DEFINE R == Singles(P, e, alert)
<1> DEFINE item(c) == IF c = e THEN Router!Item({e}, "high", alert)
                               ELSE Router!Item({c}, "high", FALSE)
<1>1. \A c : item(c).events = {c}
  BY DEF Router!Item
<1>2. R = {item(c) : c \in P \union {e}}
  BY DEF Singles
<1> HIDE DEF item, R
<1>3. Carried(R) = UNION {i.events : i \in R}
  BY DEF Carried
<1>4. ASSUME NEW x \in Carried(R) PROVE x \in P \union {e}
  <2>1. PICK i \in R : x \in i.events
    BY <1>3, <1>4
  <2>2. PICK c \in P \union {e} : i = item(c)
    BY <1>2
  <2> QED
    BY <1>1, <2>1, <2>2
<1>5. ASSUME NEW x \in P \union {e} PROVE x \in Carried(R)
  <2>1. item(x) \in R /\ x \in item(x).events
    BY <1>1, <1>2
  <2> QED
    BY <2>1, <1>3
<1>6. ASSUME NEW i \in R, NEW j \in R, i # j PROVE i.events \intersect j.events = {}
  <2>1. PICK c \in P \union {e} : i = item(c)
    BY <1>2
  <2>2. PICK d \in P \union {e} : j = item(d)
    BY <1>2
  <2>3. c # d
    BY <1>6, <2>1, <2>2
  <2> QED
    BY <1>1, <2>1, <2>2, <2>3
<1> QED
  BY <1>4, <1>5, <1>6 DEF R

\* Process takes one event into the router's custody, in one place, and lets
\* none go.
LEMMA ProcessCustody ==
  ASSUME RouterTyped, RouterApart, routed = {}, NEW e \in Events, e \notin RouterOwned,
         Router!Process(e)
  PROVE  RouterApart' /\ RouterOwned' = RouterOwned \union {e}
<1>0. Carried(routed) = {}
  BY DEF Carried
<1>1. CASE Router!UploadNow(e)
  <2>1. PICK alert \in BOOLEAN, promoted \in SUBSET context :
          /\ routed' = Singles(promoted, e, alert)
          /\ Router!Hold(context \ promoted, {})
          /\ UNCHANGED counted
    BY <1>1 DEF Router!UploadNow, Singles
  <2>2. e \notin promoted
    BY DEF RouterOwned
  <2> DEFINE R == Singles(promoted, e, alert)
  <2>3. /\ Carried(R) = promoted \union {e}
        /\ \A i \in R : \A j \in R : i # j => i.events \intersect j.events = {}
    BY <2>2, SinglesCarry
  <2>4. Carried(routed)' = promoted \union {e}
    BY <2>1, <2>3 DEF Carried
  <2>5. Counted' = Counted
    BY <2>1 DEF Counted
  <2>6. (\A i, j \in routed : i # j => i.events \intersect j.events = {})'
    BY <2>1, <2>3
  <2>7. (\A j, k \in Keys : j # k => counted[j] \intersect counted[k] = {})'
    BY <2>1 DEF RouterApart
  <2>8. /\ context' \subseteq context \ promoted
        /\ context' \union kept' = (context \ promoted) \union kept
        /\ context' \intersect kept' = {}
    BY <2>1 DEF Router!Hold, RouterApart
  <2> HIDE DEF R
  <2>9. RouterOwned' = RouterOwned \union {e}
    BY <1>0, <2>4, <2>5, <2>8 DEF RouterOwned
  <2> QED
    BY <1>0, <2>2, <2>4, <2>5, <2>6, <2>7, <2>8, <2>9 DEF RouterApart, RouterOwned
<1>2. CASE Router!HoldAsContext(e)
  <2>1. Counted' = Counted /\ Carried(routed)' = {}
    BY <1>2 DEF Router!HoldAsContext, Counted, Carried
  <2> QED
    BY <1>0, <1>2, <2>1 DEF Router!HoldAsContext, RouterApart, RouterOwned, Router!Hold
<1>3. CASE Router!KeepOnHost(e)
  <2>1. Counted' = Counted /\ Carried(routed)' = {}
    BY <1>3 DEF Router!KeepOnHost, Counted, Carried
  <2> QED
    BY <1>0, <1>3, <2>1 DEF Router!KeepOnHost, RouterApart, RouterOwned, Router!Hold
<1>4. ASSUME NEW k \in Keys, Router!CountInto(e, k)
      PROVE  RouterApart' /\ RouterOwned' = RouterOwned \union {e}
  <2>1. Router!Hold(context, {})
    BY <1>4 DEF Router!CountInto
  <2>2. CASE routed' = {} /\ counted' = [counted EXCEPT ![k] = @ \union {e}]
    <3>1. Carried(routed)' = {}
      BY <2>2 DEF Carried
    <3>2. /\ Counted' = Counted \union {e}
          /\ \A i, j \in Keys : i # j => counted'[i] \intersect counted'[j] = {}
      BY <2>2 DEF Counted, RouterTyped, RouterApart, RouterOwned
    <3> QED
      BY <1>0, <2>1, <2>2, <3>1, <3>2 DEF RouterApart, RouterOwned, Router!Hold
  <2>3. ASSUME NEW l \in Keys,
               l = k \/ counted[k] = {},
               routed' = Router!Summaries({l}),
               counted' = [counted EXCEPT ![l] = {}, ![k] = {e}]
        PROVE  RouterApart' /\ RouterOwned' = RouterOwned \union {e}
    <3>1. /\ Carried(routed') = UNION {counted[i] : i \in {l}}
          /\ \A i, j \in routed' : i # j => i.events \intersect j.events = {}
      BY <2>3, SummariesCarry DEF RouterApart
    <3>2. Carried(routed)' = counted[l]
      BY <3>1 DEF Carried
    <3>3. \A j \in Keys : counted'[j] = IF j = k THEN {e} ELSE IF j = l THEN {} ELSE counted[j]
      BY <2>3 DEF RouterTyped
    <3>8. \A j \in Keys : e \notin counted[j]
      BY DEF Counted, RouterOwned
    <3>4. \A i, j \in Keys : i # j => counted'[i] \intersect counted'[j] = {}
      BY <3>3, <3>8 DEF RouterApart
    <3>6. ASSUME NEW x PROVE x \in Counted' <=> x \in (Counted \ counted[l]) \union {e}
      <4>1. CASE x = e
        BY <3>3, <4>1 DEF Counted
      <4>2. CASE x # e
        <5>1. x \in Counted' <=> \E j \in Keys : j # k /\ j # l /\ x \in counted[j]
          BY <3>3, <4>2 DEF Counted
        <5>2. x \in Counted \ counted[l] <=> \E j \in Keys : j # l /\ x \in counted[j]
          BY DEF Counted, RouterApart
        <5>3. k = l \/ counted[k] = {}
          BY <2>3
        <5> QED
          BY <4>2, <5>1, <5>2, <5>3
      <4> QED
        BY <4>1, <4>2
    <3>7. Counted' = (Counted \ counted[l]) \union {e}
      BY <3>6
    <3>5. counted[l] \subseteq Counted
      BY DEF Counted
    <3> QED
      BY <1>0, <2>1, <3>1, <3>2, <3>4, <3>5, <3>7 DEF RouterApart, RouterOwned, Router!Hold
  <2> QED
    BY <1>4, <2>2, <2>3 DEF Router!CountInto
<1> QED
  BY <1>1, <1>2, <1>3, <1>4 DEF Router!Process

\* Flush moves events within the router's custody; forced, it leaves no bucket.
LEMMA FlushCustody ==
  ASSUME RouterTyped, RouterApart, routed = {}, NEW force \in BOOLEAN, Router!Flush(force)
  PROVE  /\ RouterApart' /\ RouterOwned' = RouterOwned
         /\ force => Counted' = {}
<1>0. Carried(routed) = {}
  BY DEF Carried
<1>1. PICK due \in SUBSET Keys :
        /\ force => due = Keys
        /\ routed' = Router!Summaries(due)
        /\ counted' = [k \in Keys |-> IF k \in due THEN {} ELSE counted[k]]
        /\ Router!Hold(context, {})
  BY DEF Router!Flush
<1>2. /\ Carried(routed') = UNION {counted[k] : k \in due}
      /\ \A i, j \in routed' : i # j => i.events \intersect j.events = {}
  BY <1>1, SummariesCarry DEF RouterApart
<1>3. Carried(routed)' = UNION {counted[k] : k \in due}
  BY <1>2 DEF Carried
<1>4. /\ Counted' = Counted \ Carried(routed)'
      /\ Carried(routed)' \subseteq Counted
      /\ \A i, j \in Keys : i # j => counted'[i] \intersect counted'[j] = {}
  BY <1>1, <1>3 DEF Counted, RouterApart
<1>5. force => Counted' = {}
  BY <1>1 DEF Counted
<1> QED
  BY <1>0, <1>1, <1>2, <1>4, <1>5 DEF RouterApart, RouterOwned, Router!Hold

-----------------------------------------------------------------------------
(***************************************************************************)
(* Custody over a whole step.  The router's places are taken together as   *)
(* RouterOwned, whose inside the lemmas above describe.                    *)
(***************************************************************************)
Elements(q) == {q[i] : i \in DOMAIN q}

NoRepetition(q) == \A i, j \in DOMAIN q : q[i] = q[j] => i = j

Partition ==
  /\ 1..taken = InHand \union Queued \union RouterOwned \union Batched \union submitted
                  \union abandoned
  /\ InHand \intersect (Queued \union RouterOwned \union Batched \union submitted
                        \union abandoned) = {}
  /\ Queued \intersect (RouterOwned \union Batched \union submitted \union abandoned) = {}
  /\ RouterOwned \intersect (Batched \union submitted \union abandoned) = {}
  /\ Batched \intersect (submitted \union abandoned) = {}
  /\ submitted \intersect abandoned = {}

BatchesApart == Carried(batches["high"]) \intersect Carried(batches["normal"]) = {}

\* Custody splits into the router's, the places outside it, the two batches
\* and the channel.
LEMMA PlacesParts ==
  Places <=> RouterApart /\ Partition /\ BatchesApart /\ NoRepetition(events)
BY DEF Places, NothingLost, NothingTwice, Distinct, RouterApart, RouterOwned, Partition,
       BatchesApart, NoRepetition

\* The same of the next state.
LEMMA PlacesPartsNext ==
  Places' <=> RouterApart' /\ Partition' /\ BatchesApart' /\ NoRepetition(events')
BY DEF Places, NothingLost, NothingTwice, Distinct, RouterApart, RouterOwned, Partition,
       BatchesApart, NoRepetition

\* Receiving from a channel without repetitions takes out its head only.
LEMMA TailElements ==
  ASSUME NEW q \in Seq(Events), q # <<>>, NoRepetition(q)
  PROVE  /\ Head(q) \in Elements(q)
         /\ Elements(Tail(q)) = Elements(q) \ {Head(q)}
         /\ NoRepetition(Tail(q))
<1>1. /\ Len(q) \in Nat \ {0} /\ DOMAIN q = 1..Len(q) /\ Head(q) = q[1]
      /\ DOMAIN Tail(q) = 1..(Len(q) - 1)
      /\ \A i \in 1..(Len(q) - 1) : Tail(q)[i] = q[i + 1]
  OBVIOUS
<1>2. Head(q) \in Elements(q)
  BY <1>1 DEF Elements
<1>3. ASSUME NEW x \in Elements(Tail(q)) PROVE x \in Elements(q) \ {Head(q)}
  BY <1>1, <1>3 DEF Elements, NoRepetition
<1>4. ASSUME NEW x \in Elements(q) \ {Head(q)} PROVE x \in Elements(Tail(q))
  <2>1. PICK i \in 1..Len(q) : x = q[i]
    BY <1>1, <1>4 DEF Elements
  <2>2. i - 1 \in 1..(Len(q) - 1) /\ Tail(q)[i - 1] = x
    BY <1>1, <1>4, <2>1
  <2> QED
    BY <1>1, <2>2 DEF Elements
<1>5. NoRepetition(Tail(q))
  BY <1>1 DEF NoRepetition
<1> QED
  BY <1>2, <1>3, <1>4, <1>5

\* Sending an event the channel does not hold adds it and repeats none.
LEMMA AppendElements ==
  ASSUME NEW q \in Seq(Events), NEW e \in Events, e \notin Elements(q), NoRepetition(q)
  PROVE  /\ Elements(Append(q, e)) = Elements(q) \union {e}
         /\ NoRepetition(Append(q, e))
<1>1. /\ Len(q) \in Nat /\ DOMAIN q = 1..Len(q)
      /\ DOMAIN Append(q, e) = 1..(Len(q) + 1)
      /\ \A i \in 1..Len(q) : Append(q, e)[i] = q[i]
      /\ Append(q, e)[Len(q) + 1] = e
  OBVIOUS
<1>2. \A i \in 1..(Len(q) + 1) : i \in 1..Len(q) \/ i = Len(q) + 1
  BY <1>1
<1> QED
  BY <1>1, <1>2 DEF Elements, NoRepetition

\* A step that moves no event keeps custody.
LEMMA QuietPlaces ==
  ASSUME Places, InHand' = InHand,
         UNCHANGED <<taken, events, routerVars, batches, submitted, abandoned>>
  PROVE  Places'
BY DEF Places, NothingLost, NothingTwice, Distinct, routerVars, Queued, Counted, Batched,
       Carried

\* Every step moves events from one place to one other place.
LEMMA PlacesStep ==
  ASSUME RunnerTypeOK, Control, Places, Next
  PROVE  Places'
<1>0. RouterApart /\ Partition /\ BatchesApart /\ NoRepetition(events)
  BY PlacesParts
<1>t. /\ taken \in Nat /\ events \in Seq(Events) /\ RouterTyped /\ Uploads
      /\ sending \in Priorities
      /\ Queued = Elements(events)
  <2>1. taken \in Nat
    BY RunnerAssumption DEF RunnerTypeOK, Counters
  <2> QED
    BY <2>1 DEF RunnerTypeOK, Channel, Phases, Queued, Elements
<1>q. ASSUME UNCHANGED <<routerVars>>
      PROVE  RouterApart' /\ RouterOwned' = RouterOwned
  BY <1>0, <1>q DEF routerVars, RouterApart, RouterOwned, Counted, Carried
<1>1. CASE ReadSample
  <2>1. UNCHANGED <<routerVars, events, batches, submitted, abandoned>>
    BY <1>1 DEF ReadSample, senderVars
  <2>2. Queued' = Queued /\ Batched' = Batched /\ BatchesApart'
    BY <1>0, <2>1 DEF Queued, Batched, Carried, BatchesApart
  <2>3. InHand = {} /\ InHand' = {taken + 1} /\ taken' = taken + 1
    BY <1>1 DEF ReadSample, InHand
  <2>4. Partition'
    <3>1. 1..taken' = (1..taken) \union {taken + 1} /\ taken + 1 \notin 1..taken
      BY <1>t, <2>3
    <3> QED
      BY <1>0, <1>q, <2>1, <2>2, <2>3, <3>1 DEF Partition
  <2> QED
    BY <1>0, <1>q, <2>1, <2>2, <2>4, PlacesPartsNext
<1>2. CASE HandOver
  <2>1. UNCHANGED <<taken, routerVars, batches, submitted, abandoned>>
    BY <1>2 DEF HandOver, senderVars
  <2>2. InHand = {taken} /\ InHand' = {} /\ events' = Append(events, taken)
    BY <1>2 DEF HandOver, InHand
  <2>3. taken \in Events /\ taken \notin Queued
    BY <1>0, <1>2, <1>t, <2>2 DEF HandOver, Control, Partition, RunnerTypeOK, Counters, Events
  <2>4. Queued' = Queued \union {taken} /\ NoRepetition(events')
    BY <1>0, <1>t, <2>2, <2>3, AppendElements DEF Queued, Elements
  <2>5. Batched' = Batched /\ BatchesApart'
    BY <1>0, <2>1 DEF Batched, Carried, BatchesApart
  <2>6. Partition'
    BY <1>0, <1>q, <2>1, <2>2, <2>4, <2>5 DEF Partition
  <2> QED
    BY <1>q, <2>1, <2>4, <2>5, <2>6, PlacesPartsNext
<1>3. CASE GiveUp
  <2>1. UNCHANGED <<taken, routerVars, events, batches, submitted>>
    BY <1>3 DEF GiveUp, senderVars
  <2>2. InHand = {taken} /\ InHand' = {} /\ abandoned' = abandoned \union {taken}
    BY <1>3 DEF GiveUp, InHand
  <2>3. Queued' = Queued /\ Batched' = Batched /\ BatchesApart'
    BY <1>0, <2>1 DEF Queued, Batched, Carried, BatchesApart
  <2>4. Partition'
    BY <1>0, <1>q, <2>1, <2>2, <2>3 DEF Partition
  <2> QED
    BY <1>0, <1>q, <2>1, <2>3, <2>4, PlacesPartsNext
<1>4. CASE ReceiveEvent
  <2>1. /\ UNCHANGED <<reader, taken, batches, submitted, abandoned>>
        /\ events # <<>> /\ events' = Tail(events)
        /\ Router!Process(Head(events))
        /\ routed = {}
    BY <1>4 DEF ReceiveEvent, readerVars, senderVars, Control
  <2>2. /\ Head(events) \in Queued /\ Queued' = Queued \ {Head(events)}
        /\ NoRepetition(events')
    BY <1>0, <1>t, <2>1, TailElements DEF Queued, Elements
  <2>3. Head(events) \in Events /\ Head(events) \notin RouterOwned
    BY <1>0, <1>t, <2>1, <2>2 DEF Partition
  <2>4. RouterApart' /\ RouterOwned' = RouterOwned \union {Head(events)}
    BY <1>0, <1>t, <2>1, <2>3, ProcessCustody
  <2>5. InHand' = InHand /\ Batched' = Batched /\ BatchesApart'
    BY <1>0, <2>1 DEF InHand, Batched, Carried, BatchesApart
  <2>6. Partition'
    BY <1>0, <2>1, <2>2, <2>4, <2>5 DEF Partition
  <2> QED
    BY <2>2, <2>4, <2>5, <2>6, PlacesPartsNext
<1>5. CASE AggregateTick \/ BeginShutdown
  <2>1. /\ UNCHANGED <<taken, events, batches, submitted, abandoned>>
        /\ InHand' = InHand
        /\ Router!Flush(TRUE) \/ Router!Flush(FALSE)
        /\ routed = {}
    BY <1>5 DEF AggregateTick, BeginShutdown, readerVars, senderVars, Control, InHand
  <2>2. RouterApart' /\ RouterOwned' = RouterOwned
    BY <1>0, <1>t, <2>1, FlushCustody
  <2>3. Queued' = Queued /\ Batched' = Batched /\ BatchesApart'
    BY <1>0, <2>1 DEF Queued, Batched, Carried, BatchesApart
  <2>4. Partition'
    BY <1>0, <2>1, <2>2, <2>3 DEF Partition
  <2> QED
    BY <1>0, <2>1, <2>2, <2>3, <2>4, PlacesPartsNext
<1>6. CASE Enqueue
  <2>1. PICK i \in routed :
          /\ routed' = routed \ {i}
          /\ batches' = [batches EXCEPT ![i.priority] = batches[i.priority] \union {i}]
    BY <1>6 DEF Enqueue
  <2>2. /\ UNCHANGED <<taken, events, context, counted, kept, submitted, abandoned>>
        /\ InHand' = InHand /\ Queued' = Queued /\ Counted' = Counted
    BY <1>6 DEF Enqueue, readerVars, InHand, Queued, Counted
  <2>3. Carried(routed)' = Carried(routed) \ i.events /\ i.events \subseteq Carried(routed)
    BY <1>0, <2>1 DEF Carried, RouterApart
  <2>4. RouterApart' /\ RouterOwned' = RouterOwned \ i.events /\ i.events \subseteq RouterOwned
    BY <1>0, <2>1, <2>2, <2>3 DEF RouterApart, RouterOwned
  <2>5. i.priority \in Priorities /\ batches \in [Priorities -> SUBSET Router!Items]
    BY <1>t DEF RouterTyped, Uploads, Router!Items, Priorities
  <2>6. \A p \in Priorities :
          Carried(batches[p])' = IF p = i.priority THEN Carried(batches[p]) \union i.events
                                                   ELSE Carried(batches[p])
    BY <2>1, <2>5 DEF Carried
  <2>7. Batched = Carried(batches["high"]) \union Carried(batches["normal"])
    BY DEF Batched, Carried
  <2>8. Batched' = Carried(batches["high"])' \union Carried(batches["normal"])'
    BY DEF Batched, Carried
  <2>9. Batched' = Batched \union i.events /\ BatchesApart'
    BY <1>0, <2>4, <2>5, <2>6, <2>7, <2>8 DEF BatchesApart, Priorities, Partition
  <2>10. Partition'
    BY <1>0, <2>2, <2>4, <2>9 DEF Partition
  <2> QED
    BY <1>0, <2>2, <2>4, <2>9, <2>10, PlacesPartsNext
<1>7. CASE Succeed
  <2>1. /\ UNCHANGED <<taken, events, routerVars, abandoned>>
        /\ InHand' = InHand /\ Queued' = Queued
        /\ submitted' = submitted \union Batch
        /\ batches' = [batches EXCEPT ![sending] = {}]
    BY <1>7 DEF Succeed, readerVars, InHand, Queued
  <2>2. \A p \in Priorities :
          Carried(batches[p])' = IF p = sending THEN {} ELSE Carried(batches[p])
    BY <1>t, <2>1 DEF Carried, Uploads
  <2>3. Batched = Carried(batches["high"]) \union Carried(batches["normal"])
    BY DEF Batched, Carried
  <2>4. Batched' = Carried(batches["high"])' \union Carried(batches["normal"])'
    BY DEF Batched, Carried
  <2>5. /\ Batched' = Batched \ Batch /\ Batch \subseteq Batched /\ BatchesApart'
    BY <1>0, <1>t, <2>2, <2>3, <2>4 DEF BatchesApart, Batch, Priorities
  <2>6. Partition'
    BY <1>0, <1>q, <2>1, <2>5 DEF Partition
  <2> QED
    BY <1>0, <1>q, <2>1, <2>5, <2>6, PlacesPartsNext
<1> QED
  BY <1>1, <1>2, <1>3, <1>4, <1>5, <1>6, <1>7, QuietPlaces DEF InHand, BeginFlush,
   Next, ReaderStep, LoopStep, readerVars, senderVars, ReadFails, Cancel,
   ReceiveError, BatchTick, CloseSource, BackToSelect, FlushAll, Return,
   SendRequest, FailRequest, Retry, StopRetrying, TimeOut

-----------------------------------------------------------------------------
(***************************************************************************)
(* The control state, the report of a failed source, and what is in doubt. *)
(***************************************************************************)
\* What the control state says of the channel, the router and the batches.
LEMMA ControlStep ==
  ASSUME RunnerTypeOK, Places, Control, Next
  PROVE  Control'
<1>0. /\ taken \in Nat /\ attempt \in 0..Retries /\ Retries \in Nat
  BY RunnerAssumption DEF RunnerTypeOK, Counters
<1>t. RouterTyped /\ RouterApart
  BY PlacesParts DEF RunnerTypeOK
<1>c. ASSUME UNCHANGED counted PROVE Counted' = Counted
  BY <1>c DEF Counted
<1> USE DEF Control, readerVars, senderVars, routerVars
<1>1. CASE ReadSample
  BY <1>0, <1>c, <1>1 DEF ReadSample
<1>2. CASE HandOver
  BY <1>0, <1>c, <1>2 DEF HandOver
<1>3. CASE GiveUp
  BY <1>0, <1>c, <1>3 DEF GiveUp
<1>4. CASE ReadFails
  BY <1>0, <1>c, <1>4 DEF ReadFails
<1>5. CASE Cancel
  BY <1>0, <1>c, <1>5 DEF Cancel
<1>6. CASE ReceiveError
  BY <1>0, <1>c, <1>6 DEF ReceiveError
<1>7. CASE CloseSource
  BY <1>0, <1>c, <1>7 DEF CloseSource
<1>8. CASE BackToSelect
  BY <1>0, <1>c, <1>8 DEF BackToSelect
<1>9. CASE Return
  BY <1>0, <1>c, <1>9 DEF Return
<1>10. CASE SendRequest
  BY <1>0, <1>c, <1>10 DEF SendRequest, AfterFailure
<1>11. CASE FailRequest
  BY <1>0, <1>c, <1>11 DEF FailRequest, AfterFailure
<1>12. CASE Retry
  BY <1>0, <1>c, <1>12 DEF Retry
<1>13. CASE StopRetrying
  BY <1>0, <1>c, <1>13 DEF StopRetrying
<1>14. CASE TimeOut
  BY <1>0, <1>c, <1>14 DEF TimeOut
<1>15. CASE ReceiveEvent \/ AggregateTick
  <2>1. /\ ~final /\ loop' = "enqueue"
        /\ UNCHANGED <<reader, taken, abandoned, cancelled, final>>
    BY <1>15 DEF ReceiveEvent, AggregateTick
  <2> QED
    BY <2>1
<1>16. ASSUME NEW p \in Priorities, BatchTick(p)
      PROVE  Control'
  BY <1>0, <1>c, <1>16 DEF BatchTick, BeginFlush
<1>17. CASE BeginShutdown
  <2>1. Counted' = {}
    BY <1>t, <1>17, FlushCustody DEF BeginShutdown
  <2> QED
    BY <1>0, <1>17, <2>1 DEF BeginShutdown
<1>18. CASE Enqueue
  BY <1>0, <1>c, <1>18 DEF Enqueue
<1>19. CASE FlushAll
  BY <1>0, <1>c, <1>19 DEF FlushAll, BeginFlush
<1>20. CASE Succeed
  BY <1>0, <1>c, <1>20 DEF Succeed
<1> QED
  BY <1>1, <1>2, <1>3, <1>4, <1>5, <1>6, <1>7, <1>8, <1>9, <1>10, <1>11, <1>12, <1>13,
   <1>14, <1>15, <1>16, <1>17, <1>18, <1>19, <1>20
  DEF Next, ReaderStep, LoopStep

\* A failure of the source stays in one of the error places until it is reported.
LEMMA ReportedStep ==
  ASSUME RunnerTypeOK, Control, Reported, Next
  PROVE  Reported'
<1>0. /\ source \in {"open", "closed", "failed", "eof"}
      /\ readErrors \in {"", "closed", "failed", "eof"}
  BY DEF RunnerTypeOK, Phases
<1> USE <1>0 DEF Reported, readerVars, senderVars, routerVars
<1>1. CASE ReadSample
  BY <1>1 DEF ReadSample
<1>2. CASE HandOver
  BY <1>2 DEF HandOver
<1>3. CASE GiveUp
  BY <1>3 DEF GiveUp
<1>4. CASE ReadFails
  BY <1>4 DEF ReadFails, Control
<1>5. CASE Cancel
  BY <1>5 DEF Cancel
<1>6. CASE ReceiveError
  BY <1>6 DEF ReceiveError, Control
<1>7. CASE CloseSource
  BY <1>7 DEF CloseSource, Control
<1>8. CASE BackToSelect
  BY <1>8 DEF BackToSelect
<1>9. CASE Return
  BY <1>9 DEF Return, Control
<1>10. CASE SendRequest
  BY <1>10 DEF SendRequest, AfterFailure
<1>11. CASE FailRequest
  BY <1>11 DEF FailRequest, AfterFailure
<1>12. CASE Retry
  BY <1>12 DEF Retry
<1>13. CASE StopRetrying
  BY <1>13 DEF StopRetrying
<1>14. CASE TimeOut
  BY <1>14 DEF TimeOut
<1>15. CASE ReceiveEvent
  BY <1>15 DEF ReceiveEvent
<1>16. CASE AggregateTick
  BY <1>16 DEF AggregateTick
<1>17. CASE BeginShutdown
  BY <1>17 DEF BeginShutdown, Control
<1>18. CASE Enqueue
  BY <1>18 DEF Enqueue
<1>19. CASE FlushAll
  BY <1>19 DEF FlushAll, BeginFlush
<1>20. CASE Succeed
  BY <1>20 DEF Succeed
<1>21. ASSUME NEW p \in Priorities, BatchTick(p)
      PROVE  Reported'
  BY <1>21 DEF BatchTick, BeginFlush
<1> QED
  BY <1>1, <1>2, <1>3, <1>4, <1>5, <1>6, <1>7, <1>8, <1>9, <1>10, <1>11, <1>12, <1>13,
   <1>14, <1>15, <1>16, <1>17, <1>18, <1>19, <1>20, <1>21
  DEF Next, ReaderStep, LoopStep

\* Only a send under way puts events in doubt, and only those of its batch.
LEMMA DoubtStep ==
  ASSUME RunnerTypeOK, OneBatchInDoubt, Next
  PROVE  OneBatchInDoubt'
<1>t. Uploads /\ sending \in Priorities
  BY DEF RunnerTypeOK, Phases
<1>q. ASSUME UNCHANGED <<batches, sending>> PROVE Batch' = Batch
  BY <1>q DEF Batch, Carried
<1> USE DEF OneBatchInDoubt, readerVars, senderVars, routerVars
<1>1. CASE UNCHANGED <<batches, sending, loop, submitted, delivered>>
  BY <1>1, <1>q
<1>2. CASE ReceiveEvent \/ AggregateTick \/ BeginShutdown \/ BackToSelect \/ Return
  BY <1>2 DEF ReceiveEvent, AggregateTick, BeginShutdown, BackToSelect, Return
<1>3. ASSUME NEW p \in Priorities, BatchTick(p)
      PROVE  OneBatchInDoubt'
  BY <1>3 DEF BatchTick, BeginFlush
<1>4. CASE Enqueue
  BY <1>4 DEF Enqueue
<1>5. CASE FlushAll
  BY <1>5 DEF FlushAll, BeginFlush
<1>6. CASE SendRequest
  BY <1>6, <1>q DEF SendRequest, AfterFailure
<1>7. CASE Succeed
  BY <1>7 DEF Succeed
<1>8. CASE FailRequest
  BY <1>8, <1>q DEF FailRequest, AfterFailure
<1>9. CASE Retry \/ StopRetrying
  BY <1>9, <1>q DEF Retry, StopRetrying
<1> QED
  BY <1>1, <1>2, <1>3, <1>4, <1>5, <1>6, <1>7, <1>8, <1>9
  DEF Next, ReaderStep, LoopStep, ReadSample, HandOver, GiveUp, ReadFails, Cancel,
      ReceiveError, CloseSource, TimeOut

-----------------------------------------------------------------------------
(***************************************************************************)
(* The invariant and what follows from it.                                 *)
(***************************************************************************)
\* Nothing has been read at the start.
LEMMA InitInv == Init => Inv
<1> SUFFICES ASSUME Init PROVE Inv
  OBVIOUS
<1>n. taken = 0 /\ attempt = 0
  BY DEF Init
<1>e. events = <<>>
  BY DEF Init
<1>a. /\ context = {} /\ kept = {} /\ routed = {} /\ counted = [k \in Keys |-> {}]
      /\ batches = [p \in Priorities |-> {}]
      /\ submitted = {} /\ delivered = {} /\ abandoned = {}
      /\ source = "open" /\ reader = "reading" /\ loop = "select" /\ sending = "high"
      /\ readErrors = "" /\ sourceErr = ""
  BY DEF Init, Router!RouterInit
<1>1. RunnerTypeOK
  <2>1. Flags /\ Phases
    BY DEF Init, Flags, Phases, Priorities
  <2>2. Counters
    BY <1>n, RunnerAssumption DEF Counters
  <2>3. Channel
    BY <1>e, RunnerAssumption DEF Channel
  <2>4. RouterTyped /\ Uploads
    BY <1>a DEF RouterTyped, Uploads
  <2> QED
    BY <2>1, <2>2, <2>3, <2>4 DEF RunnerTypeOK
<1>2. Counted = {} /\ Carried({}) = {} /\ InHand = {}
  BY <1>a DEF Counted, Carried, InHand
<1>7. DOMAIN events = {} /\ Queued = {}
  <2>1. DOMAIN events = {}
    BY <1>e
  <2> QED
    BY <2>1 DEF Queued
<1>6. Batched = {}
  BY <1>a, <1>2 DEF Batched, Priorities
<1> USE <1>6
<1>3. Places
  <2>1. 1..taken = {}
    BY <1>n
  <2>2. NothingLost
    BY <1>a, <1>2, <1>7, <2>1 DEF NothingLost
  <2>3. NothingTwice
    BY <1>a, <1>2, <1>7 DEF NothingTwice, Priorities
  <2>4. Distinct
    BY <1>a, <1>7 DEF Distinct
  <2> QED
    BY <2>2, <2>3, <2>4 DEF Places
<1>4. Control
  BY <1>2 DEF Init, Router!RouterInit, Control
<1>5. Reported /\ OneBatchInDoubt
  BY DEF Init, Reported, OneBatchInDoubt
<1> QED
  BY <1>1, <1>3, <1>4, <1>5 DEF Inv

\* Every step of the reader, the loop, the source and the signal keeps Inv.
LEMMA StepInv == Inv /\ [Next]_vars => Inv'
<1>1. ASSUME Inv, Next PROVE Inv'
  BY <1>1, TypeStep, PlacesStep, ControlStep, ReportedStep, DoubtStep DEF Inv
<1>2. ASSUME Inv, UNCHANGED vars PROVE Inv'
  <2> USE <1>2 DEF vars, readerVars, routerVars, senderVars
  <2>0. Flags' /\ Phases' /\ Counters'
    <3>1. Flags'
      BY DEF Inv, RunnerTypeOK, Flags
    <3>2. Phases'
      BY DEF Inv, RunnerTypeOK, Phases
    <3>3. Counters'
      BY DEF Inv, RunnerTypeOK, Counters
    <3> QED
      BY <3>1, <3>2, <3>3
  <2>1. RunnerTypeOK'
    BY <2>0 DEF Inv, RunnerTypeOK, Channel, RouterTyped, Uploads
  <2>2. Places'
    BY QuietPlaces DEF Inv, InHand
  <2>3. Control'
    BY DEF Inv, Control, Counted
  <2>4. Reported' /\ OneBatchInDoubt'
    BY DEF Inv, Reported, OneBatchInDoubt, Batch, Carried
  <2> QED
    BY <2>1, <2>2, <2>3, <2>4 DEF Inv
<1> QED
  BY <1>1, <1>2

\* The strengthened invariant: types, custody, control and error places.
THEOREM Invariance == Spec => []Inv
  BY InitInv, StepInv, PTL DEF Spec

\* Every variable stays within its type, and the channel within its capacity.
THEOREM TypeCorrect == Spec => []RunnerTypeOK
  BY Invariance, PTL DEF Inv

\* Whatever the router decides, however sends fail and whenever the run is
\* cancelled, every event read is in one of the places the code knows of.
THEOREM Lossless == Spec => []NothingLost
<1>1. Inv => NothingLost
  BY DEF Inv, Places
<1> QED
  BY <1>1, Invariance, PTL

\* And in no two of them: none is batched or counted as submitted twice.
THEOREM NoDuplicates == Spec => []NothingTwice
<1>1. Inv => NothingTwice
  BY DEF Inv, Places
<1> QED
  BY <1>1, Invariance, PTL

\* The server has all the metric counts, and beyond that at most the batch whose
\* send is under way or failed.
THEOREM Doubt == Spec => []OneBatchInDoubt
<1>1. Inv => OneBatchInDoubt
  BY DEF Inv
<1> QED
  BY <1>1, Invariance, PTL

\* A nil result means that everything read was uploaded, kept on the host by the
\* router, or was the one event in the reader's hand at the cancellation.
THEOREM CleanReturn == Spec => []CleanReturnComplete
<1>1. Inv => CleanReturnComplete
  <2> SUFFICES ASSUME Inv, loop = "nil"
               PROVE  /\ 1..taken = submitted \union context \union kept \union abandoned
                      /\ Cardinality(abandoned) <= 1
                      /\ abandoned # {} => cancelled
    BY DEF CleanReturnComplete
  <2>1. /\ reader = "done" /\ events = <<>> /\ Counted = {} /\ routed = {}
        /\ \A p \in Priorities : batches[p] = {}
        /\ abandoned \subseteq {taken}
        /\ abandoned # {} => cancelled
    BY DEF Inv, Control
  <2>2. InHand = {} /\ Queued = {} /\ Carried(routed) = {} /\ Batched = {}
    BY <2>1 DEF InHand, Queued, Carried, Batched, Priorities
  <2>3. 1..taken = submitted \union context \union kept \union abandoned
    BY <2>1, <2>2 DEF Inv, Places, NothingLost
  <2>4. abandoned = {} \/ abandoned = {taken}
    BY <2>1
  <2>5. Cardinality(abandoned) <= 1
    <3>1. Cardinality({}) = 0 /\ Cardinality({taken}) = 1
      BY FS_EmptySet, FS_Singleton
    <3> QED
      BY <2>4, <3>1
  <2> QED
    BY <2>1, <2>3, <2>5
<1> QED
  BY <1>1, Invariance, PTL

\* A source that failed by itself is never hidden behind a nil result.
THEOREM FailureReported == Spec => []SourceFailureReported
<1>1. Inv => SourceFailureReported
  BY DEF Inv, Control, Reported, SourceFailureReported
<1> QED
  BY <1>1, Invariance, PTL

-----------------------------------------------------------------------------
(***************************************************************************)
(* The batches.                                                            *)
(***************************************************************************)

\* Of finitely many events there are finitely many items.
LEMMA FiniteItems ==
  ASSUME NEW S \in SUBSET Router!Items
  PROVE  IsFiniteSet(S) /\ Cardinality(S) \in Nat
<1> DEFINE parts == (SUBSET Events) \X ({"high", "normal"} \X BOOLEAN)
           item == [x \in parts |-> [events |-> x[1], priority |-> x[2][1], alert |-> x[2][2]]]
<1>1. IsFiniteSet(Events)
  BY RunnerAssumption, FS_Interval DEF Events, RunnerAssumption
<1>2. IsFiniteSet(SUBSET Events)
  BY <1>1, FS_SUBSET
<1>3. IsFiniteSet({"high"} \union {"normal"}) /\ IsFiniteSet({TRUE} \union {FALSE})
  BY FS_Singleton, FS_AddElement
<1>4. {"high"} \union {"normal"} = {"high", "normal"} /\ {TRUE} \union {FALSE} = BOOLEAN
  OBVIOUS
<1>5. IsFiniteSet({"high", "normal"} \X BOOLEAN)
  BY <1>3, <1>4, FS_Product
<1>6. IsFiniteSet(parts)
  BY <1>2, <1>5, FS_Product
<1>7. item \in Surjection(parts, Router!Items)
  <2>1. item \in [parts -> Router!Items]
    BY DEF Router!Items
  <2>2. ASSUME NEW i \in Router!Items PROVE \E x \in parts : item[x] = i
    <3>1. <<i.events, <<i.priority, i.alert>>>> \in parts
      BY DEF Router!Items
    <3>2. item[<<i.events, <<i.priority, i.alert>>>>] = i
      BY <3>1 DEF Router!Items
    <3> QED
      BY <3>1, <3>2
  <2> HIDE DEF item, parts
  <2> QED
    BY <2>1, <2>2 DEF Surjection
<1>8. IsFiniteSet(Router!Items)
  <2> HIDE DEF item, parts
  <2> QED
    BY <1>6, <1>7, FS_Surjection
<1> QED
  BY <1>8, FS_Subset, FS_CardinalityType

\* A send is under way.
Sending == loop \in {"request", "waiting", "backoff"}

\* Only the batch being sent, or whose send failed, may be full; no empty one is
\* sent.
Filled ==
  /\ \A p \in Priorities :
       \/ Cardinality(batches[p]) < BatchSize
       \/ /\ p = sending /\ loop \notin {"select", "enqueue"}
          /\ Cardinality(batches[p]) <= BatchSize
  /\ Sending => batches[sending] # {}

LEMMA SameFilled ==
  ASSUME Filled, UNCHANGED <<batches, sending>>, Sending' => Sending,
         loop' \in {"select", "enqueue"} => loop \in {"select", "enqueue"}
  PROVE  Filled'
BY DEF Filled

LEMMA BeginFlushFilled ==
  ASSUME RunnerTypeOK, Filled, NEW p \in Priorities, BeginFlush(p), batches' = batches,
         loop \in {"select", "enqueue"}
  PROVE  Filled'
BY DEF BeginFlush, Filled, Sending

\* The batch of an item is sent as soon as it is full.
LEMMA EnqueueFilled ==
  ASSUME RunnerTypeOK, Filled, Enqueue
  PROVE  Filled'
<1>1. PICK i \in routed :
        LET batch == batches[i.priority] \union {i}
        IN  /\ batches' = [batches EXCEPT ![i.priority] = batch]
            /\ IF IsFull(batch)
                 THEN loop' = "request" /\ sending' = i.priority
                 ELSE UNCHANGED <<loop, sending>>
  BY DEF Enqueue
<1>2. PICK batch : batch = batches[i.priority] \union {i}
  OBVIOUS
<1>3. i \in Router!Items /\ i.priority \in Priorities
  BY DEF RunnerTypeOK, RouterTyped, Router!Items, Priorities
<1>4. batches \in [Priorities -> SUBSET Router!Items]
  BY DEF RunnerTypeOK, Uploads
<1>5. loop = "enqueue" /\ \A p \in Priorities : Cardinality(batches[p]) < BatchSize
  BY DEF Enqueue, Filled
<1>6. Cardinality(batch) \in Nat /\ Cardinality(batch) <= BatchSize
  <2>1. IsFiniteSet(batches[i.priority]) /\ Cardinality(batches[i.priority]) \in Nat
    BY <1>3, <1>4, FiniteItems
  <2>2. Cardinality(batch) \in {Cardinality(batches[i.priority]), Cardinality(batches[i.priority]) + 1}
    BY <1>2, <2>1, FS_AddElement
  <2> QED
    BY <1>3, <1>5, <2>1, <2>2, RunnerAssumption DEF RunnerAssumption
<1>7. \A p \in Priorities : batches'[p] = IF p = i.priority THEN batch ELSE batches[p]
  BY <1>1, <1>2, <1>3, <1>4
<1>8. CASE IsFull(batch)
  <2>1. loop' = "request" /\ sending' = i.priority /\ batch # {}
    BY <1>1, <1>2, <1>8
  <2> QED
    BY <1>3, <1>5, <1>6, <1>7, <2>1 DEF Filled, Sending
<1>9. CASE ~IsFull(batch)
  <2>1. UNCHANGED <<loop, sending>> /\ Cardinality(batch) < BatchSize
    BY <1>1, <1>2, <1>6, <1>9, RunnerAssumption DEF IsFull, RunnerAssumption
  <2> QED
    BY <1>5, <1>7, <2>1 DEF Filled, Sending
<1> QED
  BY <1>8, <1>9

LEMMA SucceedFilled ==
  ASSUME RunnerTypeOK, Filled, Succeed
  PROVE  Filled'
<1>1. /\ loop' = "enqueue" /\ sending' = sending
      /\ \A p \in Priorities : batches'[p] = IF p = sending THEN {} ELSE batches[p]
  BY DEF Succeed, RunnerTypeOK, Uploads
<1>2. Cardinality({}) = 0 /\ 0 < BatchSize
  BY FS_EmptySet, RunnerAssumption DEF RunnerAssumption
<1> QED
  BY <1>1, <1>2 DEF Filled, Sending

LEMMA StepFilled ==
  ASSUME RunnerTypeOK, Filled, [Next]_vars
  PROVE  Filled'
<1>1. CASE ReaderStep \/ Cancel \/ TimeOut \/ UNCHANGED vars
  <2>1. UNCHANGED <<batches, sending, loop>>
    BY <1>1 DEF ReaderStep, ReadSample, HandOver, GiveUp, ReadFails, Cancel, TimeOut, vars, senderVars
  <2> QED
    BY <2>1, SameFilled DEF Sending
<1>2. CASE ReceiveEvent \/ ReceiveError \/ AggregateTick \/ CloseSource \/ BeginShutdown
             \/ BackToSelect \/ Return
  <2>1. UNCHANGED <<batches, sending>> /\ loop \in {"select", "enqueue"}
        /\ loop' \in {"select", "enqueue", "nil", "error"}
    BY <1>2 DEF ReceiveEvent, ReceiveError, AggregateTick, CloseSource, BeginShutdown,
      BackToSelect, Return, senderVars
  <2> QED
    BY <2>1, SameFilled DEF Sending
<1>3. CASE SendRequest \/ FailRequest \/ Retry \/ StopRetrying
  <2>1. UNCHANGED <<batches, sending>> /\ Sending /\ loop' \notin {"select", "enqueue"}
    BY <1>3 DEF SendRequest, FailRequest, AfterFailure, Retry, StopRetrying, Sending, senderVars
  <2> QED
    BY <2>1, SameFilled
<1>4. ASSUME NEW p \in Priorities, BatchTick(p) PROVE Filled'
  BY <1>4, BeginFlushFilled DEF BatchTick
<1>5. CASE FlushAll
  BY <1>5, BeginFlushFilled DEF FlushAll, Priorities
<1> QED
  BY <1>1, <1>2, <1>3, <1>4, <1>5, EnqueueFilled, SucceedFilled DEF Next, LoopStep

LEMMA FilledAlways == Spec => []Filled
<1>1. Init => Filled
  <2> SUFFICES ASSUME Init PROVE Filled
    OBVIOUS
  <2>1. loop = "select" /\ \A p \in Priorities : batches[p] = {}
    BY DEF Init
  <2>2. Cardinality({}) = 0 /\ 0 < BatchSize
    BY FS_EmptySet, RunnerAssumption DEF RunnerAssumption
  <2> QED
    BY <2>1, <2>2 DEF Filled, Sending
<1>2. RunnerTypeOK /\ Filled /\ [Next]_vars => Filled'
  BY StepFilled
<1> QED
  BY <1>1, <1>2, TypeCorrect, PTL DEF Spec

\* Both batches stay within the size they are made for.
BatchesFit == \A p \in Priorities : Cardinality(batches[p]) <= BatchSize

\* No batch ever holds more than BatchSize items, however many a call of the router
\* returns and whichever sends fail (enqueue, runner.go:99).
THEOREM BatchesBounded == Spec => []BatchesFit
<1>1. RunnerTypeOK /\ Filled => BatchesFit
  <2> SUFFICES ASSUME RunnerTypeOK, Filled, NEW p \in Priorities
               PROVE  Cardinality(batches[p]) <= BatchSize
    BY DEF BatchesFit
  <2>1. Cardinality(batches[p]) \in Nat /\ BatchSize \in Nat
    BY FiniteItems, RunnerAssumption DEF RunnerTypeOK, Uploads, RunnerAssumption
  <2> QED
    BY <2>1 DEF Filled
<1> QED
  BY <1>1, FilledAlways, TypeCorrect, PTL

-----------------------------------------------------------------------------
(***************************************************************************)
(* Once the shutdown flush has begun, every step comes closer to the       *)
(* return of Run.                                                          *)
(***************************************************************************)

\* What is left to do, the coarsest measure first: the two signals that may still
\* come, the return, the items to enqueue, the batches to send, the attempts of
\* the send under way, and the parts of an attempt.
Signals == (IF cancelled THEN 0 ELSE 1) + (IF timedOut THEN 0 ELSE 1)

Running01 == IF Running THEN 1 ELSE 0

Unsent == {p \in Priorities : batches[p] # {}}

Tries == IF Sending THEN Retries - attempt ELSE Retries + 1

Place ==
  CASE loop = "request" -> 3 [] loop = "waiting" -> 2 [] loop = "backoff" -> 1 [] OTHER -> 0

Distance == <<Signals, Running01, Cardinality(routed), Cardinality(Unsent), Tries, Place>>

DistanceTyped == \A i \in 1..6 : Distance[i] \in Nat

\* The distance falls in the order of its first difference.
Closer ==
  \E i \in 1..6 : Distance'[i] < Distance[i] /\ \A j \in 1..(i - 1) : Distance'[j] = Distance[j]

LEMMA Falls ==
  /\ Signals' < Signals => Closer
  /\ Signals' = Signals /\ Running01' < Running01 => Closer
  /\ UNCHANGED <<Signals, Running01>> /\ Cardinality(routed') < Cardinality(routed) => Closer
  /\ UNCHANGED <<Signals, Running01, routed>>
       /\ Cardinality(Unsent)' < Cardinality(Unsent) => Closer
  /\ UNCHANGED <<Signals, Running01, routed, Unsent>> /\ Tries' < Tries => Closer
  /\ UNCHANGED <<Signals, Running01, routed, Unsent, Tries>> /\ Place' < Place => Closer
<1>1. /\ Distance[1] = Signals /\ Distance[2] = Running01 /\ Distance[3] = Cardinality(routed)
      /\ Distance[4] = Cardinality(Unsent) /\ Distance[5] = Tries /\ Distance[6] = Place
      /\ Distance'[1] = Signals' /\ Distance'[2] = Running01'
      /\ Distance'[3] = Cardinality(routed') /\ Distance'[4] = Cardinality(Unsent)'
      /\ Distance'[5] = Tries' /\ Distance'[6] = Place'
  BY DEF Distance
<1>2. \A k \in 1..6 : \A j \in 1..(k - 1) :
        j = 1 \/ (j = 2 /\ k > 2) \/ (j = 3 /\ k > 3) \/ (j = 4 /\ k > 4) \/ (j = 5 /\ k > 5)
  OBVIOUS
<1>3. 1 \in 1..6 /\ 2 \in 1..6 /\ 3 \in 1..6 /\ 4 \in 1..6 /\ 5 \in 1..6 /\ 6 \in 1..6
  OBVIOUS
<1>4. Signals' < Signals => Closer
  BY <1>1, <1>2, <1>3 DEF Closer
<1>5. Signals' = Signals /\ Running01' < Running01 => Closer
  BY <1>1, <1>2, <1>3 DEF Closer
<1>6. UNCHANGED <<Signals, Running01>> /\ Cardinality(routed') < Cardinality(routed) => Closer
  BY <1>1, <1>2, <1>3 DEF Closer
<1>7. UNCHANGED <<Signals, Running01, routed>>
        /\ Cardinality(Unsent)' < Cardinality(Unsent) => Closer
  BY <1>1, <1>2, <1>3 DEF Closer
<1>8. UNCHANGED <<Signals, Running01, routed, Unsent>> /\ Tries' < Tries => Closer
  BY <1>1, <1>2, <1>3 DEF Closer
<1>9. UNCHANGED <<Signals, Running01, routed, Unsent, Tries>> /\ Place' < Place => Closer
  BY <1>1, <1>2, <1>3 DEF Closer
<1> QED
  BY <1>4, <1>5, <1>6, <1>7, <1>8, <1>9

LEMMA FinitePriorities ==
  ASSUME NEW S \in SUBSET Priorities
  PROVE  IsFiniteSet(S) /\ Cardinality(S) \in Nat
<1>1. IsFiniteSet({"high"} \union {"normal"})
  BY FS_Singleton, FS_AddElement
<1>2. {"high"} \union {"normal"} = Priorities
  BY DEF Priorities
<1> QED
  BY <1>1, <1>2, FS_Subset, FS_CardinalityType

LEMMA TypedDistance ==
  ASSUME RunnerTypeOK
  PROVE  /\ Signals \in Nat /\ Running01 \in Nat
         /\ IsFiniteSet(routed) /\ Cardinality(routed) \in Nat
         /\ IsFiniteSet(Unsent) /\ Cardinality(Unsent) \in Nat
         /\ Tries \in Nat /\ Place \in Nat
<1>1. Signals \in Nat
  BY DEF Signals, RunnerTypeOK, Flags
<1>2. Running01 \in Nat /\ Place \in Nat
  BY DEF Running01, Place
<1>3. IsFiniteSet(routed) /\ Cardinality(routed) \in Nat
  BY FiniteItems DEF RunnerTypeOK, RouterTyped
<1>4. IsFiniteSet(Unsent) /\ Cardinality(Unsent) \in Nat
  BY FinitePriorities DEF Unsent
<1>5. Tries \in Nat
  BY RunnerAssumption DEF Tries, RunnerTypeOK, Counters, RunnerAssumption
<1> QED
  BY <1>1, <1>2, <1>3, <1>4, <1>5

\* The reader is done and the loop past its select, so the other steps are over.
LEMMA ShutdownSteps ==
  ASSUME Control, final, Next
  PROVE  \/ Running /\ Cancel
         \/ TimeOut \/ Enqueue \/ FlushAll \/ Return
         \/ SendRequest \/ Succeed \/ FailRequest \/ Retry \/ StopRetrying
<1>1. reader = "done" /\ loop # "select"
  BY DEF Control
<1> QED
  BY <1>1 DEF Next, ReaderStep, ReadSample, HandOver, GiveUp, ReadFails, LoopStep, ReceiveEvent,
    ReceiveError, AggregateTick, CloseSource, BeginShutdown, BatchTick, BackToSelect

LEMMA ShutdownCloser ==
  ASSUME Inv, Filled, final, Next
  PROVE  Closer
<1>0. RunnerTypeOK /\ Control
  BY DEF Inv
<1>a. attempt \in 0..Retries /\ Retries \in Nat
  BY <1>0, RunnerAssumption DEF RunnerTypeOK, Counters, RunnerAssumption
<1>b. ASSUME UNCHANGED batches PROVE Unsent' = Unsent
  BY <1>b DEF Unsent
<1>1. CASE Running /\ Cancel
  <2>1. Signals' < Signals
    BY <1>0, <1>1 DEF Cancel, Signals, RunnerTypeOK, Flags
  <2> QED
    BY <2>1, Falls
<1>2. CASE TimeOut
  <2>1. Signals' < Signals
    BY <1>0, <1>2 DEF TimeOut, Signals, RunnerTypeOK, Flags
  <2> QED
    BY <2>1, Falls
<1>3. CASE Enqueue
  <2>1. PICK i \in routed : routed' = routed \ {i}
    BY <1>3 DEF Enqueue
  <2>2. Cardinality(routed') < Cardinality(routed)
    <3>1. IsFiniteSet(routed) /\ Cardinality(routed) \in Nat
      BY <1>0, TypedDistance
    <3>2. Cardinality(routed \ {i}) = Cardinality(routed) - 1
      BY <2>1, <3>1, FS_RemoveElement
    <3> QED
      BY <2>1, <3>1, <3>2
  <2>3. Signals' = Signals /\ Running01' = Running01
    BY <1>3 DEF Enqueue, Signals, Running01, Running
  <2> QED
    BY <2>2, <2>3, Falls
<1>4. CASE FlushAll
  <2>1. /\ loop = "enqueue" /\ loop' = "request" /\ attempt' = 0
        /\ UNCHANGED <<routed, batches, cancelled, timedOut>>
    BY <1>4 DEF FlushAll, BeginFlush, routerVars
  <2>2. UNCHANGED <<Signals, Running01, routed, Unsent>>
    BY <1>b, <2>1 DEF Signals, Running01, Running
  <2>3. Tries' < Tries
    BY <1>a, <2>1 DEF Tries, Sending
  <2> QED
    BY <2>2, <2>3, Falls
<1>5. ASSUME Running, ~Running', UNCHANGED <<cancelled, timedOut>> PROVE Closer
  <2>1. Signals' = Signals /\ Running01' < Running01
    BY <1>5 DEF Signals, Running01
  <2> QED
    BY <2>1, Falls
<1>6. CASE Return \/ StopRetrying
  BY <1>5, <1>6 DEF Return, StopRetrying, Running
<1>7. ASSUME Running, loop' \in {"waiting", "backoff"}, Sending, Place' < Place,
             UNCHANGED <<cancelled, timedOut, routed, batches, attempt>>
      PROVE  Closer
  <2>1. UNCHANGED <<Signals, Running01, routed, Unsent>>
    BY <1>b, <1>7 DEF Signals, Running01, Running
  <2>2. Tries' = Tries
    BY <1>7 DEF Tries, Sending
  <2> QED
    BY <1>7, <2>1, <2>2, Falls
<1>8. CASE SendRequest \/ FailRequest
  <2>1. /\ Running /\ Sending /\ loop \in {"request", "waiting"}
        /\ UNCHANGED <<cancelled, timedOut, routed, batches, attempt>>
        /\ \/ loop' \in {"error", "backoff"}
           \/ loop = "request" /\ loop' = "waiting"
    BY <1>8 DEF SendRequest, FailRequest, AfterFailure, Running, Sending, routerVars, senderVars
  <2>2. CASE loop' = "error"
    BY <1>5, <2>1, <2>2 DEF Running
  <2>3. CASE loop' # "error"
    <3>1. Place' < Place /\ loop' \in {"waiting", "backoff"}
      BY <2>1, <2>3 DEF Place
    <3> QED
      BY <1>7, <2>1, <3>1
  <2> QED
    BY <2>2, <2>3
<1>9. CASE Succeed
  <2>1. /\ loop = "waiting" /\ loop' = "enqueue"
        /\ batches' = [batches EXCEPT ![sending] = {}]
        /\ UNCHANGED <<routed, cancelled, timedOut>>
    BY <1>9 DEF Succeed, routerVars
  <2>2. sending \in Unsent /\ Unsent' = Unsent \ {sending}
    <3>1. sending \in Priorities /\ batches[sending] # {}
      BY <1>0, <2>1 DEF Filled, Sending, RunnerTypeOK, Phases
    <3>2. \A p \in Priorities : batches'[p] = IF p = sending THEN {} ELSE batches[p]
      BY <1>0, <2>1 DEF RunnerTypeOK, Uploads
    <3> QED
      BY <3>1, <3>2 DEF Unsent
  <2>3. Cardinality(Unsent)' < Cardinality(Unsent)
    <3>1. IsFiniteSet(Unsent) /\ Cardinality(Unsent) \in Nat
      BY <1>0, TypedDistance
    <3>2. Cardinality(Unsent \ {sending}) = Cardinality(Unsent) - 1
      BY <2>2, <3>1, FS_RemoveElement
    <3> QED
      BY <2>2, <3>1, <3>2
  <2>4. UNCHANGED <<Signals, Running01, routed>>
    BY <2>1 DEF Signals, Running01, Running
  <2> QED
    BY <2>3, <2>4, Falls
<1>10. CASE Retry
  <2>1. /\ loop = "backoff" /\ loop' = "request" /\ attempt' = attempt + 1
        /\ UNCHANGED <<routed, batches, cancelled, timedOut>>
    BY <1>10 DEF Retry, routerVars
  <2>2. UNCHANGED <<Signals, Running01, routed, Unsent>>
    BY <1>b, <2>1 DEF Signals, Running01, Running
  <2>3. Tries' < Tries
    BY <1>a, <2>1 DEF Tries, Sending
  <2> QED
    BY <2>2, <2>3, Falls
<1> QED
  BY <1>0, <1>1, <1>2, <1>3, <1>4, <1>6, <1>8, <1>9, <1>10, ShutdownSteps

\* Once the shutdown flush has begun every step of the process brings the return of
\* Run closer, for any number of routed items, batches and retries and whatever the
\* server answers: the distance has six natural numbers and falls in their
\* lexicographic order, so the flush cannot go on for ever (flushAll, Send).
THEOREM ShutdownComesCloser == Spec => []DistanceTyped /\ [][final => Closer]_vars
<1>1. RunnerTypeOK => DistanceTyped
  <2> SUFFICES ASSUME RunnerTypeOK PROVE DistanceTyped
    OBVIOUS
  <2>1. \A i \in 1..6 : i = 1 \/ i = 2 \/ i = 3 \/ i = 4 \/ i = 5 \/ i = 6
    OBVIOUS
  <2>2. /\ Distance[1] = Signals /\ Distance[2] = Running01 /\ Distance[3] = Cardinality(routed)
        /\ Distance[4] = Cardinality(Unsent) /\ Distance[5] = Tries /\ Distance[6] = Place
    BY DEF Distance
  <2> QED
    BY <2>1, <2>2, TypedDistance DEF DistanceTyped
<1>2. Inv /\ Filled /\ [Next]_vars => [final => Closer]_vars
  BY ShutdownCloser
<1>3. Inv => RunnerTypeOK
  BY DEF Inv
<1> QED
  BY <1>1, <1>2, <1>3, Invariance, FilledAlways, PTL DEF Spec
=============================================================================
