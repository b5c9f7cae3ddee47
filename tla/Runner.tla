------------------------------- MODULE Runner -------------------------------
(***************************************************************************)
(* The collector's run loop, internal/collector/runner.go, with the HTTP   *)
(* sender of sender.go: a reading goroutine feeds a bounded channel; the   *)
(* loop routes what it receives, collects two batches by priority, and     *)
(* sends a batch when it is full, when its ticker fires, and at shutdown.  *)
(* A send blocks the loop: retries and back-off happen inside it.          *)
(*                                                                         *)
(* Events are numbers in reading order.  The router is any EventRouter     *)
(* (cmd/collector/main_linux.go:162 always sets one); its `routed` holds   *)
(* the result of the last call, which enqueue works off in any order (the  *)
(* code's order is by event time).  A discarded sample changes a metric    *)
(* only and is left out, as are the metrics' values.                       *)
(***************************************************************************)
EXTENDS Integers, FiniteSets, Sequences

CONSTANTS
  MaxEvents,   \* bound: the events the source yields
  Keys,        \* aggregation keys
  BatchSize,   \* Runner.BatchSize
  QueueSize,   \* capacity of the channel; BatchSize * 4 in the code
  Retries,     \* HTTPSender.retries
  Answers      \* what an upload may meet: "ok", "refused", "lost"

ASSUME RunnerAssumption ==
  /\ MaxEvents \in Nat
  /\ BatchSize \in Nat \ {0}
  /\ QueueSize \in Nat \ {0}
  /\ Retries \in Nat
  /\ Answers \subseteq {"ok", "refused", "lost"}

Events == 1..MaxEvents

Priorities == {"high", "normal"}

VARIABLES
  source,      \* the sample source: "open", "closed" by Run, "failed" or "eof"
  reader,      \* readLoop: "reading", "sending" event `taken`, or "done"
  taken,       \* events read so far
  events,      \* the channel; closed once the reader is done
  readErrors,  \* the error channel's content: how the source ended, or ""
  sourceErr,   \* the error received from it
  cancelled,   \* the run's context is cancelled
  context, counted, kept, routed,   \* the router, see EventRouter
  batches,     \* highBatch and normalBatch: sets of items
  loop,        \* Run: "select", "enqueue", "request", "waiting", "backoff",
               \* "nil" or "error" (the last two: returned)
  sending,     \* priority of the batch of the last flush
  attempt,     \* attempts the send has made before this one
  final,       \* the shutdown flush has begun
  timedOut,    \* its five seconds are over
  submitted,   \* events the metric Submitted counts
  delivered,   \* events the server has accepted
  abandoned    \* events the reader gave up when the context ended

routerVars  == <<context, counted, kept, routed>>
readerVars  == <<reader, taken, readErrors, abandoned>>
senderVars  == <<sending, attempt, submitted, delivered>>
vars == <<source, readerVars, events, sourceErr, cancelled, routerVars, batches,
          loop, senderVars, final, timedOut>>

Router == INSTANCE EventRouter

Carried(items) == UNION {i.events : i \in items}

-----------------------------------------------------------------------------
(***************************************************************************)
(* readLoop.                                                               *)
(***************************************************************************)
ReadSample ==
  /\ reader = "reading" /\ source = "open"
  /\ taken < MaxEvents
  /\ taken' = taken + 1
  /\ reader' = "sending"
  /\ UNCHANGED <<source, events, readErrors, sourceErr, cancelled, routerVars, batches,
                 loop, senderVars, final, timedOut, abandoned>>

\* Faulty: the channel takes any number of events.
HandOverUnbounded ==
  /\ reader = "sending"
  /\ events' = Append(events, taken)
  /\ reader' = "reading"
  /\ UNCHANGED <<source, taken, readErrors, sourceErr, cancelled, routerVars, batches,
                 loop, senderVars, final, timedOut, abandoned>>

HandOver ==
  /\ reader = "sending"
  /\ Len(events) < QueueSize
  /\ events' = Append(events, taken)
  /\ reader' = "reading"
  /\ UNCHANGED <<source, taken, readErrors, sourceErr, cancelled, routerVars, batches,
                 loop, senderVars, final, timedOut, abandoned>>

\* The select on ctx.Done: the event in hand is dropped.
GiveUp ==
  /\ reader = "sending"
  /\ cancelled
  /\ abandoned' = abandoned \union {taken}
  /\ reader' = "done"
  /\ UNCHANGED <<source, taken, events, readErrors, sourceErr, cancelled, routerVars,
                 batches, loop, senderVars, final, timedOut>>

\* Read fails, by itself or because Run closed the source.
ReadFails ==
  /\ reader = "reading"
  /\ IF source = "open" THEN source' \in {"eof", "failed"} ELSE UNCHANGED source
  /\ readErrors' = source'
  /\ reader' = "done"
  /\ UNCHANGED <<taken, events, sourceErr, cancelled, routerVars, batches,
                 loop, senderVars, final, timedOut, abandoned>>

\* SIGINT or SIGTERM.
Cancel ==
  /\ ~cancelled
  /\ cancelled' = TRUE
  /\ UNCHANGED <<source, readerVars, events, sourceErr, routerVars, batches,
                 loop, senderVars, final, timedOut>>

-----------------------------------------------------------------------------
(***************************************************************************)
(* The loop of Run, at its select.                                         *)
(***************************************************************************)
ReceiveEvent ==
  /\ loop = "select"
  /\ events # <<>>
  /\ events' = Tail(events)
  /\ Router!Process(Head(events))
  /\ loop' = "enqueue"
  /\ UNCHANGED <<source, readerVars, sourceErr, cancelled, batches, senderVars,
                 final, timedOut>>

ReceiveError ==
  /\ loop = "select"
  /\ readErrors # ""
  /\ sourceErr' = readErrors
  /\ readErrors' = ""
  /\ UNCHANGED <<source, reader, taken, abandoned, events, cancelled, routerVars,
                 batches, loop, senderVars, final, timedOut>>

AggregateTick ==
  /\ loop = "select"
  /\ Router!Flush(FALSE)
  /\ loop' = "enqueue"
  /\ UNCHANGED <<source, readerVars, events, sourceErr, cancelled, batches, senderVars,
                 final, timedOut>>

BeginFlush(p) ==
  /\ batches[p] # {}
  /\ sending' = p
  /\ attempt' = 0
  /\ loop' = "request"
  /\ UNCHANGED <<submitted, delivered>>

\* Faulty: the high ticker is never started.
BatchTickNormal(p) ==
  /\ loop = "select" /\ p = "normal"
  /\ BeginFlush(p)
  /\ UNCHANGED <<source, readerVars, events, sourceErr, cancelled, routerVars, batches,
                 final, timedOut>>

BatchTick(p) ==
  /\ loop = "select"
  /\ BeginFlush(p)
  /\ UNCHANGED <<source, readerVars, events, sourceErr, cancelled, routerVars, batches,
                 final, timedOut>>

\* Faulty: the source stays open.
LeaveSourceOpen == loop = "select" /\ cancelled /\ UNCHANGED vars

\* The case ctx.Done of the select; it stays ready until the loop is left.
CloseSource ==
  /\ loop = "select"
  /\ cancelled
  /\ source' = IF source = "open" THEN "closed" ELSE source
  /\ UNCHANGED <<readerVars, events, sourceErr, cancelled, routerVars, batches,
                 loop, senderVars, final, timedOut>>

\* Faulty: the error channel is not looked at again.
BeginShutdownBlind ==
  /\ loop = "select"
  /\ reader = "done" /\ events = <<>>
  /\ Router!Flush(TRUE)
  /\ final' = TRUE
  /\ loop' = "enqueue"
  /\ UNCHANGED <<source, readerVars, sourceErr, events, cancelled, batches,
                 senderVars, timedOut>>

\* Faulty: the last flush of the router is not forced.
BeginShutdownUnforced ==
  /\ loop = "select"
  /\ reader = "done" /\ events = <<>>
  /\ sourceErr' = IF readErrors # "" THEN readErrors ELSE sourceErr
  /\ readErrors' = ""
  /\ Router!Flush(FALSE)
  /\ final' = TRUE
  /\ loop' = "enqueue"
  /\ UNCHANGED <<source, reader, taken, abandoned, events, cancelled, batches,
                 senderVars, timedOut>>

\* The channel is closed and empty: an error still waiting is taken, and the
\* shutdown flush begins under a context of its own.
BeginShutdown ==
  /\ loop = "select"
  /\ reader = "done" /\ events = <<>>
  /\ sourceErr' = IF readErrors # "" THEN readErrors ELSE sourceErr
  /\ readErrors' = ""
  /\ Router!Flush(TRUE)
  /\ final' = TRUE
  /\ loop' = "enqueue"
  /\ UNCHANGED <<source, reader, taken, abandoned, events, cancelled, batches,
                 senderVars, timedOut>>

-----------------------------------------------------------------------------
(***************************************************************************)
(* enqueue: each item joins the batch of its priority; a full batch is     *)
(* sent before the next item is looked at.                                 *)
(***************************************************************************)
IsFull(batch) == Cardinality(batch) >= BatchSize

Enqueue ==
  /\ loop = "enqueue"
  /\ \E i \in routed :
       LET batch == batches[i.priority] \union {i}
       IN /\ routed' = routed \ {i}
          /\ batches' = [batches EXCEPT ![i.priority] = batch]
          /\ IF IsFull(batch)
               THEN loop' = "request" /\ sending' = i.priority /\ attempt' = 0
               ELSE UNCHANGED <<loop, sending, attempt>>
  /\ UNCHANGED <<source, readerVars, events, sourceErr, cancelled, context, counted, kept,
                 submitted, delivered, final, timedOut>>

BackToSelect ==
  /\ loop = "enqueue"
  /\ routed = {} /\ ~final
  /\ loop' = "select"
  /\ UNCHANGED <<source, readerVars, events, sourceErr, cancelled, routerVars, batches,
                 senderVars, final, timedOut>>

\* The rest of flushAll: the high batch, then the normal one.
FlushAll ==
  /\ loop = "enqueue"
  /\ routed = {} /\ final
  /\ \/ BeginFlush("high")
     \/ batches["high"] = {} /\ BeginFlush("normal")
  /\ UNCHANGED <<source, readerVars, events, sourceErr, cancelled, routerVars, batches,
                 final, timedOut>>

\* A source that failed makes the run fail, unless it was asked to end.
Return ==
  /\ loop = "enqueue"
  /\ routed = {} /\ final
  /\ \A p \in Priorities : batches[p] = {}
  /\ loop' = IF sourceErr = "failed" /\ ~cancelled THEN "error" ELSE "nil"
  /\ UNCHANGED <<source, readerVars, events, sourceErr, cancelled, routerVars, batches,
                 senderVars, final, timedOut>>

-----------------------------------------------------------------------------
(***************************************************************************)
(* HTTPSender.Send under the run's context or, at the end, the shutdown's. *)
(* A request that fails is repeated after a delay; the context's end stops *)
(* a request as well as a delay.                                           *)
(***************************************************************************)
Ended == IF final THEN timedOut ELSE cancelled

Batch == Carried(batches[sending])

TimeOut ==
  /\ final /\ ~timedOut
  /\ loop \in {"enqueue", "request", "waiting", "backoff"}
  /\ timedOut' = TRUE
  /\ UNCHANGED <<source, readerVars, events, sourceErr, cancelled, routerVars, batches,
                 loop, senderVars, final>>

\* Faulty: the loop goes on after a batch that could not be sent.
AfterFailureIgnored == loop' = IF attempt = Retries THEN "enqueue" ELSE "backoff"

AfterFailure == loop' = IF attempt = Retries THEN "error" ELSE "backoff"

\* client.Do with an ended context sends nothing.
SendRequest ==
  /\ loop = "request"
  /\ IF Ended THEN AfterFailure ELSE loop' = "waiting"
  /\ UNCHANGED <<source, readerVars, events, sourceErr, cancelled, routerVars, batches,
                 senderVars, final, timedOut>>

\* Faulty: a sent batch is not emptied.
SucceedKeeping ==
  /\ loop = "waiting"
  /\ "ok" \in Answers
  /\ delivered' = delivered \union Batch
  /\ submitted' = submitted \union Batch
  /\ loop' = "enqueue"
  /\ UNCHANGED <<source, readerVars, events, sourceErr, cancelled, routerVars, batches,
                 sending, attempt, final, timedOut>>

\* Faulty: both batches are emptied.
SucceedClearingBoth ==
  /\ loop = "waiting"
  /\ "ok" \in Answers
  /\ delivered' = delivered \union Batch
  /\ submitted' = submitted \union Batch
  /\ batches' = [p \in Priorities |-> {}]
  /\ loop' = "enqueue"
  /\ UNCHANGED <<source, readerVars, events, sourceErr, cancelled, routerVars,
                 sending, attempt, final, timedOut>>

Succeed ==
  /\ loop = "waiting"
  /\ "ok" \in Answers
  /\ delivered' = delivered \union Batch
  /\ submitted' = submitted \union Batch
  /\ batches' = [batches EXCEPT ![sending] = {}]
  /\ loop' = "enqueue"
  /\ UNCHANGED <<source, readerVars, events, sourceErr, cancelled, routerVars,
                 sending, attempt, final, timedOut>>

\* The server refuses the batch, or accepts it and the answer is lost: a late
\* answer, a cut connection, or the end of the context.
FailRequest ==
  /\ loop = "waiting"
  /\ \/ (Ended \/ "refused" \in Answers) /\ UNCHANGED delivered
     \/ (Ended \/ "lost" \in Answers) /\ delivered' = delivered \union Batch
  /\ AfterFailure
  /\ UNCHANGED <<source, readerVars, events, sourceErr, cancelled, routerVars, batches,
                 sending, attempt, submitted, final, timedOut>>

Retry ==
  /\ loop = "backoff"
  /\ attempt' = attempt + 1
  /\ loop' = "request"
  /\ UNCHANGED <<source, readerVars, events, sourceErr, cancelled, routerVars, batches,
                 sending, submitted, delivered, final, timedOut>>

StopRetrying ==
  /\ loop = "backoff"
  /\ Ended
  /\ loop' = "error"
  /\ UNCHANGED <<source, readerVars, events, sourceErr, cancelled, routerVars, batches,
                 senderVars, final, timedOut>>

-----------------------------------------------------------------------------
Init ==
  /\ source = "open" /\ reader = "reading" /\ taken = 0
  /\ events = <<>> /\ readErrors = "" /\ sourceErr = ""
  /\ cancelled = FALSE
  /\ Router!RouterInit
  /\ batches = [p \in Priorities |-> {}]
  /\ loop = "select" /\ sending = "high" /\ attempt = 0
  /\ final = FALSE /\ timedOut = FALSE
  /\ submitted = {} /\ delivered = {} /\ abandoned = {}

\* The process ends once Run has returned (main_linux.go:168-171).
Running == loop \notin {"nil", "error"}

ReaderStep == Running /\ (ReadSample \/ HandOver \/ GiveUp \/ ReadFails)

LoopStep ==
  \/ ReceiveEvent \/ ReceiveError \/ AggregateTick \/ CloseSource \/ BeginShutdown
  \/ \E p \in Priorities : BatchTick(p)
  \/ Enqueue \/ BackToSelect \/ FlushAll \/ Return
  \/ SendRequest \/ Succeed \/ FailRequest \/ Retry \/ StopRetrying

Next == ReaderStep \/ LoopStep \/ (Running /\ Cancel) \/ TimeOut

Spec == Init /\ [][Next]_vars

(***************************************************************************)
(* A select with several ready cases picks one at random, so no case that  *)
(* keeps being ready is passed over forever; tickers keep firing.  Every   *)
(* request ends, by an answer or by the client's timeout of five seconds.  *)
(* Nothing is assumed of the source before it is closed.                   *)
(***************************************************************************)
Fairness ==
  /\ WF_vars(LoopStep)
  /\ SF_vars(CloseSource) /\ SF_vars(ReceiveEvent) /\ SF_vars(BeginShutdown)
  /\ \A p \in Priorities : SF_vars(BatchTick(p))
  /\ WF_vars(Running /\ (HandOver \/ GiveUp))
  /\ WF_vars(Running /\ source = "closed" /\ ReadFails)

FairSpec == Spec /\ Fairness

-----------------------------------------------------------------------------
InHand == IF reader = "sending" THEN {taken} ELSE {}
Queued == {events[i] : i \in DOMAIN events}
Counted == UNION {counted[k] : k \in Keys}
Batched == Carried(batches["high"] \union batches["normal"])

Flags == cancelled \in BOOLEAN /\ final \in BOOLEAN /\ timedOut \in BOOLEAN

Phases ==
  /\ source \in {"open", "closed", "failed", "eof"}
  /\ reader \in {"reading", "sending", "done"}
  /\ readErrors \in {"", "closed", "failed", "eof"}
  /\ sourceErr \in {"", "closed", "failed", "eof"}
  /\ loop \in {"select", "enqueue", "request", "waiting", "backoff", "nil", "error"}
  /\ sending \in Priorities

Counters == taken \in 0..MaxEvents /\ attempt \in 0..Retries

Channel == events \in Seq(Events) /\ Len(events) <= QueueSize

RouterTyped ==
  /\ context \subseteq Events /\ kept \subseteq Events
  /\ counted \in [Keys -> SUBSET Events]
  /\ routed \subseteq Router!Items

Uploads ==
  /\ batches \in [Priorities -> SUBSET Router!Items]
  /\ submitted \subseteq Events /\ delivered \subseteq Events /\ abandoned \subseteq Events

\* Type invariant; the channel never holds more than its capacity.
RunnerTypeOK == Flags /\ Phases /\ Counters /\ Channel /\ RouterTyped /\ Uploads

\* Every event read is somewhere: in the reader's hand, the channel, the router,
\* the routed items, a batch, the uploads, or the one place where the code drops
\* it (runner.go:224-229).  No error path loses one.
NothingLost ==
  1..taken = InHand \union Queued \union context \union Counted \union kept
               \union Carried(routed) \union Batched \union submitted \union abandoned

\* And it is in one place only: no event is routed, batched or counted as
\* submitted twice, by a retry or by the flushes at shutdown.
NothingTwice ==
  /\ InHand \intersect (Queued \union context \union Counted \union kept
       \union Carried(routed) \union Batched \union submitted \union abandoned) = {}
  /\ Queued \intersect (context \union Counted \union kept
       \union Carried(routed) \union Batched \union submitted \union abandoned) = {}
  /\ context \intersect (Counted \union kept
       \union Carried(routed) \union Batched \union submitted \union abandoned) = {}
  /\ Counted \intersect (kept
       \union Carried(routed) \union Batched \union submitted \union abandoned) = {}
  /\ kept \intersect (Carried(routed) \union Batched \union submitted \union abandoned) = {}
  /\ Carried(routed) \intersect (Batched \union submitted \union abandoned) = {}
  /\ Batched \intersect (submitted \union abandoned) = {}
  /\ submitted \intersect abandoned = {}
  /\ Carried(batches["high"]) \intersect Carried(batches["normal"]) = {}

\* The metric never runs ahead of the server, and what the server has accepted
\* beyond it is part of the one batch whose send is under way or has failed.
OneBatchInDoubt ==
  /\ submitted \subseteq delivered
  /\ delivered \ submitted \subseteq
       IF loop \in {"request", "waiting", "backoff", "error"} THEN Batch ELSE {}

\* When Run returns nil, all that was read was uploaded, except for what the
\* router keeps on the host and at most the one event the reader held when the
\* context ended.
CleanReturnComplete ==
  loop = "nil" =>
    /\ 1..taken = submitted \union context \union kept \union abandoned
    /\ Cardinality(abandoned) <= 1
    /\ abandoned # {} => cancelled

\* A source that fails by itself is reported, whichever of the two channels the
\* loop learns it from first (runner.go:122-149).
SourceFailureReported == loop = "nil" /\ source = "failed" => cancelled

\* Told to stop, the run returns, although the case ctx.Done stays ready and the
\* other cases compete with it, the channel may be full and sends may fail.
StopsWhenTold == cancelled ~> ~Running

\* Urgent events do not starve behind the normal batch (docs/ARCHITECTURE.md:295).
HighUploaded ==
  \A e \in Events :
    e \in Carried(batches["high"]) ~> (e \in submitted \/ ~Running)

\* docs/EBPF_RING_BUFFER_DESIGN.md:104: when a send fails for good the collector
\* exits explicitly and does not pretend success.  The process exits with
\* success when Run returns nil or the context is cancelled (main_linux.go:168).
ExitZeroMeansUploaded ==
  loop = "nil" \/ (loop = "error" /\ cancelled) => Batched = {} /\ Carried(routed) = {}
=============================================================================
