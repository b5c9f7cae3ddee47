# Agent-Sec in TLA+

Specifications of the Agent-Sec repository (`src/`), checked with TLC and, in
part, proved with TLAPS. The subject is a runtime security system in Go: a
*collector* on each host reads kernel events, decides what is worth uploading
and posts batches to a *server*, which stores the events, derives behaviors,
alerts and incidents from them, and has agents investigate the incidents.

## The system

| Part | State it keeps | Operations | Interacts with |
|---|---|---|---|
| Kernel sensor (`sensor/ebpf`) | BPF maps, ring buffer | tracepoints reserve, fill and submit records | ring buffer read by the sample source |
| Sample source, transformer (`source_linux.go`, `transform.go`) | reader, links | Read, Close, Stats | called by the reader goroutine of the runner; closed by its loop |
| Runner (`runner.go`, `sender.go`) | channel of events, two batches, a pending error | reader loop; select loop over channel, error, three tickers and the context; Send with retries | source, router, server over HTTP |
| Upload router (`upload_router.go`, `upload_policy.go`) | alerted scopes, and the three parts below | Process, Flush | called by the runner only |
| Context buffer (`rolling_buffer.go`) | a global list, lists per scope, byte counters | Add, Promote, Stats | owned by the router |
| Event aggregator (`aggregator.go`) | buckets by key in order of use | Add, Flush | owned by the router, twice |
| Detection (`detection_policy.go`, `detection_cel.go`, `main_linux.go`) | a pointer to compiled rules, a channel of one signal | Evaluate; a goroutine reloads the file on SIGHUP | called by the router |
| HTTP API (`httpapi`) | none | one handler per request, concurrent: events, batches, replays, resets, investigations | service |
| Processor (`processor.go`) | fingerprints, temp files, process starts, statistics | Process, Reset | called by Ingest |
| Service (`app/service.go`) | none of its own | Ingest, IngestMany, RunPipeline, IngestCollectorBatch, Reset, Investigate | processor, repository, engines, collection manager, investigation |
| Behavior and incident engines | none | Derive, Correlate | pure functions of the stored events |
| Collection manager | level and expiry per scope | ObserveBehaviors, ObserveIncidents, List | called by the pipeline |
| Repository (`store`) | PostgreSQL tables and a cache | AddEvent, ReplaceBehaviors, AddAlert, AddIncident, Reset, load | called by everything above |
| Rule-based investigation (`investigation`) | none | Investigate | reads events, stores the incident |
| Agent controller (`agentic`) | plan, results, evidence and budget of one run | plan, decide, call a tool, finish, report | model client, tool gateway, audit log |
| Tool gateway (`agenttools`) | result cache of one run | Invoke | event and telemetry adapters, signed cursors, budget, audit log |
| Model client (`agentllm`), audit log (`agentaudit`) | a sequence number | Call with retries; append a record | called by controller and gateway |

What is hard in it: the runner's loop, its reader, the server's answers and the
signal to stop interleave; a send may be accepted and its answer lost; ticks carry
times that lie behind the last event's; handlers of the server run concurrently
over snapshots, a store call may fail or have an unknown outcome, the process may
die between two of them, the collector repeats batches, and a reset empties
repository, processor and levels in three steps among all this. Rules are reloaded
while an event is evaluated. Detection derives everything anew from all events,
which arrive in any order, while levels run on the server's clock. An
investigation is sequential, but its models may answer anything, its tools and its
audit log may fail at any call, and cursors, cache, repairs and retries meet in
one budget. The list with source lines is `hazards` in `PROJECT.json`.

What makes each part correct, in a sentence:

- buffer: limits and bookkeeping hold, nothing stays much longer than its time,
  a scope cannot push out the others while there is room for both;
- aggregator: counts are conserved, summaries have distinct identities;
- router: every context event is uploaded once, held, or counted as evicted;
  an alert brings its context; local-only data stays on the host;
- runner: no event is lost or sent twice, a clean return means everything was
  uploaded, failures are reported, it stops when told;
- detection rules: one event is decided by one rule set that was in force
  meanwhile, and the rules in force follow the file and the signals;
- repository: what was reported stored is readable and durable, and readers see
  nothing that is not durable;
- ingestion: an alert or incident is backed by stored evidence, an answer of 201
  means what the API document says it means, no mark of the processor outlives
  the event it stands for;
- the server's detection: an incident holds the evidence of its pattern, a level
  lasts exactly as long as the findings that call for it;
- investigation: every finding rests on evidence of the run and of its audit
  log, a task that succeeded has asked its questions completely, a task runs only
  after the tasks it depends on, the run keeps to its budgets and ends.

## Modules

| Module | Models | Checked by |
|---|---|---|
| `Lists` | a filter on lists, used by the buffer and the aggregator | through them |
| `RollingBuffer` | the context buffer; operators reused by the router | `MCComponents` |
| `EventAggregator` | an aggregator; operators reused by the router | `MCComponents` |
| `CollectorStores_proofs` | lemmas about the operators of buffer and aggregator, and their invariance proofs | TLAPS |
| `DetectionRules` | the collector's rules: compilation, evaluation, hot reload | `MCComponents` |
| `EventRouter` | the interface the runner relies on (abstract) | through `UploadRouter`, `Runner` |
| `UploadRouter` | the router; INSTANCEs the buffer once, the aggregator twice; implements `EventRouter` | `MCUploadRouter` |
| `UploadRouter_proofs` | invariance, action and refinement proofs about `UploadRouter` | TLAPS |
| `Runner` | reader, loop and sender over any `EventRouter` | `MCRunner` with two configurations |
| `Runner_proofs` | invariance and progress proofs about `Runner` | TLAPS |
| `EvidenceStore` | tables, cache and restart of the repository | `MCEvidenceStore` |
| `EvidenceStore_proofs` | invariance proofs about `EvidenceStore` | TLAPS |
| `ServerIngest` | concurrent handlers over `EvidenceStore`, processor and levels | `MCServerIngest` with four configurations |
| `ServerIngest_proofs` | invariance proofs about `ServerIngest` | TLAPS |
| `BehaviorEngine` | the behaviors derived from all events, as operators | through `DetectionPipeline` |
| `IncidentCorrelation` | the incidents correlated from the behaviors, as operators | through `DetectionPipeline` |
| `CollectionManager` | the levels and their windows, as operators | through `DetectionPipeline` |
| `DetectionPipeline` | the pipeline over these three and a clock | `MCComponents` with two configurations |
| `Detection_proofs` | invariance proofs about `DetectionRules` and `DetectionPipeline` | TLAPS |
| `ToolGateway` | one call of a tool: checks, cursor, cache, audit, budget, paging | through `AgentController` |
| `AgentController` | one investigation: plan, tasks, decisions, calls, report | `MCAgentController` with two configurations |
| `AgentController_proofs` | invariance and progress proofs about `AgentController` and its gateway | TLAPS |
| `FoldFacts` | what a fold over a finite set computes; induction over numbers | TLAPS |

An MC module only gives the constants small values. `MCComponents` holds four
components that share no state; a behavior of it is one of one component, so
that one run explores them all without their product. A definition whose comment
says *Faulty* is a plausible bug of the definition that follows it; no
specification uses one. `PROJECT.json` names for each property of each passing
run the faulty definition that breaks it, and maps every definition to its
source lines.

### The collector

`RollingBuffer` keeps the code's two list structures as sequences and its two
counters as numbers, so that the bookkeeping is a property and not an
assumption; an absent map entry is `<<>>` or 0. Every operator follows one
method; `Add` is expiry, push, the scope's eviction loop and the global one, in
this order. The clock and the time of a call are separate variables: `Process`
passes the present, `Flush` passes the moment a tick fired, which lies up to
`Lag` behind.

`EventAggregator` keeps the code's order list; the map beside it holds the same
buckets. `Observe` advances the clock, because two events are never processed at
the same nanosecond; without this two summaries of one key could share an
identity.

`UploadRouter` has one action `Process` with one alternative per upload mode,
and `Flush`. Each ends with the closing `Stats` call of the code (`Settle`),
which expires entries and counts them. An event is its number; its type, scope
and the verdict of the detection are taken from a small set of templates.
Results are sets, because the runner treats them alike in any order.

`EventRouter` states what remains visible to the runner: an event is in the
router's context, in a bucket, kept on the host for good, or in the result of
the call. `UploadRouter` is shown to implement it, with the promotable part of
the buffer as `context` and the latest events of a key as its bucket.

`Runner` builds on that interface. Its actions are the blocking points of the
two goroutines: a read, the hand-over to the channel, each case of the select,
each item of `enqueue`, the parts of `flushAll`, and a request, its answer and
the back-off of `Send`. A request may be answered, refused, or accepted with the
answer lost. The variables `submitted`, `delivered` and `abandoned` are the
metric, the server's view and the events the reader gave up.

`DetectionRules` has three parties: whoever edits the file and signals, the
reloader (take the signal, read, compile and publish, or stop), and the router's
`Evaluate`, which loads the snapshot once and then goes rule by rule. `Compile` is
`compileDetectionSnapshot` with its order of checks and its two sorted lists; what
a condition says of an event is a constant. The router model takes the verdict of
an event as a constant in turn.

### The server

`EvidenceStore` has the tables (`db`) and the cache. A write is `ok`, `failed`
or `unknown`: committed, but reported as a failure, which is what a timeout
means. A crash between table and cache is an unknown write followed by
`Restart`. `promised` is history: what callers were told is stored. Alert rows
of an earlier version have no source; loading fills it in.

`ServerIngest` has a set of handlers; each works through the calls of
`IngestCollectorBatch` and `IngestMany` one at a time: `Process` an event,
`StoreEvent`, `Snapshot`, `StoreBehaviors`, the local alerts, correlation, the
incident's alert, `Investigate`, then the collector's alerts and `Answer`. A
batch may be posted again at any time, also while it is being handled, which is
how a retry after a lost answer looks to the server. A request may begin with
`Service.Reset`, or be nothing else: `ResetStore`, `ResetProcessor` and
`ResetLevels` are steps of their own. `ReadIncident` begins an investigation on
request, which stores the incident as it was read. `Restart` clears all that
is in memory. Three history variables make the promises statable beside resets:
`cut` marks a request another's reset fell into (its answer promises nothing),
`wiped` the events stored before a reset, which requests and a cache after a
reset of unknown outcome may still write about, `torn` the scopes whose incident
may have lost its alert that way.

`BehaviorEngine`, `IncidentCorrelation` and `CollectionManager` are operators:
`Derive` finds each behavior in the whole set of events, those that relate two or
three events included; `Correlate` takes the first web shell of a scope and what
follows in its window; `Set` raises or renews a level, for one behavior after
another in the order of their times. `DetectionPipeline` posts
events in any order, runs the three as `RunPipeline` does, and lets the server's
clock advance on its own. It has one request at a time, because the interleavings
are `ServerIngest`'s; there an event's behaviors are a constant and the incident is
one per scope, so the two models divide what their product would make too large.

### The investigation

`ToolGateway` follows `Gateway.Invoke` in its order: what is refused, the cache,
what keeps a call from the adapter, the call itself with its budget, and the
audit record without which no result is handed out. A query is the arguments of
a call without its cursor; a cursor is the query it belongs to and an offset.
`Page` is `EventAdapter.Query` with its chunks, its limit and its scan cap, so
that whether a sequence of pages is complete is a result and not an assumption.

`AgentController` has one action per blocking point of `Controller.Run` and
`executeTask`: the planner's answer, a step of a pass over the plan, the
executor's answer (one action per kind, `ChooseInvalid` for what `ValidateAction`
refuses), a call of the gateway, what is done with its result, and the analyzer's
answer. The models choose freely among plans, calls and findings, valid or not.
`whole` is history: which task got the complete result of which query. `audited`
is the audit log, as far as it holds results.

## Runs

| Run | Bounds | Why they are enough |
|---|---|---|
| components | buffer: 2 scopes, sizes 1, 2, 4, limits 3 and 5, TTL 2, lag 1, 4 entries; aggregator: 3 keys for 2 buckets, window 3, 6 ticks; rules: 6 files, 3 events, at most 3 rules, 2 edits; pipeline: 9 events, a minute of 2, a correlation window of 5, levels of 1, a clock to 3 | one size fits no scope, two entries fill one, both limits bind in different orders, an entry can expire behind a younger one; a key is evicted and comes back, a window ends by an event and by a flush; two edits and their signals overlap one reload and one evaluation, and the files are missing, cut off, refused and valid; the events are one chain with a second shell, a second download and a container of the same host, and the clock outlasts every level |
| router | 7 templates, 2 scopes, 4 events | one template per branch of the policy and per scope; an alert, context before and after it, and an eviction fit into four events |
| runner | 3 events, batch 2, channel 1, 1 retry, 1 key | a full channel, a full and a partial batch, a failed first and second attempt, a bucket that is emitted and starts again; more keys are left to the proofs |
| store | 2 events, 4 alerts over 2 keys, 1 incident, old rows | two sources of one key, an open and a closed alert of another, every outcome at every call |
| ingest | 2 handlers, 5 batches of which 2 reset, 3 requests, 1 fault, 1 restart | a retry, a reset and a concurrent request around one failure and one restart; more of each is left to the proofs |
| agent | 10 plans of 1 or 2 tasks, 5 tools, 6 queries, chunks of 2, scan cap 4, 4 decisions, 5 calls | six plans are valid and four are not, each for another reason; a query takes one page, several, or an empty one that ends at the cap; a retry and a repair fit in, and the budget runs out before the decisions of two tasks do |

`detection_chain`, `runner_shutdown`, `ingest_retry`, `ingest_behaviors`,
`ingest_one_alert` and `agent_audit` each check one sentence of the repository's
documents that the code does not keep. The counterexamples use batches the
collector sends: an alert travels with its event. See `findings` in
`PROJECT.json`:

- *The four behaviors in one window make an incident* fails when an earlier web
  shell of the scope is stored: only the first one starts a window. What an
  incident claims holds: `IncidentsJustified`.
- *A failed send is not passed off as success* fails when the failure meets a
  cancellation: `main` exits 0 on any error once its context is cancelled.
- *A retried batch is idempotent* fails when storing an event fails: the
  processor has already marked the event, so the retry is a duplicate and is
  answered 201. With an alert of that event in the batch the retry is answered
  400 for good.
- *Behaviors are the view of all current events* fails when two pipelines
  overlap: the older snapshot is written last.
- *One alert per key* fails after a write of unknown outcome and a restart.
- *An investigation stops at a failed audit write* fails: the call gets an error,
  and the task's next decision calls the tools again. What the sentence is for
  holds: `EvidenceAudited`.

Deadlock is checked where the system never stops (store) and in the agent runs,
whose last state is the action `Over`. The router ends at its forced flush, the
runner when `Run` returns, `ServerIngest` when its bound of requests is used up,
and in `MCComponents` the collector of the rules exits and the others reach their
bounds of entries or time.

Bounds on the data (`MaxAdds`, `MaxEvents`, `MaxTime`, `MaxRequests`,
`MaxFaults`, `MaxRestarts`) are guards of the actions that would pass them.

## Fairness

Safety runs assume none. `FairSpec` of `Runner` assumes:

- weak fairness of the loop: the goroutine runs when it can, a request ends by
  an answer or by the client's timeout of five seconds, a back-off ends;
- strong fairness of the cases `ctx.Done`, a received event, the closed channel
  and each batch ticker: Go's select picks at random among the ready cases, so a
  case that is ready again and again is taken; it may be disabled in between,
  while a send blocks the loop;
- weak fairness of the reader's hand-over and of the failing read of a closed
  source.

`FairSpec` of `AgentController` assumes weak fairness of `Next` only: a model call
ends by its answer, its timeout of 25 seconds or its third try, an adapter reads
from memory, and the controller is one goroutine. Which alternative is taken is
never assumed: `Ends` holds whatever the models choose.

Nothing is assumed of the source before it is closed, of the server's answers,
or of the signal.

## Proofs

`FoldFacts` is what the other proofs share. The models filter, sum and scan lists
with the folds of the community modules; the module shows that the recursion those
are defined by has exactly one solution on a finite set, so that a fold can be
unfolded by one element. Its parameters are the operators of the fold, and each use
is an `INSTANCE`. Induction is stated there over *sets* of numbers: a proof defines
the set of lengths for which its claim holds and shows that this is all of `Nat`.

`CollectorStores_proofs` holds the theorems of the two stores the router composes.
Of `RollingBuffer` it proves `Bookkeeping`, `WithinLimits`, `BoundedStaleness` and
the action property `FairEviction`, from `BufferAssumption` (positive limits, that
of a scope within the global one, as `NewRollingBuffer` clamps them) and
`CallAssumption` (sizes and the lag are natural numbers), for any scopes, sizes,
limits and number of entries. The inductive invariant `BufferInv` adds to them
that the global list is in order of arrival without repetition, that each scope's
list is the filter of the global one, and that no entry is later than the clock.
The limits alone are not inductive: the eviction loops stop by the counters, so
that these must be the sums of what the lists hold; and staleness needs the order,
because expiry stops at the first young entry, with `Lag` as the price of calls
that come late. `AddFacts`, `PromoteFacts` and `ExpireFacts` say what the methods
do to any sound buffer.

Of `EventAggregator` it proves `CountsConserved` and `SummaryIdentitiesDistinct`,
from `AggregatorAssumption` (a positive window and key limit, as
`NewEventAggregator` defaults them), for any keys and number of events. Conservation
needs that a key has one bucket at a time, because the code finds a bucket by its
key and a flush takes whole buckets out; `AddCounts` and `FlushCounts` state it for
one call. Identities are not inductive: that two summaries differ follows from the
order in which the buckets of a key start. `AggregatorInv` says that every summary
of a key starts before its open bucket, and that nothing starts in the future; a
fresh bucket starts at the call, later than all before it. First observations alone
tell the summaries apart; the last one in the hash is not needed.

`UploadRouter_proofs` proves `BufferCustody`, `AlertedScopeHoldsNoContext` and
`LocalOnlyStaysLocal`, the action properties `RoutedOnce` and `AlertBringsContext`,
and that the router implements `EventRouter` (`ImplementsEventRouter`), from
`RouterAssumption`, which states the defaults and clamps of `NewUploadRouter` and
`NewRollingBuffer`. Every call is first shown to be a *turn*: what it adds to the
buffer, takes out of it, evicts and routes, whatever the order in which the code
does this. The invariant `RouterInv` adds to the three: the buffer is sound and
what it holds are context events received and local-only summaries made, each once
(`HeldInv`), so that a new one is never mistaken for an old one; each aggregator is
a list of buckets of distinct keys (`Collects`), the first one's of events that
were to be aggregated; and only events of the two modes that allow it were
uploaded. The refinement maps the initial state
to the initial state of `EventRouter`, and `Process` and `Flush` to its actions of
these names, with the promotable part of the buffer as `context`.

`Runner_proofs` proves `RunnerTypeOK`, `NothingLost`, `NothingTwice`,
`OneBatchInDoubt`, `CleanReturnComplete` and `SourceFailureReported` for every
value of the constants, from `RunnerAssumption` and the finiteness the
specification's sets have by construction. `NothingTwice` is not inductive by
itself: that a batch's events are disjoint needs the items within `routed` and
within each batch to be disjoint, and the events not yet read to be nowhere. The
inductive invariant adds these, the relation between the reader's state, the
error channel and `sourceErr` (for `SourceFailureReported`), and what holds in
each phase of the shutdown (for `CleanReturnComplete`). There is one lemma per
action. Two more results have no run of their own:

- `BatchesBounded`: no batch exceeds `BatchSize`, although one call of the router
  may return more items than that. Only the batch being sent may be full, and the
  loop looks at the next item only after the send.
- `ShutdownComesCloser`: once the shutdown flush has begun, every step lowers the
  distance to the return of `Run`, in lexicographic order: the signals that may
  still come, the return itself, the items to enqueue, the batches to send, the
  attempts of the send, the parts of an attempt. It needs that no empty batch is
  sent, since a send of nothing would leave as many batches as before. This is the
  part of `StopsWhenTold` that needs no fairness: the flush has no loop. The part
  before it does need it, because the case `ctx.Done` stays ready in the `select`.

`EvidenceStore_proofs` proves `StoreTypeOK`, `PromiseKept`,
`DurableBeforeVisible` and `NoSecondAlert` from `StoreAssumption`. `PromiseKept`
alone says that tables and cache each have an open alert with the promised
evidence, which a merge into the cache's row could break if they were different
rows. The inductive invariant therefore says that one and the same open alert
holds it in both, and that a row's key is its identity's.

`Detection_proofs` is about detection on both sides. Of `DetectionRules` it proves
`FollowsFile` for any files, conditions, events and
number of edits. It is inductive together with what the reloader holds: the data
it has read is a content the file had, and the present one unless a later edit or
a waiting signal says otherwise. It also proves `OneRuleSet`, for files whose rules
are numbered and have integer priorities (`RulesAssumption`, the types of
`DetectionRuleSpec`). Here the invariant says that an evaluation under way walks
the lists of one valid file, in force when it began, and that none of its blacklist
held if it has come to the whitelist. That the first match of the lists is what the
file promises is a lemma of its own: the rules of a kind have distinct ids, so they
can be sorted in one way only, and the first that holds precedes all others that do.

Of `DetectionPipeline` it proves `LevelsTimely` and `IncidentsJustified`, from
`PipelineAssumption`: event times are integers, a batch is a finite set of events,
and the two windows are natural numbers, as `config.go` bounds them. Events,
batches, scopes, paths, windows and the server's time are otherwise arbitrary.

- `LevelsTimely` is not inductive: whether a level may be replaced depends on when
  it ends. `LevelsInv` says that INVESTIGATION ends with the window of the last
  finding that called for it, and that another level is held only after that
  window. A pipeline observes its behaviors one after another, each with what the
  one before left; `ObservedIs` shows by induction over the fold that a scope's
  policy is then `After`, which asks only which behaviors there were: so the order
  the code gives events of equal times does not matter.
- `IncidentsJustified` needs that an incident found among fewer events stays
  justified when more are stored, though its first web shell or the file that
  counts as the download may be another by then (`GroundsKept`), and that what one
  pipeline finds is justified by what it read (`CorrelatedGrounds`). The code's
  choices of a first web shell and a first file exist because a finite set of
  events has one of least time (`LeastOf`).

`ServerIngest_proofs` proves the six invariants of the run `ingest` for any events,
batches, handlers, outcomes, resets and restarts, from `IngestAssumption`. None but
the type invariant is inductive by itself, and they hold only together:

- What 201 says of the events (`AckedAccountedFor`) rests on the marks, because a
  request skips an event another has marked; so every marked event is stored, in
  flight or dropped (`MarksMatchStore`), and a request no reset fell into has only
  such events behind it (`Behind`). The marks are wrong while a reset is half done;
  `Apart` says that a request that is not `cut` never meets that.
- `EvidenceBacked` and `BehaviorsBacked` need every request's snapshot to hold only
  events that are or were stored (`Clean`), and the alert an investigation has in
  hand to be stored under the scope's key or to be torn away (`Rooted`).
- `AckedAlertsKept` speaks of readers and tables separately; a merge preserves it
  only if one and the same row holds the event in both (`Kept`).

The calls of the repository have their lemmas first, then each step of a request
has one.

`AgentController_proofs` proves eight results for any plans, tools, queries, events
and bounds. `BudgetKept` uses `GatewayAssumption` (registered tools, positive sizes,
a scan cap of whole chunks); `WholeQueriesAnswered`, `TypeCorrect` and the last two
use it and `ControllerAssumption` (the investigation's tools are registered, its
limits positive), the others no assumption:

- `BudgetKept`: calls counted never pass the budget; the gateway is the only one
  to count them.
- `AuditedEvidence` (`EvidenceAudited`): the invariant adds that the evidence of
  the answer under way is audited already, since a step lies between the answer
  and its registration, and that there is no such answer outside that step.
- `GroundedFindings` (`Grounded`): what was valid when it was checked stays valid
  because evidence is never withdrawn; the invariant adds that the references a
  task has collected are registered, from which the automatic findings follow.
- `HonestStatuses` (`StatusesHonest`): `Ordered` says that ids are distinct, that
  only the task the pass stands at is executed and has no result yet, and that a
  status is explained by results that exist already, so that no later result can
  undo the explanation.
- `WholeQueriesAnswered` (`WholeQueries`): a last page completes a query only if
  the pages before it were taken in, by this task and of this very query. `Paged`
  says that every cursor a task holds, and the one of its call, has all selected
  events before it among the task's evidence, and that an answer covers the events
  from its cursor to where the next page begins. The latter is a lemma about the
  adapter (`ScanJoined`), by induction over the chunks it reads: wherever the limit
  or the scan cap cuts a page, no event is left out.
- `TypeCorrect` (`AgentTypeOK`): decisions, attempts and calls stay within their
  bounds; it uses `Ordered`, since a result is recorded for the task of the pass.
- `SchedulerNeverStalls`: no pass over the plan ends without progress, so that the
  controller's error `SCHEDULER_STALLED` cannot occur. A pass without progress has
  found every task finished or waiting for one that is not (`Unstalled`), so the
  finished tasks are a set that contains each task whose dependencies it contains.
  `ResolvedLeast` shows that what `ValidatePlan` resolves lies in every such set, by
  induction over its two nested folds (`Stays` of `FoldFacts`); as it accepts only
  plans of which all is resolved, no task would be left.
- `EndComesCloser`: every step lowers the distance to the end of the run, in
  lexicographic order: the stage of the run, the passes over the plan (twice the
  tasks not started, and one if this pass made progress), the tasks this pass has
  not visited, the decisions of the task, the calls of the decision. No answer, retry
  or repair of the models and tools can make a run endless. With
  `SchedulerNeverStalls` this is the part of `Ends` that needs no fairness: a run that
  keeps taking steps reaches its end, and no plan it accepted stops it before the
  report.

Only model-checked: liveness (`Ends`, `StopsWhenTold`, `HighUploaded`), which is
beyond the prover: it handles neither `ENABLED` nor fairness. What is proved of the
first two are the measures above, which every step lowers; that there is a next step,
and that it is taken, is left to the runs. Recursive operators
are beyond it too, and none is used where something is proved.

## Not modelled

- The kernel side, BPF loading, `/proc` lookups, transformation and gzip: I/O
  and data formats.
- The runner's fallback without a router (the binary always sets one), samples
  discarded as undecodable, log output and metrics values.
- In the router: payload annotations; sizes inside the buffer are one there
  (`RollingBuffer` has the sizes).
- In the repository: severity and rule ids of merged alerts, which are merged
  like evidence; timestamps.
- In ingestion: payload changes by the processor (temp file cache, process start
  stabilisation), and alerts of API clients whose `event_ids` name other events,
  which `acceptCollectorAlerts` does not look up: the collector's name their own.
- In the server's detection: titles, subjects, objects and entity lists, and the
  order the code gives events of equal times.
- In the collector's detection: CEL itself, metrics and the text of a decision.
- Queries of the API, which read one snapshot each.
- In the investigation: the scope and the entities an incident is turned into,
  prompts, redaction, the size limit of a result, adapters no investigation is
  given, log writes whose failure the code ignores, and the HTTP request of a
  model call, of which only the outcome is left.
- Web console, replay and scenario drivers, configuration parsing.

## Plan

Built first, because data loss is decided there: buffer, aggregator and router,
then the runner over them, the repository, ingestion over it, the investigation,
and then both detections and the resets. What is left, in this order:

1. Collector and server together: `Runner` and `ServerIngest` over one abstract
   delivery specification (at least once, and once stored), shown to be
   implemented by both sides.
2. The processor's temp file cache and process start stabilisation, which change
   what an event says and so what `BehaviorEngine` finds.
