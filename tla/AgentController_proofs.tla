------------------------ MODULE AgentController_proofs ------------------------
(***************************************************************************)
(* Proofs about AgentController, for any plans, tools, events and bounds.  *)
(*                                                                         *)
(* StatusesHonest is not inductive: a task that succeeds later could undo  *)
(* the reason another was blocked for, and a result could be overwritten.  *)
(* Settled says that the reason is the result of a finished task, and      *)
(* Scheduled that only the task the pass stands at is executed, that it    *)
(* has no result yet, and that no other task of the plan has its id.       *)
(*                                                                         *)
(* Nor is WholeQueries: a last page completes a query only if the pages    *)
(* before it were taken in.  Paged says that each cursor a task holds, and *)
(* the one of its call, stands behind events the task knows already, and   *)
(* that an answer covers the events from its cursor on; that the adapter's *)
(* fold over chunks leaves no event out is shown with FoldFacts.           *)
(*                                                                         *)
(* The last two parts are about the end of a run: Unstalled says what a    *)
(* pass without progress has found, which no valid plan allows, and        *)
(* Distance is what every step lowers.                                     *)
(***************************************************************************)
EXTENDS AgentController, FiniteSetTheorems, SequenceTheorems, TLAPS

-----------------------------------------------------------------------------
(***************************************************************************)
(* The budget, the audit log and the evidence.                             *)
(***************************************************************************)

Budget == used \in 0..MaxToolCalls

\* The gateway reserves a call only while the budget lasts.
LEMMA InvokeWithinBudget ==
  ASSUME Budget, NEW task, NEW c, Invoke(task, c)
  PROVE  Budget'
<1> USE DEF Budget
<1>1. CASE UNCHANGED used
  BY <1>1
<1>2. CASE ~Spent /\ used' = used + 1
  BY <1>2, GatewayAssumption DEF Spent, GatewayAssumption
<1> QED
  BY <1>1, <1>2 DEF Invoke, Refuse, ServeCached, Withhold, Fetch

\* A run never queries its tools more often than its budget allows, retries and
\* repairs included (CounterBudget.ReserveToolCall).
THEOREM BudgetKept == Spec => []Budget
<1>1. Init => Budget
  BY GatewayAssumption DEF Init, GatewayInit, Budget, GatewayAssumption
<1>2. Budget /\ [Next]_vars => Budget'
  <2> SUFFICES ASSUME Budget, [Next]_vars PROVE Budget'
    OBVIOUS
  <2>1. CASE CallTool
    BY <2>1, InvokeWithinBudget DEF CallTool
  <2>2. CASE UNCHANGED used
    BY <2>2 DEF Budget
  <2> QED
    BY <2>1, <2>2 DEF Next, GiveUp, MakePlan, Visit, EndPass, ChooseCall, ChooseInvalid,
      Abandon, Finish, Reinvoke, Observe, Analyze, Over, vars, gatewayVars
<1> QED
  BY <1>1, <1>2, PTL DEF Spec

\* What the answer under way would register is in the log too; there is none but
\* between a call and what becomes of it.
Audited ==
  /\ evidence \subseteq audited
  /\ Evidence(work.task.id, call.query, answer.events) \subseteq audited
  /\ phase # "settle" => answer.events = {}

LEMMA NoEvidence ==
  ASSUME NEW task, NEW q
  PROVE  Evidence(task, q, {}) = {}
BY DEF Evidence

LEMMA AnswerFields ==
  /\ NoAnswer.events = {}
  /\ \A code, retry : Failure(code, retry).events = {}
  /\ \A page : Result(page).events = page.events
<1>1. NoAnswer.events = {}
  BY Zenon DEF NoAnswer
<1>2. \A code, retry : Failure(code, retry).events = {}
  BY DEF NoAnswer, Failure
<1>3. \A page : Result(page).events = page.events
  BY DEF NoAnswer, Result
<1> QED
  BY <1>1, <1>2, <1>3

\* An answer carries no evidence that is not in the audit log.
LEMMA InvokeAudits ==
  ASSUME NEW task, NEW c, Invoke(task, c)
  PROVE  /\ audited \subseteq audited'
         /\ Evidence(task, c.query, answer'.events) \subseteq audited'
<1>1. ASSUME NEW code, NEW retry, answer' = Failure(code, retry), UNCHANGED audited
      PROVE  answer'.events = {} /\ audited \subseteq audited'
  BY <1>1, AnswerFields
<1>2. ASSUME NEW written, Deliver(task, c, written)
      PROVE  /\ audited \subseteq audited'
             /\ Evidence(task, c.query, answer'.events) \subseteq audited'
  <2>1. CASE written
    <3> DEFINE events == Page(c.query, c.cursor.offset).events
    <3>1. audited' = audited \union Evidence(task, c.query, events)
      BY <1>2, <2>1 DEF Deliver
    <3>2. answer'.events = events
      BY <1>2, <2>1, AnswerFields DEF Deliver
    <3> QED
      BY <3>1, <3>2
  <2>2. CASE ~written
    BY <1>2, <2>2, NoEvidence, AnswerFields DEF Deliver
  <2> QED
    BY <2>1, <2>2
<1>3. CASE Refuse(c)
  BY <1>1, <1>3, NoEvidence DEF Refuse, Refusals
<1>4. CASE ServeCached(task, c)
  BY <1>2, <1>4 DEF ServeCached
<1>5. CASE Withhold(task, c)
  BY <1>1, <1>5, NoEvidence DEF Withhold
<1>6. CASE Fetch(task, c)
  BY <1>1, <1>2, <1>6, NoEvidence DEF Fetch
<1> QED
  BY <1>3, <1>4, <1>5, <1>6 DEF Invoke

\* No evidence reaches the models unless the audit log has the result it came
\* with (Gateway.Invoke).
THEOREM AuditedEvidence == Spec => []EvidenceAudited
<1>1. Init => Audited
  <2>1. Init => evidence = {} /\ answer.events = {}
    BY AnswerFields DEF Init, GatewayInit
  <2> QED
    BY <2>1, NoEvidence DEF Audited
<1>2. Audited /\ [Next]_vars => Audited'
  <2> SUFFICES ASSUME Audited, [Next]_vars PROVE Audited'
    OBVIOUS
  <2> USE DEF Audited
  <2>1. CASE CallTool
    BY <2>1, InvokeAudits DEF CallTool
  <2>2. CASE Observe \/ Reinvoke
    <3>1. evidence' = evidence
            \/ evidence' = evidence \union Evidence(work.task.id, call.query, answer.events)
      BY <2>2 DEF Observe, Reinvoke, Found
    <3>2. audited' = audited /\ answer'.events = {}
      BY <2>2, AnswerFields DEF Observe, Reinvoke
    <3> QED
      BY <3>1, <3>2, NoEvidence
  <2>3. CASE phase # "settle" /\ phase' # "settle" /\ UNCHANGED <<evidence, audited, answer>>
    BY <2>3, NoEvidence
  <2>4. CASE UNCHANGED vars
    BY <2>4 DEF vars, agentVars, gatewayVars
  <2>5. GiveUp \/ MakePlan \/ Visit \/ EndPass \/ ChooseCall \/ ChooseInvalid \/ Abandon
          \/ Finish \/ Analyze
        => phase # "settle" /\ phase' # "settle" /\ UNCHANGED <<evidence, audited, answer>>
    BY DEF GiveUp, MakePlan, Visit, Pass, Block, Start, EndPass, ChooseCall, ChooseInvalid,
      Abandon, Finish, Analyze, EndRun, DecideAgain, Partial, EndTask, gatewayVars
  <2> QED
    BY <2>1, <2>2, <2>3, <2>4, <2>5 DEF Next, Over
<1>3. Audited => EvidenceAudited
  BY DEF Audited, EvidenceAudited
<1> QED
  BY <1>1, <1>2, <1>3, PTL DEF Spec

-----------------------------------------------------------------------------
(***************************************************************************)
(* Findings.                                                               *)
(***************************************************************************)

\* Evidence is never withdrawn, so what was supported stays so.
LEMMA StillSupported ==
  ASSUME NEW f, Supported(f), evidence \subseteq evidence'
  PROVE  Supported(f)'
BY DEF Supported

\* What validateFindings lets pass is supported.
LEMMA ValidSupported ==
  ASSUME NEW f, ValidFinding(f)
  PROVE  Supported(f)
BY DEF Supported, ValidFinding

\* So is the copy of a registered fact.
LEMMA CopySupported ==
  ASSUME NEW e \in evidence
  PROVE  Supported(Copy(e))
BY DEF Supported, Copy

Backed ==
  /\ "refs" \in DOMAIN work /\ work.refs \subseteq evidence
  /\ Grounded

\* A task starts and ends knowing no evidence, and a decision is counted without
\* changing what is known.
LEMMA NoWorkRefs == "refs" \in DOMAIN NoWork /\ NoWork.refs = {}
<1>1. "refs" \in DOMAIN NoWork
  BY Zenon DEF NoWork
<1>2. NoWork.refs = {}
  BY Zenon DEF NoWork
<1> QED
  BY <1>1, <1>2

LEMMA StepRefs ==
  ASSUME NEW next, "refs" \in DOMAIN next
  PROVE  /\ "refs" \in DOMAIN [next EXCEPT !.step = @ + 1]
         /\ [next EXCEPT !.step = @ + 1].refs = next.refs
OBVIOUS

LEMMA KnownRefs ==
  ASSUME "refs" \in DOMAIN work, NEW c, NEW k, NEW r
  PROVE  /\ "refs" \in DOMAIN [work EXCEPT !.completed = c, !.cursors = k, !.refs = r]
         /\ [work EXCEPT !.completed = c, !.cursors = k, !.refs = r].refs = r
OBVIOUS

\* A result recorded with supported findings leaves all of them so.
LEMMA RecordGrounded ==
  ASSUME Backed, evidence \subseteq evidence', NEW id, NEW result, Record(id, result),
         \A f \in result.findings : Supported(f)'
  PROVE  \A i \in DOMAIN results' : \A f \in results'[i].findings : Supported(f)'
<1> SUFFICES ASSUME NEW i \in DOMAIN results', NEW f \in results'[i].findings
             PROVE  Supported(f)'
  OBVIOUS
<1>1. CASE i = id
  BY <1>1 DEF Record
<1>2. CASE i # id
  <2>1. i \in DOMAIN results /\ f \in results[i].findings
    BY <1>2 DEF Record
  <2> QED
    BY <2>1, StillSupported DEF Backed, Grounded
<1> QED
  BY <1>1, <1>2

\* The two ways a decision ends.
LEMMA EndTaskBacked ==
  ASSUME Backed, evidence \subseteq evidence', NEW result, EndTask(result), report' = report,
         \A f \in result.findings : Supported(f)'
  PROVE  Backed'
<1>1. "refs" \in DOMAIN work' /\ work'.refs = {}
  BY NoWorkRefs DEF EndTask
<1>2. \A i \in DOMAIN results' : \A f \in results'[i].findings : Supported(f)'
  BY RecordGrounded DEF EndTask
<1>3. \A f \in report'.findings : Supported(f)'
  BY StillSupported DEF Backed, Grounded
<1> QED
  BY <1>1, <1>2, <1>3 DEF Backed, Grounded

LEMMA PartialBacked ==
  ASSUME Backed, evidence \subseteq evidence', Partial, report' = report
  PROVE  Backed'
BY EndTaskBacked DEF Partial

\* Nothing but the evidence and the task's knowledge of it changes.
LEMMA UnchangedBacked ==
  ASSUME Backed, evidence \subseteq evidence',
         "refs" \in DOMAIN work', work'.refs \subseteq evidence',
         UNCHANGED <<results, report>>
  PROVE  Backed'
BY StillSupported DEF Backed, Grounded

LEMMA DecideAgainBacked ==
  ASSUME Backed, evidence \subseteq evidence', NEW next,
         "refs" \in DOMAIN next, next.refs \subseteq evidence',
         DecideAgain(next), report' = report
  PROVE  Backed'
<1>1. CASE Partial
  BY <1>1, PartialBacked
<1>2. CASE work' = [next EXCEPT !.step = @ + 1] /\ UNCHANGED results
  BY <1>2, StepRefs, UnchangedBacked
<1> QED
  BY <1>1, <1>2 DEF DecideAgain

\* Every finding rests on registered evidence, whatever the models answer
\* (validateFindings).
THEOREM GroundedFindings == Spec => []Grounded
<1>1. Init => Backed
  <2>1. Init => DOMAIN results = {}
    BY DEF Init
  <2>2. NoReport.findings = {}
    BY Zenon DEF NoReport
  <2> QED
    BY <2>1, <2>2, NoWorkRefs DEF Init, Backed, Grounded
<1>2. Backed /\ [Next]_vars => Backed'
  <2> SUFFICES ASSUME Backed, [Next]_vars PROVE Backed'
    OBVIOUS
  <2>1. CASE UNCHANGED <<work, evidence, results, report>>
    BY <2>1, UnchangedBacked DEF Backed
  <2>2. CASE Visit
    <3> DEFINE t == plan[visited + 1]
    <3>1. evidence' = evidence /\ report' = report
      BY <2>2 DEF Visit
    <3>2. CASE Pass(t)
      BY <3>1, <3>2, UnchangedBacked DEF Pass, Backed
    <3>3. CASE Block(t)
      BY <3>1, <3>3, RecordGrounded, StillSupported DEF Block, Backed, Grounded
    <3>4. CASE Start(t)
      <4>1. CASE UNCHANGED work
        BY <3>1, <3>4, <4>1, RecordGrounded, StillSupported DEF Start, Backed, Grounded
      <4>2. CASE work' = [NoWork EXCEPT !.task = t, !.step = 1] /\ UNCHANGED results
        <5>1. "refs" \in DOMAIN work' /\ work'.refs = {}
          BY <4>2, NoWorkRefs
        <5> QED
          BY <3>1, <4>2, <5>1, UnchangedBacked
      <4> QED
        BY <3>4, <4>1, <4>2 DEF Start
    <3> QED
      BY <2>2, <3>2, <3>3, <3>4 DEF Visit
  <2>3. CASE ChooseInvalid
    <3>1. evidence' = evidence /\ report' = report
      BY <2>3 DEF ChooseInvalid
    <3>2. CASE DecideAgain(work)
      BY <3>1, <3>2, DecideAgainBacked DEF Backed
    <3>3. CASE UNCHANGED <<results, work>>
      BY <3>1, <3>3, UnchangedBacked DEF Backed
    <3> QED
      BY <2>3, <3>2, <3>3 DEF ChooseInvalid
  <2>4. CASE Abandon
    BY <2>4, PartialBacked DEF Abandon
  <2>5. CASE Finish
    <3>1. evidence' = evidence /\ report' = report
      BY <2>5 DEF Finish
    <3>2. CASE DecideAgain(work)
      BY <3>1, <3>2, DecideAgainBacked DEF Backed
    <3>3. ASSUME NEW findings, NEW gaps, \A f \in findings : ValidFinding(f),
                 EndTask([status |-> "SUCCEEDED", findings |-> findings, gaps |-> gaps])
          PROVE  Backed'
      <4>1. \A f \in findings : Supported(f)'
        BY <3>1, <3>3, ValidSupported, StillSupported
      <4> QED
        BY <3>1, <3>3, <4>1, EndTaskBacked
    <3> QED
      BY <2>5, <3>2, <3>3 DEF Finish
  <2>6. CASE Observe
    <3>1. evidence' = evidence \union Found /\ report' = report
      BY <2>6 DEF Observe
    <3>2. work.refs \union Found \subseteq evidence'
      BY <3>1 DEF Backed
    <3> DEFINE copies == {Copy(e) : e \in work.refs \union Found}
               known == [work EXCEPT !.completed = NowCompleted, !.cursors = NowCursors,
                                     !.refs = @ \union Found]
    <3>3. CASE EndTask([status |-> "SUCCEEDED", gaps |-> FALSE, findings |-> copies])
      <4>1. \A f \in copies : Supported(f)'
        BY <3>2 DEF Supported, Copy
      <4> HIDE DEF copies
      <4> QED
        BY <3>1, <3>3, <4>1, EndTaskBacked
    <3>4. CASE DecideAgain(known)
      <4>1. "refs" \in DOMAIN known /\ known.refs = work.refs \union Found
        BY KnownRefs, Zenon DEF Backed
      <4> HIDE DEF known
      <4> QED
        BY <3>1, <3>2, <3>4, <4>1, DecideAgainBacked
    <3> QED
      BY <2>6, <3>3, <3>4 DEF Observe
  <2>7. CASE Analyze
    <3>1. UNCHANGED <<work, evidence, results>>
      BY <2>7 DEF Analyze
    <3>2. CASE UNCHANGED report
      BY <3>1, <3>2, UnchangedBacked DEF Backed
    <3>3. ASSUME NEW r \in Reports, NEW class, report' = [r EXCEPT !.class = class]
          PROVE  Backed'
      <4>1. \A f \in r.findings : Supported(f)
        BY CopySupported, ValidSupported DEF Reports, FallbackReport
      <4>2. report'.findings = r.findings
        BY <3>3 DEF Reports, FallbackReport
      <4>3. \A f \in report'.findings : Supported(f)'
        BY <3>1, <4>1, <4>2, StillSupported
      <4> QED
        BY <3>1, <4>3, UnchangedBacked, StillSupported DEF Backed, Grounded
    <3> QED
      BY <2>7, <3>2, <3>3 DEF Analyze
  <2> QED
    BY <2>1, <2>2, <2>3, <2>4, <2>5, <2>6, <2>7 DEF Next, GiveUp, MakePlan, EndPass,
      ChooseCall, CallTool, Reinvoke, Over, vars, agentVars
<1>3. Backed => Grounded
  BY DEF Backed
<1> QED
  BY <1>1, <1>2, <1>3, PTL DEF Spec

-----------------------------------------------------------------------------
(***************************************************************************)
(* The order of the tasks.                                                 *)
(***************************************************************************)

\* Why a finished task has the status it has.
Justified(t) ==
  IF results[t.id].status = "BLOCKED"
  THEN \E id \in t.deps : Finished(id) /\ results[id].status # "SUCCEEDED"
  ELSE \A id \in t.deps : Succeeded(id)

Settled == \A i \in 1..Len(plan) : Finished(plan[i].id) => Justified(plan[i])

\* The task the pass stands at can be executed.
Due(t) == ~Finished(t.id) /\ \A id \in t.deps : Succeeded(id)

Scheduled ==
  /\ visited \in Nat /\ "task" \in DOMAIN work
  /\ Busy => visited + 1 \in 1..Len(plan) /\ work.task = plan[visited + 1] /\ Due(work.task)

AllWhole == DOMAIN results = Ids(plan) /\ \A id \in DOMAIN results : Whole(results[id])

Ordered ==
  /\ plan \in Seq(Task)
  /\ \A i, j \in 1..Len(plan) : plan[i].id = plan[j].id => i = j
  /\ phase = "start" => visited = 0 /\ DOMAIN results = {}
  /\ phase = "report" => DOMAIN results = Ids(plan)
  /\ status = "COMPLETED" => phase = "over" /\ AllWhole
  /\ Settled /\ Scheduled

\* The first result of a task leaves the others, and their reasons, as they were.
LEMMA RecordSettled ==
  ASSUME Ordered, plan' = plan, NEW i \in 1..Len(plan), ~Finished(plan[i].id),
         NEW result, Record(plan[i].id, result),
         IF result.status = "BLOCKED"
         THEN \E id \in plan[i].deps : Finished(id) /\ results[id].status # "SUCCEEDED"
         ELSE \A id \in plan[i].deps : Succeeded(id)
  PROVE  Settled'
<1>1. \A id : Finished(id) => Finished(id)' /\ results'[id] = results[id]
  BY DEF Finished, Record
<1>2. Finished(plan[i].id)' /\ results'[plan[i].id] = result
  BY DEF Finished, Record
<1> SUFFICES ASSUME NEW j \in 1..Len(plan), Finished(plan[j].id)'
             PROVE  Justified(plan[j])'
  BY DEF Settled
<1>3. CASE j = i
  BY <1>1, <1>2, <1>3 DEF Justified, Succeeded
<1>4. CASE j # i
  <2>1. plan[j].id # plan[i].id
    BY <1>4 DEF Ordered
  <2>2. Finished(plan[j].id)
    BY <2>1 DEF Finished, Record
  <2>3. Justified(plan[j])
    BY <2>2 DEF Ordered, Settled
  <2> QED
    BY <1>1, <2>2, <2>3 DEF Justified, Succeeded
<1> QED
  BY <1>3, <1>4

LEMMA NoWorkTask == "task" \in DOMAIN NoWork
BY Zenon DEF NoWork

LEMMA StepTask ==
  ASSUME NEW next, "task" \in DOMAIN next
  PROVE  /\ "task" \in DOMAIN [next EXCEPT !.step = @ + 1]
         /\ [next EXCEPT !.step = @ + 1].task = next.task
OBVIOUS

LEMMA KnownTask ==
  ASSUME "task" \in DOMAIN work, NEW c, NEW k, NEW r
  PROVE  /\ "task" \in DOMAIN [work EXCEPT !.completed = c, !.cursors = k, !.refs = r]
         /\ [work EXCEPT !.completed = c, !.cursors = k, !.refs = r].task = work.task
OBVIOUS

\* The task under way gets its result only once, whatever it is.
LEMMA EndTaskOrdered ==
  ASSUME Ordered, Busy, NEW result, result.status # "BLOCKED", EndTask(result),
         UNCHANGED <<plan, status>>
  PROVE  Ordered'
<1>1. visited + 1 \in 1..Len(plan) /\ work.task = plan[visited + 1] /\ Due(work.task)
  BY DEF Ordered, Scheduled
<1>2. Settled'
  BY <1>1, RecordSettled DEF EndTask, Due
<1>3. phase' = "schedule" /\ visited' = visited + 1 /\ visited \in Nat
  BY DEF EndTask, Ordered, Scheduled
<1>4. Scheduled'
  BY <1>3, NoWorkTask DEF Scheduled, Busy, EndTask
<1>5. status # "COMPLETED"
  BY DEF Ordered, Busy
<1> QED
  BY <1>2, <1>3, <1>4, <1>5 DEF Ordered

\* A step within a task.
LEMMA SameTaskOrdered ==
  ASSUME Ordered, Busy, Busy', "task" \in DOMAIN work', work'.task = work.task,
         UNCHANGED <<plan, visited, results, status>>
  PROVE  Ordered'
<1>1. Settled'
  BY DEF Ordered, Settled, Justified, Finished, Succeeded
<1>2. Scheduled'
  BY DEF Ordered, Scheduled, Due, Finished, Succeeded
<1>3. status # "COMPLETED"
  BY DEF Ordered, Busy
<1> QED
  BY <1>1, <1>2, <1>3 DEF Ordered, Busy

LEMMA DecideAgainOrdered ==
  ASSUME Ordered, Busy, NEW next, "task" \in DOMAIN next, next.task = work.task,
         DecideAgain(next), UNCHANGED <<plan, status>>
  PROVE  Ordered'
<1>1. CASE Partial
  BY <1>1, EndTaskOrdered DEF Partial
<1>2. CASE /\ phase' = "decide" /\ work' = [next EXCEPT !.step = @ + 1]
           /\ UNCHANGED <<visited, results>>
  BY <1>2, StepTask, SameTaskOrdered DEF Busy
<1> QED
  BY <1>1, <1>2 DEF DecideAgain

\* What a pass over the plan does with a task.
LEMMA VisitOrdered ==
  ASSUME Ordered, Visit
  PROVE  Ordered'
<1> DEFINE t == plan[visited + 1]
<1>1. /\ phase = "schedule" /\ visited + 1 \in 1..Len(plan) /\ visited \in Nat
      /\ UNCHANGED <<plan, status>> /\ status # "COMPLETED"
  BY DEF Visit, Ordered, Scheduled
<1> HIDE DEF t
<1>2. ASSUME visited' = visited + 1, UNCHANGED <<phase, work>>, Settled'
      PROVE  Ordered'
  BY <1>1, <1>2 DEF Ordered, Scheduled, Busy
<1>3. CASE Pass(t)
  <2>1. Settled'
    BY <1>1, <1>3 DEF Pass, Ordered, Settled, Justified, Finished, Succeeded
  <2> QED
    BY <1>2, <1>3, <2>1 DEF Pass
<1>4. CASE Block(t)
  <2>1. \E id \in t.deps : Finished(id) /\ results[id].status # "SUCCEEDED"
    BY <1>4 DEF Block, Unmet
  <2>2. Settled'
    BY <1>1, <1>4, <2>1, RecordSettled DEF Block, t
  <2> QED
    BY <1>2, <1>4, <2>2 DEF Block
<1>5. CASE Start(t)
  <2>1. Due(t)
    BY <1>5 DEF Start, Unmet, Due, Succeeded
  <2>2. CASE /\ Record(t.id, [status |-> "PARTIAL", findings |-> {}, gaps |-> TRUE])
             /\ visited' = visited + 1 /\ UNCHANGED <<phase, work>>
    <3>1. Settled'
      BY <1>1, <2>1, <2>2, RecordSettled DEF Due, t
    <3> QED
      BY <1>2, <2>2, <3>1
  <2>3. CASE /\ work' = [NoWork EXCEPT !.task = t, !.step = 1]
             /\ phase' = "decide" /\ UNCHANGED <<visited, results>>
    <3>1. "task" \in DOMAIN work' /\ work'.task = t
      BY <2>3, NoWorkTask
    <3>2. Settled'
      BY <1>1, <2>3 DEF Ordered, Settled, Justified, Finished, Succeeded
    <3>3. Scheduled'
      BY <1>1, <2>1, <2>3, <3>1 DEF Scheduled, Due, Finished, Succeeded, t
    <3> QED
      BY <1>1, <2>3, <3>2, <3>3 DEF Ordered
  <2> QED
    BY <1>5, <2>2, <2>3 DEF Start
<1> QED
  BY <1>3, <1>4, <1>5 DEF Visit, t

LEMMA OrderedAlways == Spec => []Ordered
<1>1. Init => Ordered
  BY NoWorkTask DEF Init, Ordered, Settled, Scheduled, Busy
<1>2. Ordered /\ [Next]_vars => Ordered'
  <2> SUFFICES ASSUME Ordered, [Next]_vars PROVE Ordered'
    OBVIOUS
  <2>1. CASE GiveUp
    BY <2>1 DEF GiveUp, EndRun, Ordered, Settled, Scheduled, Busy, Justified, Finished, Succeeded
  <2>2. CASE MakePlan
    <3>1. ValidPlan(plan')
      BY <2>2 DEF MakePlan
    <3>2. DOMAIN results' = {} /\ visited' = 0 /\ phase' = "schedule" /\ UNCHANGED <<work, status>>
      BY <2>2 DEF MakePlan, Ordered
    <3>3. Settled' /\ Scheduled'
      BY <3>2 DEF Settled, Scheduled, Ordered, Finished, Busy
    <3>4. status # "COMPLETED"
      BY <2>2 DEF MakePlan, Ordered
    <3> QED
      BY <3>1, <3>2, <3>3, <3>4 DEF Ordered, ValidPlan
  <2>3. CASE Visit
    BY <2>3, VisitOrdered
  <2>4. CASE EndPass
    <3>1. /\ phase = "schedule" /\ visited' = 0 /\ UNCHANGED <<plan, results, work>>
          /\ phase' \in {"over", "report", "schedule"}
          /\ phase' = "report" => DOMAIN results = Ids(plan)
          /\ status' \in {status, "FAILED"}
      BY <2>4 DEF EndPass
    <3>2. Settled' /\ Scheduled'
      BY <3>1 DEF Ordered, Settled, Scheduled, Justified, Finished, Succeeded, Busy
    <3>3. status # "COMPLETED"
      BY <3>1 DEF Ordered
    <3> QED
      BY <3>1, <3>2, <3>3 DEF Ordered, Ids
  <2>5. CASE ChooseCall
    BY <2>5, SameTaskOrdered DEF ChooseCall, Busy, Ordered, Scheduled
  <2>6. CASE ChooseInvalid
    <3>1. Busy /\ UNCHANGED <<plan, status>>
      BY <2>6 DEF ChooseInvalid, Busy
    <3>2. CASE DecideAgain(work)
      BY <3>1, <3>2, DecideAgainOrdered DEF Ordered, Scheduled
    <3>3. CASE phase' = "call" /\ UNCHANGED <<visited, results, work>>
      BY <3>1, <3>3, SameTaskOrdered DEF Busy, Ordered, Scheduled
    <3> QED
      BY <2>6, <3>2, <3>3 DEF ChooseInvalid
  <2>7. CASE Abandon
    BY <2>7, EndTaskOrdered DEF Abandon, Partial, Busy
  <2>8. CASE Finish
    <3>1. Busy /\ UNCHANGED <<plan, status>>
      BY <2>8 DEF Finish, Busy
    <3>2. CASE DecideAgain(work)
      BY <3>1, <3>2, DecideAgainOrdered DEF Ordered, Scheduled
    <3>3. ASSUME NEW findings, NEW gaps,
                 EndTask([status |-> "SUCCEEDED", findings |-> findings, gaps |-> gaps])
          PROVE  Ordered'
      BY <3>1, <3>3, EndTaskOrdered
    <3> QED
      BY <2>8, <3>2, <3>3 DEF Finish
  <2>9. CASE CallTool
    BY <2>9, SameTaskOrdered DEF CallTool, Busy, Ordered, Scheduled
  <2>10. CASE Reinvoke
    BY <2>10, SameTaskOrdered DEF Reinvoke, Busy, Ordered, Scheduled
  <2>11. CASE Observe
    <3>1. Busy /\ UNCHANGED <<plan, status>>
      BY <2>11 DEF Observe, Busy
    <3> DEFINE known == [work EXCEPT !.completed = NowCompleted, !.cursors = NowCursors,
                                     !.refs = @ \union Found]
    <3>2. ASSUME NEW copies,
                 EndTask([status |-> "SUCCEEDED", gaps |-> FALSE, findings |-> copies])
          PROVE  Ordered'
      BY <3>1, <3>2, EndTaskOrdered
    <3>3. CASE DecideAgain(known)
      <4>1. "task" \in DOMAIN known /\ known.task = work.task
        BY KnownTask, Zenon DEF Ordered, Scheduled
      <4> HIDE DEF known
      <4> QED
        BY <3>1, <3>3, <4>1, DecideAgainOrdered
    <3> QED
      BY <2>11, <3>2, <3>3 DEF Observe
  <2>12. CASE Analyze
    <3>1. /\ phase = "report" /\ phase' = "over" /\ UNCHANGED <<plan, visited, results, work>>
          /\ status' = "COMPLETED" => \A id \in DOMAIN results : Whole(results[id])
      BY <2>12 DEF Analyze, EndRun
    <3>2. Settled' /\ Scheduled'
      BY <3>1 DEF Ordered, Settled, Scheduled, Justified, Finished, Succeeded, Busy
    <3> QED
      BY <3>1, <3>2 DEF Ordered, AllWhole, Ids, Whole
  <2>13. CASE UNCHANGED vars
    BY <2>13 DEF vars, agentVars, Ordered, Settled, Scheduled, Justified, Due, Finished,
      Succeeded, Busy, AllWhole, Ids, Whole
  <2> QED
    BY <2>1, <2>2, <2>3, <2>4, <2>5, <2>6, <2>7, <2>8, <2>9, <2>10, <2>11, <2>12, <2>13
    DEF Next, Over
<1> QED
  BY <1>1, <1>2, PTL DEF Spec

\* A task ran only after all it depends on succeeded, and was blocked only for
\* one that did not; a completed run has a whole result of each task
\* (Controller.Run and executeTask).
THEOREM HonestStatuses == Spec => []StatusesHonest
<1>1. Ordered => StatusesHonest
  <2> SUFFICES ASSUME Ordered PROVE StatusesHonest
    OBVIOUS
  <2>1. ASSUME NEW t \in ToSet(plan)
        PROVE  \E i \in 1..Len(plan) : t = plan[i]
    BY DEF Ordered, ToSet
  <2>2. ASSUME NEW i \in 1..Len(plan), Finished(plan[i].id)
        PROVE  Justified(plan[i])
    BY <2>2 DEF Ordered, Settled
  <2>3. ASSUME NEW t \in ToSet(plan), Executing(t)
        PROVE  \A id \in t.deps : Succeeded(id)
    BY <2>3 DEF Executing, Ordered, Scheduled, Due
  <2> QED
    BY <2>1, <2>2, <2>3 DEF StatusesHonest, Justified, Succeeded, Ordered, AllWhole
<1> QED
  BY <1>1, OrderedAlways, PTL

-----------------------------------------------------------------------------
(***************************************************************************)
(* The pages of a query.                                                   *)
(***************************************************************************)

\* The fold of Scan, over the number of chunks; p is the query and its offset.
ScanFold == INSTANCE FoldFacts
  WITH op <- LAMBDA p, x, y : ReadOn(p[1], p[2], y), f <- LAMBDA q, i : q[i],
       choose <- LAMBDA s : Max(s)

\* The events in scope of a query's tool, in the order they are read.
All(q) == Candidates[q.tool]

\* What a page holds once `scanned` events behind `offset` have been read.
Joined(q, offset, page) ==
  /\ page.scanned \in Nat /\ offset + page.scanned <= Len(All(q))
  /\ \A i \in (offset + 1)..(offset + page.scanned) :
       All(q)[i] \in q.wanted => All(q)[i] \in page.events
  /\ ~page.more => offset + page.scanned = Len(All(q))

\* A page ends within its chunk.
LEMMA FillingFits ==
  ASSUME NEW found, NEW E, NEW chunk \in Seq(E), NEW q
  PROVE  Filling(found, chunk, q) \in 0..Len(chunk)
<1> DEFINE full == {n \in DOMAIN chunk :
                 found + Cardinality({i \in 1..n : chunk[i] \in q.wanted}) = q.limit}
<1>1. full \in SUBSET (0..Len(chunk)) /\ Len(chunk) \in Nat
  OBVIOUS
<1>2. CASE full = {}
  BY <1>1, <1>2 DEF Filling
<1>3. CASE full # {}
  <2>1. Min(full) \in full
    <3> HIDE DEF full
    <3> QED
      BY <1>1, <1>3, ScanFold!Bounds DEF Min
  <2>2. Filling(found, chunk, q) = Min(full)
    BY <1>3 DEF Filling
  <2> QED
    BY <1>1, <2>1, <2>2
<1> QED
  BY <1>2, <1>3

\* Reading one more chunk leaves no event out, wherever the page is cut.
LEMMA ChunkJoined ==
  ASSUME NEW q, NEW E, All(q) \in Seq(E), NEW offset \in Nat, NEW page, Joined(q, offset, page)
  PROVE  Joined(q, offset, ReadChunk(q, offset, page))
<1>1. PICK all \in Seq(E) : all = All(q)
  OBVIOUS
<1>2. PICK from \in Nat : from = offset + page.scanned
  BY DEF Joined
<1>3. from <= Len(all) /\ Len(all) \in Nat
  BY <1>1, <1>2 DEF Joined
<1>4. PICK to : to = Min({from + ChunkSize, Len(all)})
  OBVIOUS
<1>5. to \in Nat /\ from <= to /\ to <= Len(all)
  <2>1. from + ChunkSize \in Nat /\ from <= from + ChunkSize
    BY GatewayAssumption DEF GatewayAssumption
  <2>2. to = from + ChunkSize \/ to = Len(all)
    BY <1>3, <1>4, <2>1 DEF Min
  <2>3. to <= Len(all)
    BY <1>3, <1>4, <2>1 DEF Min
  <2> QED
    BY <1>3, <2>1, <2>2, <2>3
<1>6. PICK chunk : chunk = SubSeq(all, from + 1, to)
  OBVIOUS
<1>7. /\ chunk \in Seq(E) /\ Len(chunk) = to - from
      /\ \A i \in 1..(to - from) : chunk[i] = all[from + i]
  BY <1>3, <1>5, <1>6
<1>8. PICK n : n = Filling(Cardinality(page.events), chunk, q)
  OBVIOUS
<1>9. n \in 0..Len(chunk)
  BY <1>7, <1>8, FillingFits
<1>10. PICK sub : sub = SubSeq(chunk, 1, n)
  OBVIOUS
<1>11. \A i \in 1..n : all[from + i] \in ToSet(sub)
  <2>1. DOMAIN sub = 1..n /\ \A i \in 1..n : sub[i] = chunk[i]
    BY <1>5, <1>7, <1>9, <1>10
  <2>2. ASSUME NEW i \in 1..n PROVE all[from + i] \in ToSet(sub)
    <3>1. i \in 1..(to - from)
      BY <1>5, <1>7, <1>9
    <3>2. sub[i] = all[from + i] /\ i \in DOMAIN sub
      BY <1>7, <2>1, <3>1
    <3> QED
      BY <3>2 DEF ToSet
  <2> QED
    BY <2>2
<1>12. PICK r : r = ReadChunk(q, offset, page)
  OBVIOUS
<1>13. /\ r.events = page.events \union (ToSet(sub) \intersect q.wanted)
       /\ r.scanned = page.scanned + n
       /\ r.more <=> n < Len(chunk) \/ from + Len(chunk) < Len(all)
  BY <1>1, <1>2, <1>4, <1>6, <1>8, <1>10, <1>12 DEF ReadChunk, All
<1>14. r.scanned \in Nat /\ offset + r.scanned = from + n
  <2>1. n \in Nat /\ page.scanned \in Nat
    BY <1>5, <1>7, <1>9 DEF Joined
  <2> QED
    BY <1>2, <1>13, <2>1
<1>15. offset + r.scanned <= Len(all) /\ (~r.more => offset + r.scanned = Len(all))
  BY <1>3, <1>5, <1>7, <1>9, <1>13, <1>14
<1>16. ASSUME NEW i \in (offset + 1)..(offset + r.scanned), all[i] \in q.wanted
       PROVE  all[i] \in r.events
  <2>1. CASE i <= from
    <3>1. i \in (offset + 1)..(offset + page.scanned)
      BY <1>2, <1>14, <2>1
    <3> QED
      BY <1>1, <1>13, <1>16, <3>1 DEF Joined
  <2>2. CASE i > from
    <3>1. i - from \in 1..n /\ i = from + (i - from)
      BY <1>7, <1>5, <1>9, <1>14, <2>2
    <3> QED
      BY <1>11, <1>13, <1>16, <3>1
  <2> QED
    BY <2>1, <2>2
<1> QED
  BY <1>1, <1>12, <1>14, <1>15, <1>16 DEF Joined

\* EventAdapter.Query's loop is such a fold.
LEMMA ScanIs ==
  ASSUME NEW q, NEW offset, NEW s, s = [k \in 1..(ScanCap \div ChunkSize) |-> k]
  PROVE  Scan(q, offset) = ScanFold!FoldOf(<<q, offset>>, s, NothingRead, DOMAIN s)
BY DEF Scan, FoldLeft, ScanFold!FoldOf, MapThenFoldSet, ScanFold!MapThenFoldSet

\* A whole page leaves no event out: induction over the chunks read.
LEMMA ScanJoined ==
  ASSUME NEW q, NEW E, All(q) \in Seq(E), NEW offset \in 0..Len(All(q))
  PROVE  Joined(q, offset, Scan(q, offset))
<1>0. ScanCap \div ChunkSize \in Nat
  BY GatewayAssumption DEF GatewayAssumption
<1>1. PICK n \in Nat : n = ScanCap \div ChunkSize
  BY <1>0
<1>2. PICK s : s = [k \in 1..n |-> k]
  OBVIOUS
<1>3. DOMAIN s = 1..n
  BY <1>2
<1>4. ScanFold!IsFiniteSet(1..n)
  <2>1. IsFiniteSet(1..n)
    BY FS_Interval
  <2> QED
    BY <2>1 DEF IsFiniteSet, ScanFold!IsFiniteSet
<1>5. ScanFold!Chooses(1..n)
  BY ScanFold!Bounds, SUBSET (1..n) \subseteq SUBSET (0..n) DEF Max, ScanFold!Chooses
<1> DEFINE Fold(T) == ScanFold!FoldOf(<<q, offset>>, s, NothingRead, T)
           N == {k \in Nat : k <= n => Joined(q, offset, Fold(1..k))}
<1>6. 0 \in N
  <2>1. 1..0 = {}
    OBVIOUS
  <2>2. Fold(1..0) = NothingRead
    BY <2>1, ScanFold!Empty
  <2>3. Joined(q, offset, NothingRead)
    <3>1. Len(All(q)) \in Nat /\ offset \in Nat /\ offset <= Len(All(q))
      OBVIOUS
    <3> QED
      BY <3>1 DEF Joined, NothingRead
  <2> QED
    BY <2>2, <2>3
<1>7. ASSUME NEW k \in Nat, k \in N PROVE k + 1 \in N
  <2> SUFFICES ASSUME k + 1 <= n PROVE Joined(q, offset, Fold(1..(k + 1)))
    OBVIOUS
  <2>1. Joined(q, offset, Fold(1..k))
    BY <1>7
  <2>2. PICK T : T = 1..(k + 1)
    OBVIOUS
  <2>3. T \subseteq 1..n /\ T # {} /\ T \ {k + 1} = 1..k
    <3>1. k + 1 \in 1..(k + 1) /\ 1..(k + 1) \subseteq 1..n
      OBVIOUS
    <3>2. (1..(k + 1)) \ {k + 1} = 1..k
      OBVIOUS
    <3> QED
      BY <2>2, <3>1, <3>2
  <2>4. ScanFold!IsFiniteSet(T) /\ ScanFold!Chooses(T)
    <3>1. IsFiniteSet(T)
      BY <2>2, FS_Interval
    <3>2. ScanFold!IsFiniteSet(T)
      BY <3>1 DEF IsFiniteSet, ScanFold!IsFiniteSet
    <3> QED
      BY <1>5, <2>3, <3>2 DEF ScanFold!Chooses
  <2>5. Max(T) = k + 1
    <3>1. \A i \in T : i \in Nat /\ k + 1 >= i
      BY <2>2
    <3>2. k + 1 \in T
      BY <2>2
    <3> QED
      BY <3>1, <3>2 DEF Max
  <2>6. Fold(T) = ReadOn(q, offset, Fold(T \ {k + 1}))
    BY <2>3, <2>4, <2>5, ScanFold!Unfold
  <2>7. Fold(T \ {k + 1}) = Fold(1..k)
    BY <2>3
  <2> HIDE DEF Fold
  <2>8. Joined(q, offset, ReadOn(q, offset, Fold(1..k)))
    BY <2>1, ChunkJoined, offset \in Nat DEF ReadOn
  <2> QED
    BY <2>2, <2>6, <2>7, <2>8
<1>8. n \in N
  <2> HIDE DEF N
  <2> QED
    BY <1>6, <1>7, ScanFold!Induction
<1>9. Joined(q, offset, Fold(1..n))
  BY <1>8
<1> QED
  BY <1>1, <1>2, <1>3, <1>9, ScanIs

\* What an answer to a query contains from the place of its cursor on.
Covers(q, offset, r) ==
  /\ r.complete => \A i \in (offset + 1)..Len(All(q)) :
                     All(q)[i] \in q.wanted => All(q)[i] \in r.events
  /\ r.next # 0 => /\ r.next \in offset..Len(All(q))
                   /\ \A i \in (offset + 1)..r.next :
                        All(q)[i] \in q.wanted => All(q)[i] \in r.events

\* What Page returns covers the events it went over.
LEMMA PageCovers ==
  ASSUME NEW q, NEW E, All(q) \in Seq(E), NEW offset \in 0..Len(All(q))
  PROVE  Covers(q, offset, Page(q, offset))
<1>1. CASE q.tool \in Health
  BY <1>1 DEF Page, Covers
<1>2. CASE q.tool \notin Health
  <2>1. PICK p : p = Scan(q, offset)
    OBVIOUS
  <2>2. Joined(q, offset, p)
    BY <2>1, ScanJoined
  <2>3. PICK r : r = Page(q, offset)
    OBVIOUS
  <2>4. r = [events |-> p.events, complete |-> ~p.more,
             next |-> IF p.more THEN offset + p.scanned ELSE 0]
    BY <1>2, <2>1, <2>3 DEF Page
  <2>5. /\ r.events = p.events
        /\ r.complete <=> ~p.more
        /\ r.next # 0 => r.next = offset + p.scanned
    BY <2>4
  <2>6. offset \in Nat /\ Len(All(q)) \in Nat
    OBVIOUS
  <2>7. r.complete => offset + p.scanned = Len(All(q))
    BY <2>2, <2>5 DEF Joined
  <2> QED
    BY <2>2, <2>3, <2>5, <2>6, <2>7 DEF Joined, Covers
<1> QED
  BY <1>1, <1>2

-----------------------------------------------------------------------------
(***************************************************************************)
(* What a task knows of its queries.                                       *)
(***************************************************************************)

\* Each tool's events are a sequence.
AllListed == \A t \in Tools : Candidates[t] \in Seq(ToSet(Candidates[t]))

LEMMA Listed == AllListed
BY GatewayAssumption DEF GatewayAssumption, AllListed

\* What the kinds of answers say of their completeness.
LEMMA AnswerMore ==
  /\ NoAnswer.complete = FALSE /\ NoAnswer.next = 0
  /\ \A code, retry : Failure(code, retry).complete = FALSE /\ Failure(code, retry).next = 0
  /\ \A page : Result(page).complete = page.complete /\ Result(page).next = page.next
<1>1. NoAnswer.complete = FALSE /\ NoAnswer.next = 0
  BY Zenon DEF NoAnswer
<1>2. \A code, retry : Failure(code, retry).complete = FALSE /\ Failure(code, retry).next = 0
  BY Zenon DEF NoAnswer, Failure
<1>3. \A page : Result(page).complete = page.complete /\ Result(page).next = page.next
  BY Zenon DEF NoAnswer, Result
<1> QED
  BY <1>1, <1>2, <1>3

LEMMA AnswerEvents == \A page : Result(page).events = page.events
BY Zenon DEF NoAnswer, Result

\* A call that tells something about its query was made with a cursor of it.
LEMMA InvokeCovers ==
  ASSUME NEW task, NEW c, Invoke(task, c), c.query.tool \in Tools,
         c.cursor.query = c.query => c.cursor.offset \in 0..Len(All(c.query))
  PROVE  /\ Covers(c.query, c.cursor.offset, answer')
         /\ answer'.complete \/ answer'.next # 0 => c.cursor.query = c.query
<1>1. ASSUME NEW code, NEW retry, answer' = Failure(code, retry)
      PROVE  ~answer'.complete /\ answer'.next = 0
  BY <1>1, AnswerMore
<1>2. CASE ~answer'.complete /\ answer'.next = 0
  BY <1>2 DEF Covers
<1>3. ASSUME NEW written, Deliver(task, c, written), Refusals(c) = {}
      PROVE  \/ ~answer'.complete /\ answer'.next = 0
             \/ Covers(c.query, c.cursor.offset, answer') /\ c.cursor.query = c.query
  <2>1. CASE written
    <3>1. PICK page : page = Page(c.query, c.cursor.offset)
      OBVIOUS
    <3>2. answer' = Result(page)
      BY <1>3, <2>1, <3>1 DEF Deliver
    <3>3. c.cursor.query = c.query
      BY <1>3 DEF Refusals
    <3>4. All(c.query) \in Seq(ToSet(All(c.query)))
      BY Listed DEF AllListed, All
    <3>5. Covers(c.query, c.cursor.offset, page)
      BY <3>1, <3>3, <3>4, PageCovers
    <3>6. /\ answer'.events = page.events /\ answer'.complete = page.complete
          /\ answer'.next = page.next
      BY <3>2, AnswerMore, AnswerEvents
    <3> QED
      BY <3>3, <3>5, <3>6 DEF Covers
  <2>2. CASE ~written
    BY <1>1, <1>3, <2>2 DEF Deliver
  <2> QED
    BY <2>1, <2>2
<1>4. CASE Refuse(c)
  BY <1>1, <1>2, <1>4 DEF Refuse, Refusals
<1>5. CASE ServeCached(task, c)
  BY <1>2, <1>3, <1>5 DEF ServeCached
<1>6. CASE Withhold(task, c)
  BY <1>1, <1>2, <1>6 DEF Withhold
<1>7. CASE Fetch(task, c)
  BY <1>1, <1>2, <1>3, <1>7 DEF Fetch
<1> QED
  BY <1>4, <1>5, <1>6, <1>7 DEF Invoke

\* Task id has as evidence what q selects of its first n events.
Known(id, q, n) ==
  \A i \in 1..n : All(q)[i] \in q.wanted =>
    [task |-> id, query |-> q, event |-> All(q)[i]] \in evidence

\* Cursor c continues what task id knows.
Joins(id, c) ==
  /\ c.query.tool \in Tools
  /\ c.offset \in 0..Len(All(c.query))
  /\ Known(id, c.query, c.offset)

\* Evidence is never dropped, so what is known stays so.
LEMMA StillKnown ==
  ASSUME evidence \subseteq evidence'
  PROVE  /\ \A id, q, n : Known(id, q, n) => Known(id, q, n)'
         /\ \A id, c : Joins(id, c) => Joins(id, c)'
<1>1. \A id, q, n : Known(id, q, n) => Known(id, q, n)'
  BY DEF Known, All
<1> QED
  BY <1>1 DEF Joins, All

\* The first page of a query joins on to nothing.
LEMMA FirstJoins ==
  ASSUME NEW id, NEW q, q.tool \in Tools
  PROVE  Joins(id, FirstPage(q))
<1>1. All(q) \in Seq(ToSet(All(q)))
  BY Listed DEF AllListed, All
<1>2. FirstPage(q).query = q /\ FirstPage(q).offset = 0
  BY DEF FirstPage
<1>3. Known(id, q, 0)
  BY DEF Known
<1>4. 0 \in 0..Len(All(q))
  BY <1>1
<1> QED
  BY <1>2, <1>3, <1>4 DEF Joins

\* With the answer the task knows the query up to where the answer ends.
LEMMA MoreKnown ==
  ASSUME NEW id, NEW q, NEW offset \in Nat, NEW a, Known(id, q, offset), Covers(q, offset, a),
         All(q) \in Seq(ToSet(All(q))),
         evidence' = evidence \union Evidence(id, q, a.events)
  PROVE  /\ a.complete => Known(id, q, Len(All(q)))'
         /\ a.next # 0 => a.next \in 0..Len(All(q)) /\ Known(id, q, a.next)'
<1>1. ASSUME NEW n \in Nat,
             \A i \in (offset + 1)..n : All(q)[i] \in q.wanted => All(q)[i] \in a.events
      PROVE  Known(id, q, n)'
  <2>1. ASSUME NEW i \in 1..n, All(q)[i] \in q.wanted
        PROVE  [task |-> id, query |-> q, event |-> All(q)[i]] \in evidence'
    <3>1. CASE i <= offset
      <4>1. i \in 1..offset
        BY <3>1
      <4> QED
        BY <2>1, <4>1 DEF Known
    <3>2. CASE i > offset
      <4>1. i \in (offset + 1)..n
        BY <3>2
      <4> QED
        BY <1>1, <2>1, <4>1 DEF Evidence
    <3> QED
      BY <3>1, <3>2
  <2> QED
    BY <2>1 DEF Known, All
<1>2. Len(All(q)) \in Nat
  OBVIOUS
<1>3. ASSUME a.complete PROVE Known(id, q, Len(All(q)))'
  <2>1. PICK n \in Nat : n = Len(All(q))
    BY <1>2
  <2>2. Known(id, q, n)'
    BY <1>1, <1>3, <2>1 DEF Covers
  <2> QED
    BY <2>1, <2>2 DEF All
<1>4. ASSUME a.next # 0
      PROVE  a.next \in 0..Len(All(q)) /\ Known(id, q, a.next)'
  <2>1. a.next \in offset..Len(All(q))
    BY <1>4 DEF Covers
  <2>2. PICK n \in Nat : n = a.next
    BY <1>2, <2>1
  <2>3. Known(id, q, n)'
    BY <1>1, <1>4, <2>2 DEF Covers
  <2> QED
    <3>1. a.next \in 0..Len(All(q))
      BY <1>2, <2>1
    <3>2. Known(id, q, a.next)'
      BY <2>2, <2>3
    <3> QED
      BY <3>1, <3>2
<1> QED
  BY <1>3, <1>4

-----------------------------------------------------------------------------
(***************************************************************************)
(* Required tools answered whole queries.                                  *)
(***************************************************************************)

\* Task id has the whole answer to a query of the tool.
Questioned(id, tool) == \E w \in whole : w.task = id /\ w.query.tool = tool

\* The record of a task's work.
Shaped(w) == {"task", "step", "completed", "cursors", "refs"} \subseteq DOMAIN w

\* The planner names registered tools only (ValidPlan).
PlanTools == \A i \in 1..Len(plan) : Allowed(plan[i]) \subseteq Tools

\* The evidence of a completed query is there.
WholeKnown == \A w \in whole : w.query.tool \in Tools /\ Known(w.task, w.query, Len(All(w.query)))

\* What the task id knows when its work is w.
WorkKnown(id, w) ==
  /\ \A c \in w.cursors : Joins(id, c)
  /\ \A tool \in w.completed : Questioned(id, tool)

\* The call a task makes is of a registered tool, and continues what it knows.
CallKnown(id, c) == c.query.tool \in Tools /\ Joins(id, c.cursor)

\* An answer covers the call's query from its cursor on.
AnswerKnown(c, a) ==
  /\ Covers(c.query, c.cursor.offset, a)
  /\ a.complete \/ a.next # 0 => c.cursor.query = c.query

\* A task that succeeded has whole answers of its required tools.
ResultsWhole ==
  \A i \in 1..Len(plan) : Succeeded(plan[i].id) =>
    \A tool \in ToSet(plan[i].required) : Questioned(plan[i].id, tool)

\* The inductive invariant.
Paged ==
  /\ Shaped(work) /\ PlanTools /\ WholeKnown /\ ResultsWhole
  /\ Busy => WorkKnown(work.task.id, work)
  /\ phase \in {"call", "settle"} => CallKnown(work.task.id, call)
  /\ phase = "settle" => AnswerKnown(call, answer)

\* What is known stays known.
LEMMA StillWhole ==
  ASSUME evidence \subseteq evidence', whole \subseteq whole'
  PROVE  /\ \A id, tool : Questioned(id, tool) => Questioned(id, tool)'
         /\ \A id, w : WorkKnown(id, w) => WorkKnown(id, w)'
         /\ \A id, c : CallKnown(id, c) => CallKnown(id, c)'
<1>1. \A id, tool : Questioned(id, tool) => Questioned(id, tool)'
  BY DEF Questioned
<1>2. \A id, w : WorkKnown(id, w) => WorkKnown(id, w)'
  BY <1>1, StillKnown DEF WorkKnown
<1>3. \A id, c : CallKnown(id, c) => CallKnown(id, c)'
  BY StillKnown DEF CallKnown
<1> QED
  BY <1>1, <1>2, <1>3

\* The work of a task that starts, or goes on to its next step.
LEMMA NoWorkShaped == /\ Shaped(NoWork) /\ NoWork.cursors = {} /\ NoWork.completed = {}
                      /\ NoWork.step = 0
<1>1. DOMAIN NoWork = {"task", "step", "completed", "cursors", "refs"}
  BY Zenon DEF NoWork
<1>2. NoWork.cursors = {} /\ NoWork.completed = {} /\ NoWork.step = 0
  BY Zenon DEF NoWork
<1> QED
  BY <1>1, <1>2 DEF Shaped

LEMMA StartShaped ==
  ASSUME NEW t, NEW w, w = [NoWork EXCEPT !.task = t, !.step = 1]
  PROVE  Shaped(w) /\ w.cursors = {} /\ w.completed = {} /\ w.task = t
BY NoWorkShaped DEF Shaped

LEMMA StepShaped ==
  ASSUME NEW next, Shaped(next), NEW w, w = [next EXCEPT !.step = @ + 1]
  PROVE  /\ Shaped(w) /\ w.cursors = next.cursors /\ w.completed = next.completed
         /\ w.task = next.task /\ w.step = next.step + 1
BY DEF Shaped

\* A result is recorded only for the tools that were questioned.
LEMMA RecordWhole ==
  ASSUME Ordered, ResultsWhole, plan' = plan, whole \subseteq whole',
         NEW i \in 1..Len(plan), NEW result, Record(plan[i].id, result),
         result.status = "SUCCEEDED" =>
           \A tool \in ToSet(plan[i].required) : Questioned(plan[i].id, tool)'
  PROVE  ResultsWhole'
<1> SUFFICES ASSUME NEW j \in 1..Len(plan), Succeeded(plan[j].id)',
                    NEW tool \in ToSet(plan[j].required)
             PROVE  Questioned(plan[j].id, tool)'
  BY DEF ResultsWhole
<1>1. CASE i = j
  BY <1>1 DEF Succeeded, Finished, Record
<1>2. CASE i # j
  <2>1. plan[i].id # plan[j].id
    BY <1>2 DEF Ordered
  <2>2. Succeeded(plan[j].id)
    BY <2>1 DEF Succeeded, Finished, Record
  <2>3. Questioned(plan[j].id, tool)
    BY <2>2 DEF ResultsWhole
  <2> QED
    BY <2>3 DEF Questioned
<1> QED
  BY <1>1, <1>2

\* Steps that leave results, or completed queries, alone.
LEMMA SameResults ==
  ASSUME ResultsWhole, UNCHANGED <<plan, results>>, whole \subseteq whole'
  PROVE  ResultsWhole'
BY DEF ResultsWhole, Succeeded, Finished, Questioned

LEMMA SameWhole ==
  ASSUME WholeKnown, evidence \subseteq evidence', whole' = whole
  PROVE  WholeKnown'
BY StillKnown DEF WholeKnown, All

\* A pass over the plan, or a step outside of the tasks.
LEMMA IdlePaged ==
  ASSUME Paged, phase' \notin {"decide", "call", "settle"}, Shaped(work'), PlanTools', ResultsWhole',
         UNCHANGED <<whole, evidence>>
  PROVE  Paged'
<1>1. WholeKnown'
  BY SameWhole DEF Paged
<1> QED
  BY <1>1 DEF Paged, Busy, Shaped

\* The ends of a task: with its result, partial, or with another decision.
LEMMA EndTaskPaged ==
  ASSUME Ordered, Paged, Busy, plan' = plan, whole \subseteq whole', WholeKnown',
         NEW result, EndTask(result),
         result.status = "SUCCEEDED" =>
           \A tool \in ToSet(work.task.required) : \A id : id = work.task.id => Questioned(id, tool)'
  PROVE  Paged'
<1>1. visited + 1 \in 1..Len(plan) /\ work.task = plan[visited + 1]
  BY DEF Ordered, Scheduled
<1>2. PICK i \in 1..Len(plan) : i = visited + 1
  BY <1>1
<1>3. PICK id : id = plan[i].id
  OBVIOUS
<1>4. result.status = "SUCCEEDED" =>
        \A tool \in ToSet(plan[i].required) : Questioned(id, tool)'
  BY <1>1, <1>2, <1>3
<1>5. Record(plan[i].id, result)
  BY <1>1, <1>2 DEF EndTask
<1>6. plan'[i].id = id /\ plan'[i] = plan[i]
  BY <1>3
<1>7. \A tool : Questioned(id, tool)' => Questioned(plan[i].id, tool)'
  BY <1>3 DEF Questioned
<1>8. ResultsWhole'
  BY <1>4, <1>5, <1>7, RecordWhole DEF Paged
<1>9. Shaped(work)'
  BY NoWorkShaped DEF EndTask
<1>10. PlanTools'
  BY DEF Paged, PlanTools
<1>11. phase' = "schedule"
  BY DEF EndTask
<1> QED
  BY <1>8, <1>9, <1>10, <1>11 DEF Paged, Busy

LEMMA PartialPaged ==
  ASSUME Ordered, Paged, Busy, plan' = plan, whole \subseteq whole', WholeKnown', Partial
  PROVE  Paged'
BY EndTaskPaged DEF Partial

LEMMA DecideAgainPaged ==
  ASSUME Ordered, Paged, Busy, plan' = plan, whole \subseteq whole', WholeKnown',
         NEW next, NEW id, id = work.task.id, Shaped(next), next.task = work.task,
         WorkKnown(id, next)', DecideAgain(next)
  PROVE  Paged'
<1>1. CASE Partial
  BY <1>1, PartialPaged
<1>2. CASE phase' = "decide" /\ work' = [next EXCEPT !.step = @ + 1] /\ UNCHANGED <<visited, results>>
  <2>1. PICK w : w = work'
    OBVIOUS
  <2>2. Shaped(w) /\ w.cursors = next.cursors /\ w.completed = next.completed /\ w.task = next.task
    BY <1>2, <2>1, StepShaped
  <2>3. WorkKnown(id, w)'
    BY <2>2 DEF WorkKnown
  <2>4. id = work'.task.id
    BY <2>1, <2>2
  <2>5. WorkKnown(work.task.id, work)'
    BY <2>1, <2>3, <2>4
  <2>6. PlanTools' /\ ResultsWhole'
    BY <1>2, SameResults DEF Paged, PlanTools
  <2> QED
    BY <1>2, <2>1, <2>2, <2>5, <2>6 DEF Paged
<1> QED
  BY <1>1, <1>2 DEF DecideAgain

\* One lemma for each action: a task is passed, blocked or started,
LEMMA VisitPaged ==
  ASSUME Ordered, Paged, Visit
  PROVE  Paged'
<1>1. /\ phase = "schedule" /\ visited + 1 \in 1..Len(plan)
      /\ UNCHANGED <<plan, whole, evidence, call, answer>>
  BY DEF Visit, Ordered, Scheduled, gatewayVars
<1>2. PlanTools'
  BY <1>1 DEF Paged, PlanTools
<1>3. PICK i \in 1..Len(plan) : i = visited + 1
  BY <1>1
<1>4. PICK t : t = plan[i]
  OBVIOUS
<1>5. ASSUME ResultsWhole', UNCHANGED <<phase, work>>
      PROVE  Paged'
  BY <1>1, <1>2, <1>5, IdlePaged DEF Paged
<1>6. ASSUME NEW result, result.status # "SUCCEEDED", Record(t.id, result)
      PROVE  ResultsWhole'
  BY <1>1, <1>4, <1>6, RecordWhole DEF Paged
<1>7. CASE Pass(t)
  BY <1>1, <1>5, <1>7, SameResults DEF Pass, Paged
<1>8. CASE Block(t)
  BY <1>5, <1>6, <1>8 DEF Block
<1>9. CASE Start(t)
  <2>1. CASE /\ Record(t.id, [status |-> "PARTIAL", findings |-> {}, gaps |-> TRUE])
             /\ UNCHANGED <<phase, work>>
    BY <1>5, <1>6, <2>1
  <2>2. CASE /\ work' = [NoWork EXCEPT !.task = t, !.step = 1]
             /\ phase' = "decide" /\ UNCHANGED <<visited, results>>
    <3>1. Shaped(work') /\ work'.cursors = {} /\ work'.completed = {}
      BY <2>2, StartShaped
    <3>2. WorkKnown(work.task.id, work)'
      BY <3>1 DEF WorkKnown
    <3>3. ResultsWhole' /\ WholeKnown'
      BY <1>1, <2>2, SameResults, SameWhole DEF Paged
    <3> QED
      BY <1>2, <2>2, <3>1, <3>2, <3>3 DEF Paged, Shaped
  <2> QED
    BY <1>9, <2>1, <2>2 DEF Start
<1> QED
  BY <1>3, <1>4, <1>7, <1>8, <1>9 DEF Visit

\* The task under way uses tools there are.
LEMMA TaskTools ==
  ASSUME Ordered, Paged, Busy
  PROVE  /\ Allowed(work.task) \subseteq Tools
         /\ work.task \in Task
         /\ ToSet(work.task.required) \subseteq Tools
<1>1. PICK i \in 1..Len(plan) : work.task = plan[i]
  BY DEF Ordered, Scheduled
<1>2. plan[i] \in Task /\ Allowed(plan[i]) \subseteq Tools
  BY DEF Ordered, Paged, PlanTools
<1>3. PICK r \in Seq(STRING) : r = work.task.required
  BY <1>1, <1>2 DEF Task
<1>4. PICK o \in Seq(STRING) : o = work.task.optional
  BY <1>1, <1>2 DEF Task
<1>5. \A x \in ToSet(r) : x \in ToSet(r \o o)
  <2>1. \A j \in 1..Len(r) : j \in DOMAIN (r \o o) /\ (r \o o)[j] = r[j]
    OBVIOUS
  <2> QED
    BY <2>1 DEF ToSet
<1> QED
  BY <1>1, <1>2, <1>3, <1>4, <1>5 DEF Allowed

\* The controller's own calls start at a query's first page.
LEMMA SafeKnown ==
  ASSUME Ordered, Paged, Busy, NEW c \in SafeCalls, NEW id
  PROVE  CallKnown(id, c)
<1> DEFINE left == {i \in DOMAIN work.task.required : work.task.required[i] \notin work.completed}
<1>1. PICK r \in Seq(STRING) : r = work.task.required
  BY TaskTools DEF Task
<1>2. left # {} /\ left \in SUBSET (0..Len(r)) /\ Len(r) \in Nat
  BY <1>1 DEF SafeCalls
<1>3. Min(left) \in left
  <2> HIDE DEF left
  <2> QED
    BY <1>2, ScanFold!Bounds DEF Min
<1>4. PICK tool : tool = work.task.required[Min(left)]
  OBVIOUS
<1>5. tool \in Tools
  BY <1>3, <1>4, TaskTools DEF ToSet
<1>6. PICK q : q = [tool |-> tool, wanted |-> ToSet(Candidates[tool]), limit |-> MaxLimit]
  OBVIOUS
<1>7. c = [query |-> q, cursor |-> FirstPage(q), args |-> "valid"]
  BY <1>2, <1>4, <1>6 DEF SafeCalls
<1>8. q.tool = tool
  BY <1>6
<1> QED
  BY <1>5, <1>7, <1>8, FirstJoins DEF CallKnown

\* The calls a model chooses continue at a cursor of the task.
LEMMA ChosenKnown ==
  ASSUME Ordered, Paged, Busy, NEW c \in Calls, NEW id, id = work.task.id
  PROVE  CallKnown(id, c)
<1>1. PICK q : q \in Queries /\ q.tool \in Allowed(work.task) /\ c.query = q
               /\ (c.cursor \in work.cursors \/ c.cursor = FirstPage(q))
  BY DEF Calls
<1>2. q.tool \in Tools
  BY <1>1, TaskTools
<1> QED
  BY <1>1, <1>2, FirstJoins DEF CallKnown, Paged, WorkKnown

\* The call that is made is the one chosen.
LEMMA Performed ==
  ASSUME NEW c, NEW attempt, Perform(c, attempt), NEW id, CallKnown(id, c), UNCHANGED evidence
  PROVE  CallKnown(id, call)'
<1>1. call'.query = c.query /\ call'.cursor = c.cursor
  BY DEF Perform
<1>2. CallKnown(id, c)'
  BY StillKnown DEF CallKnown
<1>3. PICK d : d = call'
  OBVIOUS
<1>4. CallKnown(id, d)'
  BY <1>1, <1>2, <1>3 DEF CallKnown
<1> QED
  BY <1>3, <1>4

\* A call is chosen, made, or made again.
LEMMA WithinTaskPaged ==
  ASSUME Ordered, Paged, Busy, phase' \in {"call", "settle"},
         UNCHANGED <<plan, results, work, evidence, whole>>,
         NEW id, id = work.task.id, CallKnown(id, call)',
         phase' = "settle" => AnswerKnown(call, answer)'
  PROVE  Paged'
<1>1. PlanTools' /\ WholeKnown' /\ ResultsWhole' /\ Shaped(work)'
  BY SameResults, SameWhole DEF Paged, PlanTools, Shaped
<1>2. WorkKnown(id, work)'
  <2>1. WorkKnown(id, work)
    BY DEF Paged
  <2> QED
    BY <2>1 DEF WorkKnown, Joins, Known, Questioned, All
<1>3. id = work'.task.id
  OBVIOUS
<1>4. WorkKnown(work.task.id, work)' /\ CallKnown(work.task.id, call)'
  BY <1>2, <1>3
<1> QED
  BY <1>1, <1>4 DEF Paged

\* a call is chosen,
LEMMA ChooseCallPaged ==
  ASSUME Ordered, Paged, ChooseCall
  PROVE  Paged'
<1>1. Busy /\ UNCHANGED <<plan, results, work, evidence, whole>> /\ phase' = "call"
  BY DEF ChooseCall, Busy
<1>2. PICK id : id = work.task.id
  OBVIOUS
<1>3. PICK c : Perform(c, 1) /\ (c \in Calls \/ c \in SafeCalls)
  BY DEF ChooseCall
<1>4. CallKnown(id, c)
  BY <1>1, <1>2, <1>3, SafeKnown, ChosenKnown
<1>5. CallKnown(id, call)'
  BY <1>1, <1>3, <1>4, Performed
<1> QED
  BY <1>1, <1>2, <1>5, WithinTaskPaged

\* an invalid decision is repaired,
LEMMA ChooseInvalidPaged ==
  ASSUME Ordered, Paged, ChooseInvalid
  PROVE  Paged'
<1>1. Busy /\ UNCHANGED <<plan, evidence, whole>>
  BY DEF ChooseInvalid, Busy
<1>2. PICK id : id = work.task.id
  OBVIOUS
<1>3. CASE phase' = "call" /\ UNCHANGED <<results, work>> /\ \E safe \in SafeCalls : Perform(safe, 1)
  <2>1. PICK c \in SafeCalls : Perform(c, 1)
    BY <1>3
  <2>2. CallKnown(id, c)
    BY <1>1, SafeKnown
  <2>3. CallKnown(id, call)'
    BY <1>1, <2>1, <2>2, Performed
  <2> QED
    BY <1>1, <1>2, <1>3, <2>3, WithinTaskPaged
<1>4. CASE DecideAgain(work)
  <2>1. WholeKnown'
    BY <1>1, SameWhole DEF Paged
  <2>2. PICK w : w = work
    OBVIOUS
  <2>3. WorkKnown(id, w)
    BY <1>1, <1>2, <2>2 DEF Paged
  <2>4. WorkKnown(id, w)'
    BY <1>1, <2>3, StillWhole
  <2>5. Shaped(w) /\ w.task = work.task /\ DecideAgain(w)
    BY <1>4, <2>2 DEF Paged
  <2> QED
    BY <1>1, <1>2, <2>1, <2>4, <2>5, DecideAgainPaged
<1> QED
  BY <1>3, <1>4 DEF ChooseInvalid

\* the model says that the task is done,
LEMMA FinishPaged ==
  ASSUME Ordered, Paged, Finish
  PROVE  Paged'
<1>1. Busy /\ UNCHANGED <<plan, evidence, whole>>
  BY DEF Finish, Busy
<1>2. PICK id : id = work.task.id
  OBVIOUS
<1>3. WholeKnown'
  BY <1>1, SameWhole DEF Paged
<1>4. WorkKnown(id, work)
  BY <1>1, <1>2 DEF Paged
<1>5. CASE DecideAgain(work)
  <2>1. PICK w : w = work
    OBVIOUS
  <2>2. WorkKnown(id, w)'
    BY <1>1, <1>4, <2>1, StillWhole
  <2>3. Shaped(w) /\ w.task = work.task /\ DecideAgain(w)
    BY <1>5, <2>1 DEF Paged
  <2> QED
    BY <1>1, <1>2, <1>3, <2>2, <2>3, DecideAgainPaged
<1>6. ASSUME NEW findings, NEW gaps, ToSet(work.task.required) \subseteq work.completed,
             EndTask([status |-> "SUCCEEDED", findings |-> findings, gaps |-> gaps])
      PROVE  Paged'
  <2>1. \A tool \in ToSet(work.task.required) : Questioned(id, tool)'
    BY <1>1, <1>4, <1>6 DEF WorkKnown, Questioned
  <2> QED
    BY <1>1, <1>2, <1>3, <1>6, <2>1, EndTaskPaged
<1> QED
  BY <1>5, <1>6 DEF Finish

\* the gateway answers,
LEMMA CallToolPaged ==
  ASSUME Ordered, Paged, CallTool
  PROVE  Paged'
<1>1. /\ Busy /\ UNCHANGED <<plan, results, work, evidence, whole, call>> /\ phase' = "settle"
      /\ phase = "call"
  BY DEF CallTool, Busy
<1>2. PICK id : id = work.task.id
  OBVIOUS
<1>3. PICK c : c = call
  OBVIOUS
<1>4. Invoke(id, c)
  BY <1>2, <1>3 DEF CallTool
<1>5. CallKnown(id, c)
  BY <1>1, <1>2, <1>3 DEF Paged
<1>6. AnswerKnown(c, answer')
  <2>1. c.cursor.query = c.query => c.cursor.offset \in 0..Len(All(c.query))
    BY <1>5 DEF CallKnown, Joins
  <2> QED
    BY <1>4, <1>5, <2>1, InvokeCovers DEF CallKnown, AnswerKnown
<1>7. CallKnown(id, call)'
  BY <1>1, <1>3, <1>5 DEF CallKnown, Joins, Known, All
<1>8. AnswerKnown(call, answer)'
  BY <1>1, <1>3, <1>6 DEF AnswerKnown, Covers, All
<1> QED
  BY <1>1, <1>2, <1>7, <1>8, WithinTaskPaged

\* a call is made again,
LEMMA ReinvokePaged ==
  ASSUME Ordered, Paged, Reinvoke
  PROVE  Paged'
<1>1. /\ Busy /\ UNCHANGED <<plan, results, work, evidence, whole>> /\ phase' = "call"
      /\ phase = "settle"
  BY DEF Reinvoke, Busy
<1>2. PICK id : id = work.task.id
  OBVIOUS
<1>3. PICK c, attempt : Perform(c, attempt) /\ (c = call \/ c \in SafeCalls)
  BY DEF Reinvoke, Repairs
<1>4. CallKnown(id, c)
  BY <1>1, <1>2, <1>3, SafeKnown DEF Paged
<1>5. CallKnown(id, call)'
  BY <1>1, <1>3, <1>4, Performed
<1> QED
  BY <1>1, <1>2, <1>5, WithinTaskPaged

\* and an answer is taken in.
LEMMA ObservePaged ==
  ASSUME Ordered, Paged, Observe
  PROVE  Paged'
<1>1. Busy /\ phase = "settle" /\ plan' = plan
  BY DEF Observe, Busy
<1>2. PICK id : id = work.task.id
  OBVIOUS
<1>3. PICK c, a : c = call /\ a = answer
  OBVIOUS
<1>4. PICK q : q = c.query
  OBVIOUS
<1>5. evidence' = evidence \union Evidence(id, q, a.events)
  BY <1>2, <1>3, <1>4 DEF Observe, Found
<1>6. whole' = whole \union IF a.complete THEN {[task |-> id, query |-> q]} ELSE {}
  BY <1>2, <1>3, <1>4 DEF Observe
<1>7. /\ CallKnown(id, c) /\ AnswerKnown(c, a) /\ WorkKnown(id, work)
      /\ WholeKnown /\ Shaped(work)
  BY <1>1, <1>2, <1>3 DEF Paged
<1>8. q.tool \in Tools /\ All(q) \in Seq(ToSet(All(q)))
  BY <1>4, <1>7, Listed DEF CallKnown, AllListed, All
<1>9. /\ a.complete => Known(id, q, Len(All(q)))'
      /\ a.next # 0 => a.next \in 0..Len(All(q)) /\ Known(id, q, a.next)'
  <2>1. CASE a.complete \/ a.next # 0
    <3>1. c.cursor.query = q
      BY <1>4, <1>7, <2>1 DEF AnswerKnown
    <3>2. PICK offset : offset = c.cursor.offset
      OBVIOUS
    <3>3. offset \in Nat /\ Known(id, q, offset) /\ Covers(q, offset, a)
      BY <1>4, <1>7, <1>8, <3>1, <3>2 DEF CallKnown, Joins, AnswerKnown
    <3> QED
      BY <1>5, <1>8, <3>3, MoreKnown
  <2>2. CASE ~ (a.complete \/ a.next # 0)
    BY <2>2
  <2> QED
    BY <2>1, <2>2
<1>10. evidence \subseteq evidence' /\ whole \subseteq whole'
  BY <1>5, <1>6
<1>11. WholeKnown'
  <2>1. ASSUME NEW w \in whole' PROVE w.query.tool \in Tools /\ Known(w.task, w.query, Len(All(w.query)))'
    <3>1. CASE w \in whole
      BY <1>7, <1>10, <3>1, StillKnown DEF WholeKnown, All
    <3>2. CASE a.complete /\ w = [task |-> id, query |-> q]
      BY <1>8, <1>9, <3>2
    <3> QED
      BY <1>6, <3>1, <3>2
  <2> QED
    BY <2>1 DEF WholeKnown, All
<1>12. PICK done : done = NowCompleted
  OBVIOUS
<1>13. \A tool \in done : Questioned(id, tool)'
  <2>1. ASSUME NEW tool \in done PROVE Questioned(id, tool)'
    <3>1. CASE tool \in work.completed
      BY <1>7, <1>10, <3>1, StillWhole DEF WorkKnown
    <3>2. CASE a.complete /\ tool = q.tool
      <4>1. PICK w : w = [task |-> id, query |-> q]
        OBVIOUS
      <4>2. w \in whole' /\ w.task = id /\ w.query.tool = tool
        BY <1>6, <3>2, <4>1
      <4> QED
        BY <4>2 DEF Questioned
    <3> QED
      BY <1>3, <1>4, <1>12, <2>1, <3>1, <3>2 DEF NowCompleted
  <2> QED
    BY <2>1
<1>14. PICK cursors : cursors = NowCursors
  OBVIOUS
<1>15. \A k \in cursors : Joins(id, k)'
  <2>1. ASSUME NEW k \in cursors PROVE Joins(id, k)'
    <3>1. CASE k \in work.cursors
      BY <1>7, <1>10, <3>1, StillKnown DEF WorkKnown
    <3>2. CASE a.next # 0 /\ k = [query |-> q, offset |-> a.next]
      BY <1>8, <1>9, <3>2 DEF Joins, All
    <3> QED
      BY <1>3, <1>4, <1>14, <2>1, <3>1, <3>2 DEF NowCursors
  <2> QED
    BY <2>1
<1>16. ASSUME NEW copies, ToSet(work.task.required) \subseteq done,
              EndTask([status |-> "SUCCEEDED", gaps |-> FALSE, findings |-> copies])
       PROVE  Paged'
  BY <1>1, <1>2, <1>10, <1>11, <1>13, <1>16, EndTaskPaged
<1>17. PICK r : r = Found
  OBVIOUS
<1>18. PICK known : known = [work EXCEPT !.completed = done, !.cursors = cursors, !.refs = @ \union r]
  OBVIOUS
<1>19. /\ Shaped(known) /\ known.cursors = cursors /\ known.completed = done
       /\ known.task = work.task
  BY <1>7, <1>18 DEF Shaped
<1>20. CASE DecideAgain(known)
  <2>1. WorkKnown(id, known)'
    BY <1>13, <1>15, <1>19 DEF WorkKnown
  <2> QED
    BY <1>1, <1>2, <1>10, <1>11, <1>19, <1>20, <2>1, DecideAgainPaged
<1>21. (\E copies : EndTask([status |-> "SUCCEEDED", gaps |-> FALSE, findings |-> copies])
                      /\ ToSet(work.task.required) \subseteq done) \/ DecideAgain(known)
  BY <1>12, <1>14, <1>17, <1>18 DEF Observe
<1> QED
  BY <1>16, <1>20, <1>21

\* Every step keeps Paged,
LEMMA StepPaged ==
  ASSUME Ordered, Paged, [Next]_vars
  PROVE  Paged'
<1>1. CASE GiveUp \/ EndPass \/ Analyze
  <2>1. /\ phase' \notin {"decide", "call", "settle"}
        /\ UNCHANGED <<plan, results, work, evidence, whole>>
    BY <1>1 DEF GiveUp, EndPass, Analyze, EndRun
  <2>2. PlanTools' /\ ResultsWhole' /\ Shaped(work')
    BY <2>1, SameResults DEF Paged, PlanTools
  <2> QED
    BY <2>1, <2>2, IdlePaged
<1>2. CASE MakePlan
  <2>1. ValidPlan(plan') /\ phase' = "schedule" /\ UNCHANGED <<results, work, evidence, whole>>
    BY <1>2 DEF MakePlan
  <2>2. PlanTools'
    <3>1. \A t \in ToSet(plan') : Allowed(t) \subseteq Tools
      BY <2>1, ControllerAssumption DEF ValidPlan, ControllerAssumption
    <3>2. \A i \in 1..Len(plan') : plan'[i] \in ToSet(plan')
      BY <2>1 DEF ValidPlan, ToSet
    <3> QED
      BY <3>1, <3>2 DEF PlanTools, Allowed
  <2>3. ResultsWhole'
    BY <1>2, <2>1 DEF MakePlan, Ordered, ResultsWhole, Succeeded, Finished
  <2> QED
    BY <2>1, <2>2, <2>3, IdlePaged DEF Paged
<1>3. CASE Abandon
  <2>1. Busy /\ UNCHANGED <<plan, evidence, whole>> /\ Partial
    BY <1>3 DEF Abandon, Busy
  <2>2. WholeKnown'
    BY <2>1, SameWhole DEF Paged
  <2> QED
    BY <2>1, <2>2, PartialPaged
<1>4. CASE UNCHANGED vars
  <2>1. UNCHANGED <<phase, plan, results, work, call, answer, evidence, whole>>
    BY <1>4 DEF vars, agentVars, gatewayVars
  <2> QED
    BY <2>1 DEF Paged, PlanTools, WholeKnown, ResultsWhole, Succeeded, Finished, Questioned,
      Shaped, Busy, WorkKnown, CallKnown, AnswerKnown, Joins, Known, Covers, All
<1> QED
  BY <1>1, <1>2, <1>3, <1>4, VisitPaged, ChooseCallPaged, ChooseInvalidPaged, FinishPaged,
     CallToolPaged, ReinvokePaged, ObservePaged DEF Next, Over

\* which holds at first,
LEMMA InitPaged == Init => Paged
<1> SUFFICES ASSUME Init PROVE Paged
  OBVIOUS
<1>1. plan = <<>> /\ whole = {} /\ work = NoWork /\ phase = "start"
  BY DEF Init
<1>2. 1..Len(plan) = {}
  BY <1>1
<1> QED
  BY <1>1, <1>2, NoWorkShaped DEF Paged, PlanTools, WholeKnown, ResultsWhole, Busy

\* and so always.
LEMMA PagedAlways == Spec => []Paged
<1>1. Ordered /\ Paged /\ [Next]_vars => Paged'
  BY StepPaged
<1> QED
  BY <1>1, InitPaged, OrderedAlways, PTL DEF Spec

\* A task that succeeded has the whole answer to a query of each required tool,
\* and every event such a query selects is the task's evidence, however it was
\* paged, cached, retried or repaired (requiredComplete in the controller, the
\* cursor checks of Gateway.Invoke and the chunks of EventAdapter.Query).
THEOREM WholeQueriesAnswered == Spec => []WholeQueries
<1>1. Ordered /\ Paged => WholeQueries
  <2> SUFFICES ASSUME Ordered, Paged PROVE WholeQueries
    OBVIOUS
  <2>1. ASSUME NEW t \in ToSet(plan), Succeeded(t.id), NEW tool \in ToSet(t.required)
        PROVE  \E w \in whole : w.task = t.id /\ w.query.tool = tool
    <3>1. PICK i \in 1..Len(plan) : t = plan[i]
      BY DEF Ordered, ToSet
    <3> QED
      BY <2>1, <3>1 DEF Paged, ResultsWhole, Questioned
  <2>2. ASSUME NEW w \in whole
        PROVE  Evidence(w.task, w.query, ToSet(Candidates[w.query.tool]) \intersect w.query.wanted)
                 \subseteq evidence
    <3>1. w.query.tool \in Tools /\ Known(w.task, w.query, Len(All(w.query)))
      BY DEF Paged, WholeKnown
    <3>2. PICK all \in Seq(ToSet(All(w.query))) : all = Candidates[w.query.tool]
      BY <3>1, Listed DEF AllListed, All
    <3>3. \A e \in ToSet(all) : \E i \in 1..Len(all) : e = all[i]
      BY <3>2 DEF ToSet
    <3> QED
      BY <3>1, <3>2, <3>3 DEF Known, All, Evidence
  <2> QED
    BY <2>1, <2>2 DEF WholeQueries
<1> QED
  BY <1>1, OrderedAlways, PagedAlways, PTL

-----------------------------------------------------------------------------
(***************************************************************************)
(* The type invariant, its budget apart.                                   *)
(***************************************************************************)

\* The statuses of a result.
Statuses == {"SUCCEEDED", "PARTIAL", "BLOCKED"}

\* Only tasks of the plan have results.
ResultsTyped ==
  /\ DOMAIN results \subseteq Ids(plan)
  /\ \A id \in DOMAIN results : results[id].status \in Statuses

\* AgentTypeOK but for the budget.
Typed ==
  /\ phase \in {"start", "schedule", "decide", "call", "settle", "report", "over"}
  /\ status \in {"RUNNING", "COMPLETED", "NEEDS_REVIEW", "FAILED", "ABORTED"}
  /\ visited \in 0..Len(plan) /\ progress \in BOOLEAN
  /\ ResultsTyped
  /\ work.step \in 0..MaxDecisions
  /\ call.attempt \in 0..3

\* Recording a result of a task of the plan.
LEMMA RecordTyped ==
  ASSUME ResultsTyped, plan' = plan, NEW i \in 1..Len(plan), NEW result,
         Record(plan[i].id, result), result.status \in Statuses, plan \in Seq(Task)
  PROVE  ResultsTyped'
<1>1. plan[i].id \in Ids(plan) /\ Ids(plan') = Ids(plan)
  BY DEF Ids, ToSet
<1>2. /\ DOMAIN results' = DOMAIN results \union {plan[i].id}
      /\ \A id \in DOMAIN results' :
           results'[id] = IF id = plan[i].id THEN result ELSE results[id]
  BY DEF Record
<1> QED
  BY <1>1, <1>2 DEF ResultsTyped, Ids

\* The ends of a task.
LEMMA EndTaskTyped ==
  ASSUME Ordered, Typed, Busy, UNCHANGED <<plan, progress, status>>, call'.attempt \in 0..3,
         NEW result, result.status \in Statuses, EndTask(result)
  PROVE  Typed'
<1>1. visited + 1 \in 1..Len(plan) /\ work.task = plan[visited + 1] /\ plan \in Seq(Task)
  BY DEF Ordered, Scheduled
<1>2. PICK i \in 1..Len(plan) : i = visited + 1
  BY <1>1
<1>3. Record(plan[i].id, result)
  BY <1>1, <1>2 DEF EndTask
<1>4. ResultsTyped'
  BY <1>1, <1>3, RecordTyped DEF Typed
<1>5. visited' \in 0..Len(plan) /\ phase' = "schedule" /\ work' = NoWork
  BY <1>1 DEF EndTask, Typed
<1>6. work'.step \in 0..MaxDecisions
  BY <1>5, NoWorkShaped, ControllerAssumption DEF ControllerAssumption
<1> QED
  BY <1>4, <1>5, <1>6 DEF Typed

LEMMA PartialTyped ==
  ASSUME Ordered, Typed, Busy, UNCHANGED <<plan, progress, status>>, call'.attempt \in 0..3, Partial
  PROVE  Typed'
BY EndTaskTyped DEF Partial, Statuses

LEMMA DecideAgainTyped ==
  ASSUME Ordered, Typed, Busy, UNCHANGED <<plan, progress, status>>, call'.attempt \in 0..3,
         NEW next, Shaped(next), next.step = work.step, DecideAgain(next)
  PROVE  Typed'
<1>1. CASE Partial
  BY <1>1, PartialTyped
<1>2. CASE /\ work.step < MaxDecisions
           /\ phase' = "decide" /\ work' = [next EXCEPT !.step = @ + 1]
           /\ UNCHANGED <<visited, results>>
  <2>1. work'.step = work.step + 1
    BY <1>2, StepShaped
  <2>2. work'.step \in 0..MaxDecisions
    BY <1>2, <2>1, ControllerAssumption DEF Typed, ControllerAssumption
  <2> QED
    BY <1>2, <2>2 DEF Typed, ResultsTyped, Ids
<1> QED
  BY <1>1, <1>2 DEF DecideAgain

\* The attempt a call is.
LEMMA CallTyped == NoCall.attempt = 0 /\ \A c, n : Perform(c, n) => call'.attempt = n
<1>1. NoCall.attempt = 0
  BY Zenon DEF NoCall
<1>2. \A c, n : Perform(c, n) => call'.attempt = n
  BY DEF Perform
<1> QED
  BY <1>1, <1>2

\* A task is passed, blocked or started,
LEMMA VisitTyped ==
  ASSUME Ordered, Typed, Visit
  PROVE  Typed'
<1>1. /\ phase = "schedule" /\ visited + 1 \in 1..Len(plan)
      /\ UNCHANGED <<plan, call, status>> /\ plan \in Seq(Task)
  BY DEF Visit, Ordered, Scheduled
<1>2. PICK i \in 1..Len(plan) : i = visited + 1
  BY <1>1
<1>3. PICK t : t = plan[i]
  OBVIOUS
<1>4. visited' \in {visited, visited + 1} => visited' \in 0..Len(plan)
  BY <1>1 DEF Typed
<1>5. CASE Pass(t)
  BY <1>1, <1>4, <1>5 DEF Pass, Typed, ResultsTyped, Ids
<1>6. ASSUME NEW result, result.status \in Statuses, Record(t.id, result) PROVE ResultsTyped'
  BY <1>1, <1>3, <1>6, RecordTyped DEF Typed
<1>7. CASE Block(t)
  <2>1. ResultsTyped'
    BY <1>6, <1>7 DEF Block, Statuses
  <2> QED
    BY <1>1, <1>4, <1>7, <2>1 DEF Block, Typed
<1>8. CASE Start(t)
  <2>1. CASE /\ Record(t.id, [status |-> "PARTIAL", findings |-> {}, gaps |-> TRUE])
             /\ visited' = visited + 1 /\ UNCHANGED <<phase, work>>
    <3>1. ResultsTyped'
      BY <1>6, <2>1 DEF Statuses
    <3> QED
      BY <1>1, <1>4, <1>8, <2>1, <3>1 DEF Start, Typed
  <2>2. CASE /\ work' = [NoWork EXCEPT !.task = t, !.step = 1]
             /\ phase' = "decide" /\ UNCHANGED <<visited, results>>
    <3>1. work'.step = 1
      BY <2>2, NoWorkShaped DEF Shaped
    <3>2. work'.step \in 0..MaxDecisions
      BY <3>1, ControllerAssumption DEF ControllerAssumption
    <3> QED
      BY <1>1, <1>8, <2>2, <3>2 DEF Start, Typed, ResultsTyped, Ids
  <2> QED
    BY <1>8, <2>1, <2>2 DEF Start
<1> QED
  BY <1>2, <1>3, <1>5, <1>7, <1>8 DEF Visit

\* an answer is taken in,
LEMMA ObserveTyped ==
  ASSUME Ordered, Shaped(work), Typed, Observe
  PROVE  Typed'
<1>1. Busy /\ UNCHANGED <<plan, progress, status>>
  BY DEF Observe, Busy
<1>2. call'.attempt \in 0..3
  BY CallTyped DEF Observe
<1> DEFINE known == [work EXCEPT !.completed = NowCompleted, !.cursors = NowCursors,
                                 !.refs = @ \union Found]
<1>3. ASSUME NEW copies,
             EndTask([status |-> "SUCCEEDED", gaps |-> FALSE, findings |-> copies])
      PROVE  Typed'
  BY <1>1, <1>2, <1>3, EndTaskTyped DEF Statuses
<1>4. CASE DecideAgain(known)
  <2>1. PICK next : next = known
    OBVIOUS
  <2>2. Shaped(next) /\ next.step = work.step
    BY <2>1 DEF Shaped
  <2> QED
    BY <1>1, <1>2, <1>4, <2>1, <2>2, DecideAgainTyped
<1> QED
  BY <1>3, <1>4 DEF Observe

\* or the plan and the work stay as they are.
LEMMA SameTyped ==
  ASSUME Typed, UNCHANGED <<plan, visited, progress, results, work>>,
         phase' \in {"start", "schedule", "decide", "call", "settle", "report", "over"},
         status' \in {"RUNNING", "COMPLETED", "NEEDS_REVIEW", "FAILED", "ABORTED"},
         call'.attempt \in 0..3
  PROVE  Typed'
BY DEF Typed, ResultsTyped, Ids

\* Every step keeps the types,
LEMMA StepTyped ==
  ASSUME Ordered, Paged, Typed, [Next]_vars
  PROVE  Typed'
<1>0. Shaped(work) /\ call.attempt \in 0..3
  BY DEF Paged, Typed
<1>1. CASE GiveUp
  BY <1>0, <1>1, SameTyped DEF GiveUp, EndRun, Typed
<1>2. CASE MakePlan
  <2>1. ValidPlan(plan') /\ phase = "start" /\ phase' = "schedule"
        /\ UNCHANGED <<visited, progress, results, work, call, status>>
    BY <1>2 DEF MakePlan
  <2>2. Len(plan') \in Nat /\ visited = 0 /\ DOMAIN results = {}
    BY <2>1 DEF ValidPlan, Ordered
  <2> QED
    BY <2>1, <2>2 DEF Typed, ResultsTyped
<1>3. CASE Visit
  BY <1>3, VisitTyped
<1>4. CASE EndPass
  <2>1. /\ phase' \in {"schedule", "report", "over"} /\ status' \in {status, "FAILED"}
        /\ visited' = 0 /\ progress' = FALSE /\ UNCHANGED <<plan, results, work, call>>
    BY <1>4 DEF EndPass
  <2>2. 0 \in 0..Len(plan)
    BY DEF Ordered
  <2> QED
    BY <2>1, <2>2 DEF Typed, ResultsTyped, Ids
<1>5. CASE ChooseCall
  <2>1. call'.attempt = 1
    BY <1>5, CallTyped DEF ChooseCall
  <2> QED
    BY <1>5, <2>1, SameTyped DEF ChooseCall, Typed
<1>6. CASE ChooseInvalid
  <2>1. Busy /\ UNCHANGED <<plan, progress, status>>
    BY <1>6 DEF ChooseInvalid, Busy
  <2>2. CASE phase' = "call" /\ UNCHANGED <<visited, results, work>>
             /\ \E safe \in SafeCalls : Perform(safe, 1)
    <3>1. call'.attempt = 1
      BY <2>2, CallTyped
    <3> QED
      BY <2>1, <2>2, <3>1, SameTyped DEF Typed
  <2>3. CASE DecideAgain(work) /\ call' = call
    BY <1>0, <2>1, <2>3, DecideAgainTyped
  <2> QED
    BY <1>6, <2>2, <2>3 DEF ChooseInvalid
<1>7. CASE Abandon
  BY <1>0, <1>7, PartialTyped DEF Abandon, Busy
<1>8. CASE Finish
  <2>1. Busy /\ UNCHANGED <<plan, progress, status, call>>
    BY <1>8 DEF Finish, Busy
  <2>2. CASE DecideAgain(work)
    BY <1>0, <2>1, <2>2, DecideAgainTyped
  <2>3. ASSUME NEW findings, NEW gaps,
               EndTask([status |-> "SUCCEEDED", findings |-> findings, gaps |-> gaps])
        PROVE  Typed'
    BY <1>0, <2>1, <2>3, EndTaskTyped DEF Statuses
  <2> QED
    BY <1>8, <2>2, <2>3 DEF Finish
<1>9. CASE CallTool
  BY <1>0, <1>9, SameTyped DEF CallTool, Typed
<1>10. CASE Reinvoke
  <2>1. call'.attempt \in {2, 3}
    BY <1>10, CallTyped DEF Reinvoke
  <2> QED
    BY <1>10, <2>1, SameTyped DEF Reinvoke, Typed
<1>11. CASE Observe
  BY <1>0, <1>11, ObserveTyped
<1>12. CASE Analyze
  <2>1. phase' = "over" /\ status' \in {"ABORTED", "COMPLETED", "NEEDS_REVIEW"}
        /\ UNCHANGED <<plan, visited, progress, results, work, call>>
    BY <1>12 DEF Analyze, EndRun
  <2> QED
    BY <1>0, <2>1, SameTyped
<1>13. CASE UNCHANGED vars
  BY <1>0, <1>13, SameTyped DEF vars, agentVars, Typed
<1> QED
  BY <1>1, <1>2, <1>3, <1>4, <1>5, <1>6, <1>7, <1>8, <1>9, <1>10, <1>11, <1>12, <1>13
  DEF Next, Over

\* which hold at first.
LEMMA InitTyped == Init => Typed
<1> SUFFICES ASSUME Init PROVE Typed
  OBVIOUS
<1>1. /\ plan = <<>> /\ visited = 0 /\ progress = FALSE /\ DOMAIN results = {}
      /\ work = NoWork /\ call = NoCall /\ phase = "start" /\ status = "RUNNING"
  BY DEF Init
<1>2. 0 \in 0..Len(<<>>)
  OBVIOUS
<1>3. 0 \in 0..MaxDecisions
  BY ControllerAssumption DEF ControllerAssumption
<1>4. work.step = 0 /\ call.attempt = 0
  BY <1>1, NoWorkShaped, CallTyped
<1>5. visited \in 0..Len(plan)
  BY <1>1, <1>2
<1>6. ResultsTyped
  BY <1>1 DEF ResultsTyped
<1>7. work.step \in 0..MaxDecisions /\ call.attempt \in 0..3
  BY <1>3, <1>4
<1>8. /\ phase \in {"start", "schedule", "decide", "call", "settle", "report", "over"}
      /\ status \in {"RUNNING", "COMPLETED", "NEEDS_REVIEW", "FAILED", "ABORTED"}
      /\ progress \in BOOLEAN
  BY <1>1
<1> QED
  BY <1>5, <1>6, <1>7, <1>8 DEF Typed

\* The run keeps to its decisions and attempts (the two loops of executeTask) and
\* to the gateway's budget, and records results for tasks of its plan only.
THEOREM TypeCorrect == Spec => []AgentTypeOK
<1>1. Ordered /\ Paged /\ Typed /\ [Next]_vars => Typed'
  BY StepTyped
<1>2. Typed /\ Budget => AgentTypeOK
  BY DEF Typed, ResultsTyped, Statuses, Budget, AgentTypeOK
<1> QED
  BY <1>1, <1>2, InitTyped, OrderedAlways, PagedAlways, BudgetKept, PTL DEF Spec

-----------------------------------------------------------------------------
(***************************************************************************)
(* The schedule: what a step does to the task, the pass and the plan.      *)
(***************************************************************************)

\* A step within a task begins a call,
CallBegins ==
  /\ phase = "decide" /\ phase' = "call" /\ call'.attempt = 1
  /\ UNCHANGED <<plan, visited, progress, results, work>>

\* makes it,
CallReturns ==
  /\ phase = "call" /\ phase' = "settle"
  /\ UNCHANGED <<plan, visited, progress, results, work, call>>

\* repeats it,
CallRepeats ==
  /\ phase = "settle" /\ phase' = "call"
  /\ call.attempt < call'.attempt /\ call'.attempt \in 1..3
  /\ UNCHANGED <<plan, visited, progress, results, work>>

\* goes on to the next decision
TaskGoesOn ==
  /\ Busy /\ phase' = "decide"
  /\ work.step < MaxDecisions /\ work'.step = work.step + 1 /\ work'.task = work.task
  /\ UNCHANGED <<plan, visited, progress, results>>

\* or ends the task.
TaskEnds ==
  /\ Busy /\ phase' = "schedule" /\ visited' = visited + 1
  /\ DOMAIN results' = DOMAIN results \union {work.task.id}
  /\ UNCHANGED <<plan, progress>>

Within == CallBegins \/ CallReturns \/ CallRepeats \/ TaskGoesOn \/ TaskEnds

LEMMA EndTaskEnds ==
  ASSUME Busy, UNCHANGED <<plan, progress>>, NEW result, EndTask(result)
  PROVE  TaskEnds
BY DEF EndTask, Record, TaskEnds

LEMMA DecideAgainWithin ==
  ASSUME Busy, UNCHANGED <<plan, progress>>, NEW next, Shaped(next),
         next.step = work.step, next.task = work.task, Typed, DecideAgain(next)
  PROVE  TaskEnds \/ TaskGoesOn
<1>1. CASE Partial
  BY <1>1, EndTaskEnds DEF Partial
<1>2. CASE /\ work.step < MaxDecisions
           /\ phase' = "decide" /\ work' = [next EXCEPT !.step = @ + 1]
           /\ UNCHANGED <<visited, results>>
  <2>1. work'.step = work.step + 1 /\ work'.task = work.task
    BY <1>2 DEF Shaped
  <2> QED
    BY <1>2, <2>1 DEF TaskGoesOn
<1> QED
  BY <1>1, <1>2 DEF DecideAgain

\* Every step of the loop in executeTask is one of these.
LEMMA StepWithin ==
  ASSUME Paged, Typed,
         ChooseCall \/ ChooseInvalid \/ Abandon \/ Finish \/ CallTool \/ Reinvoke \/ Observe
  PROVE  Within
<1>0. Shaped(work) /\ call.attempt \in 0..3
  BY DEF Paged, Typed
<1>1. CASE ChooseCall
  <2>1. call'.attempt = 1
    BY <1>1, CallTyped DEF ChooseCall
  <2> QED
    BY <1>1, <2>1 DEF ChooseCall, Within, CallBegins
<1>2. CASE ChooseInvalid
  <2>1. Busy /\ UNCHANGED <<plan, progress>> /\ phase = "decide"
    BY <1>2 DEF ChooseInvalid, Busy
  <2>2. CASE phase' = "call" /\ UNCHANGED <<visited, results, work>>
             /\ \E safe \in SafeCalls : Perform(safe, 1)
    <3>1. call'.attempt = 1
      BY <2>2, CallTyped
    <3> QED
      BY <2>1, <2>2, <3>1 DEF Within, CallBegins
  <2>3. CASE DecideAgain(work)
    BY <1>0, <2>1, <2>3, DecideAgainWithin DEF Within
  <2> QED
    BY <1>2, <2>2, <2>3 DEF ChooseInvalid
<1>3. CASE Abandon
  <2>1. Busy /\ UNCHANGED <<plan, progress>> /\ Partial
    BY <1>3 DEF Abandon, Busy
  <2> QED
    BY <2>1, EndTaskEnds DEF Partial, Within
<1>4. CASE Finish
  <2>1. Busy /\ UNCHANGED <<plan, progress>>
    BY <1>4 DEF Finish, Busy
  <2>2. CASE DecideAgain(work)
    BY <1>0, <2>1, <2>2, DecideAgainWithin DEF Within
  <2>3. ASSUME NEW findings, NEW gaps,
               EndTask([status |-> "SUCCEEDED", findings |-> findings, gaps |-> gaps])
        PROVE  Within
    BY <2>1, <2>3, EndTaskEnds DEF Within
  <2> QED
    BY <1>4, <2>2, <2>3 DEF Finish
<1>5. CASE CallTool
  BY <1>5 DEF CallTool, Within, CallReturns
<1>6. CASE Reinvoke
  <2>1. phase = "settle" /\ phase' = "call"
        /\ UNCHANGED <<plan, visited, progress, results, work>>
    BY <1>6 DEF Reinvoke
  <2>2. CASE Again /\ Perform(call, 2)
    <3>1. call.attempt = 1 /\ call'.attempt = 2
      BY <2>2, CallTyped DEF Again
    <3> QED
      BY <2>1, <3>1 DEF Within, CallRepeats
  <2>3. CASE \E safe \in Repairs : Perform(safe, 3)
    <3>1. call.attempt < 3 /\ call'.attempt = 3
      BY <2>3, CallTyped DEF Repairs
    <3> QED
      BY <2>1, <3>1 DEF Within, CallRepeats
  <2> QED
    BY <1>6, <2>2, <2>3 DEF Reinvoke
<1>7. CASE Observe
  <2>1. Busy /\ UNCHANGED <<plan, progress>>
    BY <1>7 DEF Observe, Busy
  <2> DEFINE known == [work EXCEPT !.completed = NowCompleted, !.cursors = NowCursors,
                                   !.refs = @ \union Found]
  <2>2. ASSUME NEW copies,
               EndTask([status |-> "SUCCEEDED", gaps |-> FALSE, findings |-> copies])
        PROVE  Within
    BY <2>1, <2>2, EndTaskEnds DEF Within
  <2>3. CASE DecideAgain(known)
    <3>1. PICK next : next = known
      OBVIOUS
    <3>2. Shaped(next) /\ next.step = work.step /\ next.task = work.task
      BY <1>0, <3>1 DEF Shaped
    <3>3. DecideAgain(next)
      BY <2>3, <3>1
    <3> HIDE DEF known
    <3> QED
      BY <2>1, <3>2, <3>3, DecideAgainWithin DEF Within
  <2> QED
    BY <1>7, <2>2, <2>3 DEF Observe
<1> QED
  BY <1>1, <1>2, <1>3, <1>4, <1>5, <1>6, <1>7

-----------------------------------------------------------------------------
(***************************************************************************)
(* A valid plan never stalls.                                              *)
(***************************************************************************)

\* The two folds of Resolved: one pass over the tasks, and the passes.
AddTask(done, t) == IF t.deps \subseteq done THEN done \union {t.id} ELSE done

OnePass(tasks, done) == FoldLeft(AddTask, done, tasks)

PassFold == INSTANCE FoldFacts
  WITH op <- LAMBDA p, x, y : AddTask(y, x), f <- LAMBDA q, i : q[i],
       choose <- LAMBDA s : Max(s)

PassesFold == INSTANCE FoldFacts
  WITH op <- LAMBDA p, x, y : OnePass(p, y), f <- LAMBDA q, i : q[i],
       choose <- LAMBDA s : Max(s)

LEMMA PassIs ==
  ASSUME NEW tasks, NEW done
  PROVE  OnePass(tasks, done) = PassFold!FoldOf(tasks, tasks, done, DOMAIN tasks)
BY DEF OnePass, FoldLeft, PassFold!FoldOf, MapThenFoldSet, PassFold!MapThenFoldSet

LEMMA ResolvedIs ==
  ASSUME NEW tasks
  PROVE  Resolved(tasks) = PassesFold!FoldOf(tasks, tasks, {}, DOMAIN tasks)
BY DEF Resolved, OnePass, AddTask, FoldLeft, PassesFold!FoldOf, MapThenFoldSet,
       PassesFold!MapThenFoldSet

\* The greatest of some positions of a list is one of them.
LEMMA Positions ==
  ASSUME NEW n \in Nat
  PROVE  /\ PassFold!IsFiniteSet(1..n) /\ PassFold!Chooses(1..n)
         /\ PassesFold!IsFiniteSet(1..n) /\ PassesFold!Chooses(1..n)
<1>1. IsFiniteSet(1..n)
  BY FS_Interval
<1>2. \A T \in SUBSET (1..n) : T # {} => Max(T) \in T
  BY ScanFold!Bounds, SUBSET (1..n) \subseteq SUBSET (0..n) DEF Max
<1> QED
  BY <1>1, <1>2
  DEF IsFiniteSet, PassFold!IsFiniteSet, PassFold!Chooses, PassesFold!IsFiniteSet, PassesFold!Chooses

\* What ValidatePlan resolves lies in every set that has each task whose
\* dependencies it has.
LEMMA ResolvedLeast ==
  ASSUME NEW tasks \in Seq(Task), NEW D,
         \A i \in 1..Len(tasks) : tasks[i].deps \subseteq D => tasks[i].id \in D
  PROVE  Resolved(tasks) \subseteq D
<1> DEFINE V == SUBSET D
<1>1. PICK n \in Nat : n = Len(tasks) /\ DOMAIN tasks = 1..n
  OBVIOUS
<1>2. ASSUME NEW done \in V PROVE OnePass(tasks, done) \in V
  <2>1. \A i \in 1..n : \A y \in V : AddTask(y, tasks[i]) \in V
    BY <1>1 DEF AddTask
  <2>2. PassFold!FoldOf(tasks, tasks, done, 1..n) \in V
    <3> HIDE DEF V
    <3> QED
      BY <2>1, Positions, PassFold!Stays
  <2> QED
    BY <1>1, <2>2, PassIs
<1>3. PassesFold!FoldOf(tasks, tasks, {}, 1..n) \in V
  <2>1. {} \in V
    OBVIOUS
  <2> HIDE DEF V
  <2> QED
    BY <1>2, <2>1, Positions, PassesFold!Stays
<1> QED
  BY <1>1, <1>3, ResolvedIs

\* The task is done, or waits for one that is not.
Stuck(t) == Finished(t.id) \/ ~ \A id \in t.deps : Finished(id)

AllStuck == \A i \in 1..visited : Stuck(plan[i])

\* A pass that made no progress found only such tasks, and not all are done.
Unstalled ==
  /\ Busy => progress
  /\ phase \notin {"start", "over"} => ValidPlan(plan)
  /\ phase = "schedule" /\ ~progress => DOMAIN results # Ids(plan) /\ AllStuck

LEMMA InitUnstalled == Init => Unstalled
BY DEF Init, Unstalled, Busy

LEMMA VisitUnstalled ==
  ASSUME Typed, Unstalled, Visit
  PROVE  Unstalled'
<1>1. phase = "schedule" /\ plan' = plan /\ ValidPlan(plan')
  BY DEF Visit, Unstalled
<1>2. PICK t : t = plan[visited + 1]
  OBVIOUS
<1>3. CASE Pass(t)
  <2>1. Stuck(t) /\ visited' = visited + 1 /\ UNCHANGED <<phase, progress, results>>
    BY <1>3 DEF Pass, Stuck
  <2>2. \A i \in 1..visited' : i \in 1..visited \/ i = visited + 1
    BY <2>1 DEF Typed
  <2>3. \A u : Stuck(u)' <=> Stuck(u)
    BY <2>1 DEF Stuck, Finished
  <2>4. ~Busy /\ ~Busy'
    BY <1>1, <2>1 DEF Busy
  <2>5. ~progress => Ids(plan) # DOMAIN results /\ AllStuck
    BY <1>1 DEF Unstalled
  <2>6. AllStuck => AllStuck'
    <3>1. ASSUME AllStuck PROVE \A i \in 1..visited' : Stuck(plan[i])
      BY <1>2, <2>1, <2>2, <3>1 DEF AllStuck
    <3> QED
      BY <1>1, <2>3, <3>1 DEF AllStuck
  <2>7. Ids(plan') = Ids(plan)
    BY <1>1
  <2> QED
    BY <1>1, <2>1, <2>4, <2>5, <2>6, <2>7 DEF Unstalled
<1>4. CASE Block(t) \/ Start(t)
  <2>1. progress' = TRUE
    BY <1>4 DEF Block, Start
  <2> QED
    BY <1>1, <2>1 DEF Unstalled
<1> QED
  BY <1>2, <1>3, <1>4 DEF Visit

LEMMA StepUnstalled ==
  ASSUME Ordered, Paged, Typed, Unstalled, [Next]_vars
  PROVE  Unstalled'
<1>1. CASE GiveUp \/ Analyze
  BY <1>1 DEF GiveUp, Analyze, EndRun, Unstalled, Busy
<1>2. CASE MakePlan
  <2>1. ValidPlan(plan') /\ phase' = "schedule" /\ visited' = 0 /\ DOMAIN results' = {}
    BY <1>2 DEF MakePlan, Ordered
  <2>2. Ids(plan') # {}
    <3>1. 1 \in DOMAIN plan'
      BY <2>1 DEF ValidPlan
    <3> QED
      BY <3>1 DEF Ids, ToSet
  <2> QED
    BY <2>1, <2>2 DEF Unstalled, AllStuck, Busy
<1>3. CASE Visit
  BY <1>3, VisitUnstalled
<1>4. CASE EndPass
  <2>1. /\ UNCHANGED <<plan, results>> /\ visited' = 0 /\ ValidPlan(plan')
        /\ \/ phase' \in {"over", "report"}
           \/ phase' = "schedule" /\ DOMAIN results # Ids(plan)
    BY <1>4 DEF EndPass, Unstalled
  <2> QED
    BY <2>1 DEF Unstalled, AllStuck, Busy, Ids
<1>5. CASE Within
  <2>1. plan' = plan /\ ValidPlan(plan') /\ progress' = progress /\ progress
    BY <1>5 DEF Within, CallBegins, CallReturns, CallRepeats, TaskGoesOn, TaskEnds, Busy, Unstalled
  <2> QED
    BY <2>1 DEF Unstalled
<1>6. CASE UNCHANGED vars
  BY <1>6 DEF vars, agentVars, Unstalled, AllStuck, Busy, Ids, Stuck, Finished
<1> QED
  BY <1>1, <1>2, <1>3, <1>4, <1>5, <1>6, StepWithin DEF Next, Over

\* A pass over the plan never ends without progress.
Progressing == phase = "schedule" /\ visited = Len(plan) => progress

\* The controller's error SCHEDULER_STALLED cannot occur: a plan ValidatePlan lets
\* through has, as long as a task is left, one whose dependencies are done, and
\* each pass executes or blocks it.
THEOREM SchedulerNeverStalls == Spec => []Progressing
<1>1. Ordered /\ Typed /\ Unstalled => Progressing
  <2> SUFFICES ASSUME Ordered, Typed, Unstalled, phase = "schedule", visited = Len(plan), ~progress
               PROVE  FALSE
    BY DEF Progressing
  <2>1. ValidPlan(plan) /\ DOMAIN results # Ids(plan) /\ \A i \in 1..Len(plan) : Stuck(plan[i])
    BY DEF Unstalled, AllStuck
  <2>2. \A i \in 1..Len(plan) : plan[i].deps \subseteq DOMAIN results => plan[i].id \in DOMAIN results
    BY <2>1 DEF Stuck, Finished
  <2>3. Resolved(plan) \subseteq DOMAIN results
    BY <2>2, ResolvedLeast DEF Ordered
  <2>4. Resolved(plan) = Ids(plan) /\ DOMAIN results \subseteq Ids(plan)
    BY <2>1 DEF ValidPlan, Typed, ResultsTyped
  <2> QED
    BY <2>1, <2>3, <2>4
<1>2. Ordered /\ Paged /\ Typed /\ Unstalled /\ [Next]_vars => Unstalled'
  BY StepUnstalled
<1>3. Ordered /\ Paged /\ Typed /\ [Next]_vars => Typed'
  BY StepTyped
<1> QED
  BY <1>1, <1>2, <1>3, InitUnstalled, InitTyped, OrderedAlways, PagedAlways, PTL DEF Spec

-----------------------------------------------------------------------------
(***************************************************************************)
(* Every step comes closer to the end.                                     *)
(***************************************************************************)

\* How far the run is from its end, the coarsest measure first.
Stage ==
  CASE phase = "start" -> 3 [] phase = "report" -> 1 [] phase = "over" -> 0 [] OTHER -> 2

Unstarted == Ids(plan) \ (DOMAIN results \union IF Busy THEN {work.task.id} ELSE {})

\* A pass that made progress is followed by another.
Passes == 2 * Cardinality(Unstarted) + IF progress THEN 1 ELSE 0

Unvisited == Len(plan) - visited

Decisions == IF Busy THEN MaxDecisions - work.step ELSE 0

\* Up to two calls follow a decision, the one chosen and one after it.
Doing ==
  CASE phase = "decide" -> 7
    [] phase = "call" -> 8 - 2 * call.attempt
    [] phase = "settle" -> 7 - 2 * call.attempt
    [] OTHER -> 0

Distance == <<Stage, Passes, Unvisited, Decisions, Doing>>

DistanceTyped == \A i \in 1..5 : Distance[i] \in Nat

\* The distance falls in the order of its first difference.
Closer ==
  \E i \in 1..5 : Distance'[i] < Distance[i] /\ \A j \in 1..(i - 1) : Distance'[j] = Distance[j]

LEMMA Falls ==
  /\ Stage' < Stage => Closer
  /\ Stage' = Stage /\ Passes' < Passes => Closer
  /\ Stage' = Stage /\ Passes' = Passes /\ Unvisited' < Unvisited => Closer
  /\ Stage' = Stage /\ Passes' = Passes /\ Unvisited' = Unvisited /\ Decisions' < Decisions => Closer
  /\ Stage' = Stage /\ Passes' = Passes /\ Unvisited' = Unvisited /\ Decisions' = Decisions
       /\ Doing' < Doing => Closer
<1>1. /\ Distance[1] = Stage /\ Distance[2] = Passes /\ Distance[3] = Unvisited
      /\ Distance[4] = Decisions /\ Distance[5] = Doing
      /\ Distance'[1] = Stage' /\ Distance'[2] = Passes' /\ Distance'[3] = Unvisited'
      /\ Distance'[4] = Decisions' /\ Distance'[5] = Doing'
  BY DEF Distance
<1>2. \A k \in 1..5 : \A j \in 1..(k - 1) :
        j = 1 \/ (j = 2 /\ k > 2) \/ (j = 3 /\ k > 3) \/ (j = 4 /\ k > 4)
  OBVIOUS
<1>3. 1 \in 1..5 /\ 2 \in 1..5 /\ 3 \in 1..5 /\ 4 \in 1..5 /\ 5 \in 1..5
  OBVIOUS
<1>4. Stage' < Stage => Closer
  BY <1>1, <1>2, <1>3 DEF Closer
<1>5. Stage' = Stage /\ Passes' < Passes => Closer
  BY <1>1, <1>2, <1>3 DEF Closer
<1>6. Stage' = Stage /\ Passes' = Passes /\ Unvisited' < Unvisited => Closer
  BY <1>1, <1>2, <1>3 DEF Closer
<1>7. Stage' = Stage /\ Passes' = Passes /\ Unvisited' = Unvisited /\ Decisions' < Decisions => Closer
  BY <1>1, <1>2, <1>3 DEF Closer
<1>8. Stage' = Stage /\ Passes' = Passes /\ Unvisited' = Unvisited /\ Decisions' = Decisions
        /\ Doing' < Doing => Closer
  BY <1>1, <1>2, <1>3 DEF Closer
<1> QED
  BY <1>4, <1>5, <1>6, <1>7, <1>8

\* A plan has finitely many tasks.
LEMMA FiniteTasks ==
  ASSUME NEW tasks \in Seq(Task), NEW T \in SUBSET Ids(tasks)
  PROVE  IsFiniteSet(T) /\ Cardinality(T) \in Nat
<1> DEFINE r == [i \in 1..Len(tasks) |-> tasks[i].id]
<1>1. r \in Surjection(1..Len(tasks), Ids(tasks))
  BY DEF Surjection, Ids, ToSet
<1>2. IsFiniteSet(1..Len(tasks))
  BY FS_Interval
<1>3. IsFiniteSet(Ids(tasks))
  BY <1>1, <1>2, FS_Surjection
<1> QED
  BY <1>3, FS_Subset, FS_CardinalityType

LEMMA TypedDistance ==
  ASSUME Ordered, Typed
  PROVE  /\ Stage \in 0..3 /\ Passes \in Nat /\ Unvisited \in Nat
         /\ Decisions \in Nat /\ Doing \in Nat
         /\ IsFiniteSet(Unstarted) /\ Cardinality(Unstarted) \in Nat
<1>1. IsFiniteSet(Unstarted) /\ Cardinality(Unstarted) \in Nat
  BY FiniteTasks DEF Ordered, Unstarted
<1>2. Stage \in 0..3
  BY DEF Stage
<1>3. Passes \in Nat
  BY <1>1 DEF Passes
<1>4. Unvisited \in Nat
  BY DEF Unvisited, Typed, Ordered
<1>5. Decisions \in Nat
  BY ControllerAssumption DEF Decisions, Typed, ControllerAssumption
<1>6. Doing \in Nat
  BY DEF Doing, Typed
<1> QED
  BY <1>1, <1>2, <1>3, <1>4, <1>5, <1>6

\* A task that is started or blocked leaves fewer to start.
LEMMA StartsCloser ==
  ASSUME Ordered, Typed, phase = "schedule", NEW i \in 1..Len(plan), ~Finished(plan[i].id),
         Unstarted' = Unstarted \ {plan[i].id}, progress' = TRUE, Stage' = Stage
  PROVE  Closer
<1>1. plan[i].id \in Unstarted
  BY DEF Unstarted, Busy, Finished, Ids, ToSet, Ordered
<1>2. IsFiniteSet(Unstarted) /\ Cardinality(Unstarted) \in Nat
  BY TypedDistance
<1>3. Cardinality(Unstarted') = Cardinality(Unstarted) - 1
  BY <1>1, <1>2, FS_RemoveElement
<1>4. Passes' < Passes
  BY <1>2, <1>3 DEF Passes
<1> QED
  BY <1>4, Falls

LEMMA VisitCloser ==
  ASSUME Ordered, Typed, Visit
  PROVE  Closer
<1>1. phase = "schedule" /\ visited + 1 \in 1..Len(plan) /\ visited \in Nat /\ plan' = plan
  BY DEF Visit, Typed, Ordered
<1>2. PICK i \in 1..Len(plan) : i = visited + 1
  BY <1>1
<1>3. PICK t : t = plan[i]
  OBVIOUS
<1>4. Len(plan) \in Nat
  BY DEF Ordered
<1>5. CASE Pass(t)
  <2>1. visited' = visited + 1 /\ UNCHANGED <<phase, progress, results, work>>
    BY <1>5 DEF Pass
  <2>2. Unvisited' < Unvisited
    BY <1>1, <1>4, <2>1 DEF Unvisited
  <2>3. Stage' = Stage /\ Passes' = Passes
    BY <1>1, <2>1 DEF Stage, Passes, Unstarted, Busy, Ids
  <2> QED
    BY <2>2, <2>3, Falls
<1>6. ASSUME NEW result, Record(t.id, result), progress' = TRUE, phase' = phase, ~Finished(t.id)
      PROVE  Closer
  <2>1. DOMAIN results' = DOMAIN results \union {t.id}
    BY <1>6 DEF Record
  <2>2. Unstarted' = Unstarted \ {t.id}
    BY <1>1, <1>6, <2>1 DEF Unstarted, Busy, Ids
  <2>3. Stage' = Stage
    BY <1>6 DEF Stage
  <2> QED
    BY <1>1, <1>3, <1>6, <2>2, <2>3, StartsCloser
<1>7. CASE Block(t)
  BY <1>6, <1>7 DEF Block
<1>8. CASE Start(t)
  <2>1. ~Finished(t.id) /\ progress' = TRUE
    BY <1>8 DEF Start
  <2>2. CASE /\ Record(t.id, [status |-> "PARTIAL", findings |-> {}, gaps |-> TRUE])
             /\ UNCHANGED phase
    BY <1>6, <2>1, <2>2
  <2>3. CASE /\ work' = [NoWork EXCEPT !.task = t, !.step = 1]
             /\ phase' = "decide" /\ UNCHANGED results
    <3>1. work'.task = t
      BY <2>3, NoWorkTask
    <3>2. Unstarted' = Unstarted \ {t.id}
      BY <1>1, <2>3, <3>1 DEF Unstarted, Busy, Ids
    <3>3. Stage' = Stage
      BY <1>1, <2>3 DEF Stage
    <3> QED
      BY <1>1, <1>3, <2>1, <3>2, <3>3, StartsCloser
  <2> QED
    BY <1>8, <2>2, <2>3 DEF Start
<1> QED
  BY <1>2, <1>3, <1>5, <1>7, <1>8 DEF Visit

LEMMA EndPassCloser ==
  ASSUME Ordered, Typed, EndPass
  PROVE  Closer
<1>1. phase = "schedule" /\ progress' = FALSE /\ UNCHANGED <<plan, results, work>>
  BY DEF EndPass
<1>2. CASE phase' \in {"report", "over"}
  <2>1. Stage' < Stage
    BY <1>1, <1>2 DEF Stage
  <2> QED
    BY <2>1, Falls
<1>3. CASE phase' = "schedule" /\ progress
  <2>1. Stage' = Stage /\ Unstarted' = Unstarted
    BY <1>1, <1>3 DEF Stage, Unstarted, Busy, Ids
  <2>2. Passes' < Passes
    BY <1>1, <1>3, <2>1, TypedDistance DEF Passes
  <2> QED
    BY <2>1, <2>2, Falls
<1> QED
  BY <1>1, <1>2, <1>3 DEF EndPass, Typed

LEMMA WithinCloser ==
  ASSUME Ordered, Typed, Within
  PROVE  Closer
<1>1. Busy /\ progress' = progress /\ plan' = plan /\ phase \notin {"start", "report", "over"}
      /\ phase' \in {"decide", "call", "settle", "schedule"}
  BY DEF Within, CallBegins, CallReturns, CallRepeats, TaskGoesOn, TaskEnds, Busy
<1>2. Stage' = Stage
  BY <1>1 DEF Stage
<1>3. call.attempt \in 0..3 /\ work.step \in 0..MaxDecisions /\ MaxDecisions \in Nat
      /\ visited \in 0..Len(plan) /\ Len(plan) \in Nat
  BY ControllerAssumption DEF Typed, Ordered, ControllerAssumption
<1>4. ASSUME Busy', DOMAIN results' = DOMAIN results, work'.task = work.task PROVE Passes' = Passes
  BY <1>1, <1>4 DEF Passes, Unstarted, Ids
<1>5. CASE CallBegins \/ CallReturns \/ CallRepeats
  <2>1. Busy' /\ UNCHANGED <<visited, results, work>>
    BY <1>5 DEF CallBegins, CallReturns, CallRepeats, Busy
  <2>2. Passes' = Passes /\ Unvisited' = Unvisited /\ Decisions' = Decisions
    BY <1>1, <1>4, <2>1 DEF Unvisited, Decisions
  <2>3. Doing' < Doing
    BY <1>3, <1>5 DEF CallBegins, CallReturns, CallRepeats, Doing
  <2> QED
    BY <1>2, <2>2, <2>3, Falls
<1>6. CASE TaskGoesOn
  <2>1. Busy' /\ UNCHANGED <<visited, results>> /\ work'.task = work.task
    BY <1>6 DEF TaskGoesOn, Busy
  <2>2. Passes' = Passes /\ Unvisited' = Unvisited
    BY <1>1, <1>4, <2>1 DEF Unvisited
  <2>3. Decisions' < Decisions
    BY <1>1, <1>3, <1>6, <2>1 DEF TaskGoesOn, Decisions
  <2> QED
    BY <1>2, <2>2, <2>3, Falls
<1>7. CASE TaskEnds
  <2>1. ~Busy' /\ DOMAIN results' = DOMAIN results \union {work.task.id} /\ visited' = visited + 1
    BY <1>7 DEF TaskEnds, Busy
  <2>2. Passes' = Passes
    BY <1>1, <2>1 DEF Passes, Unstarted, Ids
  <2>3. Unvisited' < Unvisited
    BY <1>1, <1>3, <2>1 DEF Unvisited
  <2> QED
    BY <1>2, <2>2, <2>3, Falls
<1> QED
  BY <1>5, <1>6, <1>7 DEF Within

LEMMA StepCloser ==
  ASSUME Ordered, Paged, Typed, [Next]_vars
  PROVE  [Closer]_vars
<1>1. CASE GiveUp \/ MakePlan \/ Analyze
  <2>1. Stage' < Stage
    BY <1>1 DEF GiveUp, MakePlan, Analyze, EndRun, Stage
  <2> QED
    BY <2>1, Falls
<1>2. CASE Visit
  BY <1>2, VisitCloser
<1>3. CASE EndPass
  BY <1>3, EndPassCloser
<1>4. CASE Within
  BY <1>4, WithinCloser
<1> QED
  BY <1>1, <1>2, <1>3, <1>4, StepWithin DEF Next, Over

\* Every step of an investigation brings it closer to its end, whatever the models
\* and the tools answer and for any plan and bounds: the distance has five natural
\* numbers and falls in their lexicographic order, so no run takes steps for ever
\* (the loops of Run and executeTask).
THEOREM EndComesCloser == Spec => []DistanceTyped /\ [][Closer]_vars
<1>1. Ordered /\ Typed => DistanceTyped
  <2> SUFFICES ASSUME Ordered, Typed PROVE DistanceTyped
    OBVIOUS
  <2>1. \A i \in 1..5 : i = 1 \/ i = 2 \/ i = 3 \/ i = 4 \/ i = 5
    OBVIOUS
  <2>2. /\ Stage \in Nat /\ Passes \in Nat /\ Unvisited \in Nat
        /\ Decisions \in Nat /\ Doing \in Nat
    BY TypedDistance
  <2>3. /\ Distance[1] = Stage /\ Distance[2] = Passes /\ Distance[3] = Unvisited
        /\ Distance[4] = Decisions /\ Distance[5] = Doing
    BY DEF Distance
  <2> QED
    BY <2>1, <2>2, <2>3 DEF DistanceTyped
<1>2. Ordered /\ Paged /\ Typed /\ [Next]_vars => [Closer]_vars
  BY StepCloser
<1>3. Ordered /\ Paged /\ Typed /\ [Next]_vars => Typed'
  BY StepTyped
<1> QED
  BY <1>1, <1>2, <1>3, InitTyped, OrderedAlways, PagedAlways, PTL DEF Spec
=============================================================================
