--------------------------- MODULE AgentController ---------------------------
(***************************************************************************)
(* The controller of one AI investigation, internal/agentic/controller.go: *)
(* a plan of dependent tasks is validated, each task is a bounded loop of  *)
(* model decisions and tool calls through ToolGateway, and a report is     *)
(* made of what was found.                                                 *)
(*                                                                         *)
(* The three models may answer anything; an answer that ValidateAction     *)
(* refuses is "invalid" whatever is wrong with it.  A finding is its type, *)
(* what it cites and whether it copies the cited fact.  Log writes whose   *)
(* failure the code ignores are left out.                                  *)
(***************************************************************************)
EXTENDS ToolGateway

CONSTANTS
  Proposals,     \* plans the planner may propose
  Available,     \* tools enabled for the run
  MaxDecisions,  \* model decisions per task (code: 4)
  MaxLimit,      \* the largest page size (code: 50)
  MadeUp         \* an evidence id nobody registered

VARIABLES
  phase,     \* where the run is
  plan,      \* the accepted tasks, in the planner's order
  visited,   \* tasks the current pass over the plan has looked at
  progress,  \* whether this pass ran or blocked a task
  results,   \* by task id: status, findings and whether there are gaps
  work,      \* the task being executed: decision, completed tools, ...
  call,      \* the tool call under way and which attempt it is
  evidence,  \* evidence registered so far
  whole,     \* history: task and query of each complete result observed
  status,    \* of the run
  report

agentVars == <<phase, plan, visited, progress, results, work, call, evidence, whole, status, report>>

vars == <<agentVars, gatewayVars>>

-----------------------------------------------------------------------------
\* ValidatePlan resolves dependencies pass by pass, in the order of the tasks.
Resolved(tasks) ==
  LET Add(done, t) == IF t.deps \subseteq done THEN done \union {t.id} ELSE done
  IN  FoldLeft(LAMBDA done, k : FoldLeft(Add, done, tasks), {}, tasks)

Ids(tasks) == {t.id : t \in ToSet(tasks)}

Task == [id : STRING, deps : SUBSET STRING, required : Seq(STRING), optional : Seq(STRING)]

\* The tools a task may use.
Allowed(t) == ToSet(t.required \o t.optional)

ValidPlan(tasks) ==
  /\ tasks \in Seq(Task) /\ Len(tasks) \in 1..8
  /\ \A i, j \in DOMAIN tasks : tasks[i].id = tasks[j].id => i = j
  /\ \A t \in ToSet(tasks) :
       /\ t.required # <<>> /\ Len(t.required \o t.optional) <= 5
       /\ Allowed(t) \subseteq Available
       /\ IsInjective(t.required \o t.optional)
       /\ t.deps \subseteq Ids(tasks)
  /\ Resolved(tasks) = Ids(tasks)

\* The plans used instead of an invalid one: T1 on the processes, the others
\* after it; without any of these tools, one task on any tool there is.
FallbackPlans ==
  LET Ask(id, tool, deps) == [id |-> id, deps |-> deps, required |-> <<tool>>, optional |-> <<>>]
      first == IF "process_events_query" \in Available THEN {"T1"} ELSE {}
      tasks == SelectSeq(
        <<Ask("T1", "process_events_query", {}), Ask("T2", "file_events_query", first),
          Ask("T3", "network_connections_query", first),
          Ask("T4", "kernel_security_events_query", first)>>,
        LAMBDA t : Allowed(t) \subseteq Available)
  IN  IF tasks # <<>> THEN {tasks} ELSE {<<Ask("T1", tool, {})>> : tool \in Available}

ASSUME ControllerAssumption ==
  /\ Available \subseteq Tools /\ Available # {}
  /\ MaxDecisions \in Nat \ {0} /\ MaxLimit \in 1..ChunkSize

-----------------------------------------------------------------------------
NoWork == [task |-> <<>>, step |-> 0, completed |-> {}, cursors |-> {}, refs |-> {}]

NoCall == [query |-> <<>>, cursor |-> <<>>, args |-> "", attempt |-> 0]

NoReport == [class |-> "", findings |-> {}]

Init ==
  /\ GatewayInit
  /\ phase = "start" /\ status = "RUNNING" /\ report = NoReport
  /\ plan = <<>> /\ visited = 0 /\ progress = FALSE /\ results = [id \in {} |-> id]
  /\ work = NoWork /\ call = NoCall
  /\ evidence = {} /\ whole = {}

EndRun(outcome) == phase' = "over" /\ status' = outcome

\* The planner fails or no plan is valid, or an audit write the run depends on fails.
GiveUp ==
  /\ phase = "start"
  /\ EndRun("FAILED") \/ EndRun("ABORTED")
  /\ UNCHANGED <<plan, visited, progress, results, work, call, evidence, whole, report, gatewayVars>>

MakePlan ==
  /\ phase = "start"
  /\ \E tasks \in Proposals :
       plan' \in IF ValidPlan(tasks) THEN {tasks} ELSE {p \in FallbackPlans : ValidPlan(p)}
  /\ phase' = "schedule"
  /\ UNCHANGED <<visited, progress, results, work, call, evidence, whole, status, report, gatewayVars>>

-----------------------------------------------------------------------------
\* The loop over the plan.
Finished(id) == id \in DOMAIN results

\* Faulty: a task that was not completed counts as done.
UnmetFailuresOnly(t) == {id \in t.deps : results[id].status = "BLOCKED"}

Unmet(t) == {id \in t.deps : results[id].status # "SUCCEEDED"}

Record(id, result) ==
  results' = [i \in DOMAIN results \union {id} |-> IF i = id THEN result ELSE results[i]]

\* The tasks left for a later pass: finished ones, and those that wait for one.
Pass(t) ==
  /\ Finished(t.id) \/ ~ \A id \in t.deps : Finished(id)
  /\ visited' = visited + 1
  /\ UNCHANGED <<phase, progress, results, work>>

Block(t) ==
  /\ ~Finished(t.id) /\ \A id \in t.deps : Finished(id)
  /\ Unmet(t) # {}
  /\ Record(t.id, [status |-> "BLOCKED", findings |-> {}, gaps |-> TRUE])
  /\ visited' = visited + 1 /\ progress' = TRUE
  /\ UNCHANGED <<phase, work>>

\* executeTask: without an audit record of its start the task is not executed.
Start(t) ==
  /\ ~Finished(t.id) /\ \A id \in t.deps : Finished(id)
  /\ Unmet(t) = {}
  /\ progress' = TRUE
  /\ \/ /\ Record(t.id, [status |-> "PARTIAL", findings |-> {}, gaps |-> TRUE])
        /\ visited' = visited + 1
        /\ UNCHANGED <<phase, work>>
     \/ /\ work' = [NoWork EXCEPT !.task = t, !.step = 1]
        /\ phase' = "decide"
        /\ UNCHANGED <<visited, results>>

Visit ==
  /\ phase = "schedule" /\ visited < Len(plan)
  /\ LET t == plan[visited + 1] IN Pass(t) \/ Block(t) \/ Start(t)
  /\ UNCHANGED <<plan, call, evidence, whole, status, report, gatewayVars>>

\* After a pass: the report, another pass, or SCHEDULER_STALLED.
EndPass ==
  /\ phase = "schedule" /\ visited = Len(plan)
  /\ visited' = 0 /\ progress' = FALSE
  /\ phase' = IF ~progress THEN "over" ELSE IF DOMAIN results = Ids(plan) THEN "report" ELSE phase
  /\ status' = IF progress THEN status ELSE "FAILED"
  /\ UNCHANGED <<plan, results, work, call, evidence, whole, report, gatewayVars>>

-----------------------------------------------------------------------------
\* The decisions of one task.
EndTask(result) ==
  /\ Record(work.task.id, result)
  /\ phase' = "schedule" /\ visited' = visited + 1
  /\ work' = NoWork

Partial == EndTask([status |-> "PARTIAL", findings |-> {}, gaps |-> TRUE])

\* The next decision, the task knowing what is in `next`; after the last the
\* task is left incomplete.
\* Faulty: a decision that led nowhere is not counted.
DecideAgainUncounted(next) ==
  /\ phase' = "decide" /\ work' = next
  /\ UNCHANGED <<visited, results>>

DecideAgain(next) ==
  \/ work.step = MaxDecisions /\ Partial
  \/ /\ work.step < MaxDecisions
     /\ phase' = "decide" /\ work' = [next EXCEPT !.step = @ + 1]
     /\ UNCHANGED <<visited, results>>

FirstPage(q) == [query |-> q, offset |-> 0]

\* safeRequiredAction: the widest query of the first required tool not completed.
SafeCalls ==
  LET left == {i \in DOMAIN work.task.required : work.task.required[i] \notin work.completed}
      tool == work.task.required[Min(left)]
      q == [tool |-> tool, wanted |-> ToSet(Candidates[tool]), limit |-> MaxLimit]
  IN  IF left = {} THEN {} ELSE {[query |-> q, cursor |-> FirstPage(q), args |-> "valid"]}

Perform(c, attempt) ==
  call' = [query |-> c.query, cursor |-> c.cursor, args |-> c.args, attempt |-> attempt]

\* The calls the executor may choose: a query of an allowed tool, from the start
\* or with a cursor it was shown, or with arguments the gateway refuses.
Calls ==
  LET queries == {q \in Queries : q.tool \in Allowed(work.task)}
  IN  {[query |-> q, cursor |-> c, args |-> "valid"] :
          q \in queries, c \in work.cursors}
        \union {[query |-> q, cursor |-> FirstPage(q), args |-> a] :
                  q \in queries, a \in {"valid", "invalid", "foreign"}}

\* CALL_TOOL.  A tool that is completed already gives way to one that is not.
ChooseCall ==
  /\ phase = "decide"
  /\ \E c \in Calls :
       IF c.query.tool \in work.completed /\ SafeCalls # {}
       THEN \E safe \in SafeCalls : Perform(safe, 1)
       ELSE Perform(c, 1)
  /\ phase' = "call"
  /\ UNCHANGED <<plan, visited, progress, results, work, evidence, whole, status, report, gatewayVars>>

\* An action that ValidateAction refuses is repaired, if there is what to query.
ChooseInvalid ==
  /\ phase = "decide"
  /\ \/ /\ \E safe \in SafeCalls : Perform(safe, 1)
        /\ phase' = "call"
        /\ UNCHANGED <<visited, results, work>>
     \/ /\ SafeCalls = {}
        /\ DecideAgain(work)
        /\ UNCHANGED call
  /\ UNCHANGED <<plan, progress, evidence, whole, status, report, gatewayVars>>

\* The executor fails, or REQUEST_REPLAN.
Abandon ==
  /\ phase = "decide"
  /\ Partial
  /\ UNCHANGED <<plan, progress, call, evidence, whole, status, report, gatewayVars>>

\* What a model may cite: nothing, all the evidence, something made up, or both.
Findings ==
  [type : {"OBSERVED", "INFERRED", "UNKNOWN"},
   cites : {{}, evidence, {MadeUp}, evidence \union {MadeUp}},
   copied : BOOLEAN]

\* Faulty: what is cited need not be registered.
ValidFindingAnyCite(f) ==
  /\ f.type # "UNKNOWN" => f.cites # {}
  /\ f.type = "OBSERVED" => f.copied /\ \E e \in f.cites : f.cites = {e}

\* validateFindings.
ValidFinding(f) ==
  /\ f.type # "UNKNOWN" => f.cites # {}
  /\ f.cites \subseteq evidence
  /\ f.type = "OBSERVED" => f.copied /\ \E e \in f.cites : f.cites = {e}

\* What a model may report: nothing or one finding.
FindingSets == {{}} \union {{f} : f \in Findings}

\* FINISH.  ValidateAction refuses findings that cite nothing though they should.
Finish ==
  /\ phase = "decide"
  /\ \E findings \in FindingSets, gaps \in BOOLEAN :
       /\ \A f \in findings : f.type # "UNKNOWN" => f.cites # {}
       /\ IF ToSet(work.task.required) \subseteq work.completed /\ \A f \in findings : ValidFinding(f)
          THEN EndTask([status |-> "SUCCEEDED", findings |-> findings, gaps |-> gaps])
          ELSE DecideAgain(work)
  /\ UNCHANGED <<plan, progress, call, evidence, whole, status, report, gatewayVars>>

-----------------------------------------------------------------------------
CallTool ==
  /\ phase = "call"
  /\ Invoke(work.task.id, call)
  /\ phase' = "settle"
  /\ UNCHANGED <<plan, visited, progress, results, work, call, evidence, whole, status, report>>

\* Once, for a source that may be back.
Again == answer.code = "SOURCE_UNAVAILABLE" /\ answer.retry /\ call.attempt = 1

\* Once, for arguments the gateway refused.
Repairs ==
  IF answer.code = "INVALID_ARGUMENTS" /\ call.attempt < 3
  THEN {safe \in SafeCalls : safe.query # call.query \/ safe.args # call.args} ELSE {}

Reinvoke ==
  /\ phase = "settle"
  /\ \/ Again /\ Perform(call, 2)
     \/ \E safe \in Repairs : Perform(safe, 3)
  /\ phase' = "call" /\ answer' = NoAnswer
  /\ UNCHANGED <<plan, visited, progress, results, work, evidence, whole, status, report, cache, used, audited>>

\* What the task knows with the answer.
NowCompleted == work.completed \union IF answer.complete THEN {call.query.tool} ELSE {}

NowCursors ==
  work.cursors \union
    IF answer.next = 0 THEN {} ELSE {[query |-> call.query, offset |-> answer.next]}

Found == Evidence(work.task.id, call.query, answer.events)

Copy(e) == [type |-> "OBSERVED", cites |-> {e}, copied |-> TRUE]

\* The answer becomes an observation and its evidence is registered.  A task with
\* no optional tool succeeds when its required ones are completed.
Observe ==
  /\ phase = "settle" /\ ~Again /\ Repairs = {}
  /\ evidence' = evidence \union Found
  /\ whole' = whole \union
       IF answer.complete THEN {[task |-> work.task.id, query |-> call.query]} ELSE {}
  /\ IF work.task.optional = <<>> /\ ToSet(work.task.required) \subseteq NowCompleted
     THEN EndTask([status |-> "SUCCEEDED", gaps |-> FALSE,
                   findings |-> {Copy(e) : e \in work.refs \union Found}])
     ELSE DecideAgain([work EXCEPT !.completed = NowCompleted, !.cursors = NowCursors,
                                   !.refs = @ \union Found])
  /\ call' = NoCall /\ answer' = NoAnswer
  /\ UNCHANGED <<plan, progress, status, report, cache, used, audited>>

-----------------------------------------------------------------------------
\* The analyzer's report, or the fallback when there is none or it is not valid;
\* absence of evidence is never reported as such.  Without the audit record of
\* the end the result is thrown away.
FallbackReport ==
  [class |-> "INCONCLUSIVE",
   findings |-> {Copy(e) : e \in evidence}]

Reports ==
  {FallbackReport} \union
  {r \in [class : {"SUSPICIOUS", "NO_ATTACK_EVIDENCE", "INCONCLUSIVE"}, findings : FindingSets] :
     \A f \in r.findings : ValidFinding(f)}

Whole(result) == result.status = "SUCCEEDED" /\ ~result.gaps

Analyze ==
  /\ phase = "report"
  /\ \/ EndRun("ABORTED") /\ UNCHANGED report
     \/ \E r \in Reports :
          /\ report' = [r EXCEPT !.class = IF @ = "NO_ATTACK_EVIDENCE" THEN "INCONCLUSIVE" ELSE @]
          /\ EndRun(IF /\ r.class # "NO_ATTACK_EVIDENCE"
                        /\ \A id \in DOMAIN results : Whole(results[id])
                     THEN "COMPLETED" ELSE "NEEDS_REVIEW")
  /\ UNCHANGED <<plan, visited, progress, results, work, call, evidence, whole, gatewayVars>>

\* The run has returned.
Over == phase = "over" /\ UNCHANGED vars

Next ==
  \/ GiveUp \/ MakePlan \/ Visit \/ EndPass
  \/ ChooseCall \/ ChooseInvalid \/ Abandon \/ Finish
  \/ CallTool \/ Reinvoke \/ Observe
  \/ Analyze \/ Over

Spec == Init /\ [][Next]_vars

\* Model calls end by their timeout and number of tries, tools by their answer.
FairSpec == Spec /\ WF_vars(Next)
-----------------------------------------------------------------------------
Busy == phase \in {"decide", "call", "settle"}

Executing(t) == Busy /\ work.task = t

Succeeded(id) == Finished(id) /\ results[id].status = "SUCCEEDED"

\* The type invariant; the run keeps to its decisions and to its budget.
AgentTypeOK ==
  /\ phase \in {"start", "schedule", "decide", "call", "settle", "report", "over"}
  /\ status \in {"RUNNING", "COMPLETED", "NEEDS_REVIEW", "FAILED", "ABORTED"}
  /\ visited \in 0..Len(plan) /\ progress \in BOOLEAN
  /\ DOMAIN results \subseteq Ids(plan)
  /\ \A id \in DOMAIN results : results[id].status \in {"SUCCEEDED", "PARTIAL", "BLOCKED"}
  /\ work.step \in 0..MaxDecisions
  /\ call.attempt \in 0..3
  /\ used \in 0..MaxToolCalls

\* A task succeeded only if each required tool completed a query in that very
\* task, and of a completed query every event it selects is registered as the
\* task's evidence, however it was paged, cached, retried or repaired
\* (requiredComplete and the cursor checks of Gateway.Invoke).
WholeQueries ==
  /\ \A t \in ToSet(plan) :
       Succeeded(t.id) =>
         \A tool \in ToSet(t.required) : \E w \in whole : w.task = t.id /\ w.query.tool = tool
  /\ \A w \in whole :
       Evidence(w.task, w.query, ToSet(Candidates[w.query.tool]) \intersect w.query.wanted)
         \subseteq evidence

Supported(f) ==
  /\ f.cites \subseteq evidence
  /\ f.type # "UNKNOWN" => f.cites # {}
  /\ f.type = "OBSERVED" => f.copied /\ \E e \in evidence : f.cites = {e}

\* Every finding a task or the report shows rests on registered evidence, and an
\* observed one is the fact of exactly one, whatever the models answer
\* (docs/AI_AGENT_ARCHITECTURE.md:81-83).
Grounded ==
  /\ \A id \in DOMAIN results : \A f \in results[id].findings : Supported(f)
  /\ \A f \in report.findings : Supported(f)

\* No evidence reaches the models unless the audit log has the result it came
\* with, audit failures, cache hits and retries included (Gateway.Invoke).
EvidenceAudited == evidence \subseteq audited

\* A task ran only after all it depends on succeeded, and was blocked only for
\* one that did not; the run is completed only if no task was blocked, cut short
\* or left gaps.
StatusesHonest ==
  /\ \A t \in ToSet(plan) :
       /\ Executing(t) \/ (Finished(t.id) /\ results[t.id].status # "BLOCKED")
            => \A id \in t.deps : Succeeded(id)
       /\ Finished(t.id) /\ results[t.id].status = "BLOCKED"
            => \E id \in t.deps : ~Succeeded(id)
  /\ status = "COMPLETED" =>
       DOMAIN results = Ids(plan) /\ \A id \in DOMAIN results : Whole(results[id])

\* A run ends: no plan stalls the scheduler and no answer of a model or a tool
\* keeps a task going; a plan once made is carried through to the report.
Ends == <>(phase = "over") /\ [](phase = "schedule" => <>(phase = "report"))

\* What docs/AI_AGENT_ARCHITECTURE.md:109 says of a failed audit write: the
\* investigation stops.  The code gives the call an error and goes on.
AuditFailureStops ==
  [](answer.code = "PERSISTENCE_FAILURE" => [](phase # "call"))
=============================================================================
