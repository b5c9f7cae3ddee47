--------------------------- MODULE DetectionRules ---------------------------
(***************************************************************************)
(* The collector's detection policy: the rules of detection_cel.go over    *)
(* the local predicates of detection_policy.go, and the goroutine of       *)
(* cmd/collector/main_linux.go that reloads the rule file on SIGHUP while  *)
(* the router evaluates events.                                            *)
(*                                                                         *)
(* Three parties share the published snapshot: the reloader, which reads,  *)
(* compiles and publishes; the router, which evaluates one event at a time *)
(* (it holds its mutex); and whoever edits the file and sends signals.     *)
(* What a condition says of an event is a constant, and rule ids are       *)
(* numbers in their lexical order, 0 a blank one.  Metrics and the version *)
(* string of a bundle are left out, as is the text of a decision.          *)
(***************************************************************************)
EXTENDS Integers, FiniteSets, SequencesExt

CONSTANTS
  Events,         \* what reaches the policy, see the predicates below
  Files,          \* contents of the rule file: Missing, Malformed or bundles
  Missing,        \* the file cannot be read
  Malformed,      \* not one YAML document with the known fields only
  Compiles(_),    \* a condition is within its length and a boolean CEL program
  Result(_, _),   \* what a condition gives on an event: "true", "false", "error"
  MaxRules,       \* maxDetectionRules
  MaxEdits        \* bound: edits of the file

\* What the fields of a bundle's rules hold.
ASSUME RulesAssumption ==
  \A f \in Files \ {Missing, Malformed} :
    /\ f.rules \in Seq(ToSet(f.rules))
    /\ \A r \in ToSet(f.rules) : r.id \in Nat /\ r.priority \in Int

VARIABLES
  file,        \* the rule file
  rules,       \* policy.snapshot
  collector,   \* "starting", "running", "stopping" or "exited"
  hangup,      \* a SIGHUP in the channel, which holds one
  reloader,    \* the goroutine: where it is and the data it has read
  evaluation,  \* the router's Evaluate: where it is, event, loaded snapshot
  decided,     \* the last decision with its event, if there is one
  edits,       \* counter of the bound
  current,     \* history: snapshots published during the last evaluation
  contents,    \* history: the valid contents the file has had
  edited       \* history: the file was edited after the last signal

rulesVars == <<file, rules, collector, hangup, reloader, evaluation, decided,
               edits, current, contents, edited>>

-----------------------------------------------------------------------------
(***************************************************************************)
(* compileDetectionSnapshot.  Disabled rules are skipped before they are   *)
(* looked at; one bad rule refuses the bundle.                             *)
(***************************************************************************)
Enabled(f) == {i \in DOMAIN f.rules : f.rules[i].enabled}

Valid(f) ==
  /\ f \notin {Missing, Malformed}
  /\ f.versioned
  /\ Len(f.rules) <= MaxRules
  /\ \A i \in Enabled(f) :
       LET r == f.rules[i]
       IN /\ r.id # 0
          /\ r.kind \in {"blacklist", "whitelist"}
          /\ Compiles(r.condition)
          /\ \A j \in Enabled(f) : f.rules[j].id = r.id => i = j

Precedes(r, q) == r.priority > q.priority \/ (r.priority = q.priority /\ r.id < q.id)

\* The rules of S, sorted.
Sorted(S) ==
  CHOOSE list \in [1..Cardinality(S) -> S] :
    ToSet(list) = S /\ \A i, j \in DOMAIN list : i < j => Precedes(list[i], list[j])

Ordered(f, kind) == Sorted({f.rules[i] : i \in {j \in Enabled(f) : f.rules[j].kind = kind}})

Compile(f) == [blacklist |-> Ordered(f, "blacklist"), whitelist |-> Ordered(f, "whitelist")]

-----------------------------------------------------------------------------
(***************************************************************************)
(* DefaultDetectionPolicy, the predicates built into the collector.  An    *)
(* event that an external detector has flagged is an alert; one it has     *)
(* whitelisted skips the predicates, tried in this order.                  *)
(***************************************************************************)
CriticalTypes == {"namespace_change", "mount", "umount", "root_change",
                  "privilege_change", "ptrace", "security_alert"}
Mutations == {"file_create", "file_write", "file_chmod", "file_unlink", "file_rename"}

LocalRules == <<"LOCAL-CRITICAL-STATE", "LOCAL-TEMP-EXEC", "LOCAL-WEB-SHELL",
                "LOCAL-TEMP-CHMOD", "LOCAL-SENSITIVE-MUTATION">>

Applies(rule, e) ==
  CASE rule = "LOCAL-CRITICAL-STATE" -> e.type \in CriticalTypes
    [] rule = "LOCAL-TEMP-EXEC" -> e.type = "process_exec" /\ e.exe = "temp"
    [] rule = "LOCAL-WEB-SHELL" -> e.type = "process_exec" /\ e.parent = "web" /\ e.exe = "shell"
    [] rule = "LOCAL-TEMP-CHMOD" -> e.type = "file_chmod" /\ e.executable /\ e.path = "temp"
    [] rule = "LOCAL-SENSITIVE-MUTATION" -> e.type \in Mutations /\ e.path = "sensitive"

Decision(verdict, r) == [verdict |-> verdict, id |-> r.id, predicate |-> ""]
LocalAlert(predicate) == [verdict |-> "alert", id |-> 0, predicate |-> predicate]
NoDecision == [verdict |-> "none", id |-> 0, predicate |-> ""]

Fallback(e) ==
  LET hits == SelectSeq(LocalRules, LAMBDA r : Applies(r, e))
  IN CASE e.flagged -> LocalAlert("LOCAL-BLACKLIST")
       [] ~e.flagged /\ (e.whitelisted \/ hits = <<>>) -> NoDecision
       [] OTHER -> LocalAlert(Head(hits))

-----------------------------------------------------------------------------
None == [blacklist |-> <<>>, whitelist |-> <<>>]
NoEvaluation == [at |-> "idle", event |-> {}, view |-> None]
NotReading == [at |-> "waiting", data |-> Missing]

RulesInit ==
  /\ file \in Files
  /\ rules = None
  /\ collector = "starting"
  /\ hangup = FALSE
  /\ reloader = NotReading
  /\ evaluation = NoEvaluation
  /\ decided = {}
  /\ edits = 0
  /\ current = {}
  /\ contents = {f \in {file} : Valid(f)}
  /\ edited = TRUE

\* main: LoadCELDetectionPolicy, then the goroutine.  A file that does not
\* compile ends the collector.
Start ==
  /\ collector = "starting"
  /\ collector' = IF Valid(file) THEN "running" ELSE "exited"
  /\ rules' = IF Valid(file) THEN Compile(file) ELSE rules
  /\ edited' = FALSE
  /\ UNCHANGED <<file, hangup, reloader, evaluation, decided, edits, current, contents>>

\* Somebody rewrites, breaks or removes the file.
Edit(f) ==
  /\ edits < MaxEdits
  /\ edits' = edits + 1
  /\ file' = f
  /\ contents' = contents \union {g \in {f} : Valid(g)}
  /\ edited' = TRUE
  /\ UNCHANGED <<rules, collector, hangup, reloader, evaluation, decided, current>>

\* SIGHUP: before signal.Notify it ends the process; a second one is dropped
\* while the channel holds one.
Hangup ==
  /\ collector # "exited"
  /\ collector' = IF collector = "starting" THEN "exited" ELSE collector
  /\ hangup' = (collector # "starting")
  /\ edited' = FALSE
  /\ UNCHANGED <<file, rules, reloader, evaluation, decided, edits, current, contents>>

\* SIGTERM cancels the context; the loop still evaluates what it has.
Cancel ==
  /\ collector = "running"
  /\ collector' = "stopping"
  /\ UNCHANGED <<file, rules, hangup, reloader, evaluation, decided, edits,
                 current, contents, edited>>

-----------------------------------------------------------------------------
(***************************************************************************)
(* The reloader: take the signal, read the file, compile and publish.      *)
(***************************************************************************)
TakeSignal ==
  /\ collector \in {"running", "stopping"}
  /\ reloader.at = "waiting" /\ hangup
  /\ hangup' = FALSE
  /\ reloader' = [reloader EXCEPT !.at = "signalled"]
  /\ UNCHANGED <<file, rules, collector, evaluation, decided, edits,
                 current, contents, edited>>

\* ReloadFile: an unreadable file is an error, and the rules stay.
ReadFile ==
  /\ reloader.at = "signalled"
  /\ reloader' = IF file = Missing THEN NotReading ELSE [at |-> "read", data |-> file]
  /\ UNCHANGED <<file, rules, collector, hangup, evaluation, decided, edits,
                 current, contents, edited>>

Publish(snapshot) ==
  /\ rules' = snapshot
  /\ current' = IF evaluation.at = "idle" THEN current ELSE current \union {snapshot}

\* Faulty: the channel is emptied once the reload is done.
ReloadDraining ==
  /\ reloader.at = "read"
  /\ IF Valid(reloader.data)
       THEN Publish(Compile(reloader.data))
       ELSE UNCHANGED <<rules, current>>
  /\ reloader' = NotReading
  /\ hangup' = FALSE
  /\ UNCHANGED <<file, collector, evaluation, decided, edits, contents, edited>>

\* Reload publishes a complete snapshot or nothing.
Reload ==
  /\ reloader.at = "read"
  /\ IF Valid(reloader.data)
       THEN Publish(Compile(reloader.data))
       ELSE UNCHANGED <<rules, current>>
  /\ reloader' = NotReading
  /\ UNCHANGED <<file, collector, hangup, evaluation, decided, edits, contents, edited>>

StopReloader ==
  /\ collector = "stopping" /\ reloader.at = "waiting"
  /\ reloader' = [reloader EXCEPT !.at = "stopped"]
  /\ UNCHANGED <<file, rules, collector, hangup, evaluation, decided, edits,
                 current, contents, edited>>

-----------------------------------------------------------------------------
(***************************************************************************)
(* The router: Evaluate loads the snapshot once and walks its two lists.   *)
(***************************************************************************)
Matches(list, e) == {i \in DOMAIN list : Result(list[i].condition, e) = "true"}

Decide(e, d) ==
  /\ decided' = {[event |-> e, decision |-> d]}
  /\ evaluation' = NoEvaluation

BeginEvaluate(e) ==
  /\ collector \in {"running", "stopping"}
  /\ evaluation.at = "idle"
  /\ evaluation' = [at |-> "blacklist", event |-> e, view |-> rules]
  /\ current' = {rules}
  /\ UNCHANGED <<file, rules, collector, hangup, reloader, decided, edits, contents, edited>>

CheckBlacklist ==
  LET e == evaluation.event
      hits == Matches(evaluation.view.blacklist, e)
  IN /\ evaluation.at = "blacklist"
     /\ IF hits = {}
          THEN evaluation' = [evaluation EXCEPT !.at = "whitelist"] /\ UNCHANGED decided
          ELSE Decide(e, Decision("alert", evaluation.view.blacklist[Min(hits)]))
     /\ UNCHANGED <<file, rules, collector, hangup, reloader, edits, current, contents, edited>>

\* Faulty: the snapshot is loaded again.
CheckWhitelistAfresh ==
  LET e == evaluation.event
      hits == Matches(rules.whitelist, e)
  IN /\ evaluation.at = "whitelist"
     /\ Decide(e, IF hits = {} THEN Fallback(e)
                  ELSE Decision("whitelist", rules.whitelist[Min(hits)]))
     /\ UNCHANGED <<file, rules, collector, hangup, reloader, edits, current, contents, edited>>

CheckWhitelist ==
  LET e == evaluation.event
      hits == Matches(evaluation.view.whitelist, e)
  IN /\ evaluation.at = "whitelist"
     /\ Decide(e, IF hits = {} THEN Fallback(e)
                  ELSE Decision("whitelist", evaluation.view.whitelist[Min(hits)]))
     /\ UNCHANGED <<file, rules, collector, hangup, reloader, edits, current, contents, edited>>

Reloader == TakeSignal \/ ReadFile \/ Reload \/ StopReloader
Router == (\E e \in Events : BeginEvaluate(e)) \/ CheckBlacklist \/ CheckWhitelist

RulesNext ==
  \/ Start \/ Hangup \/ Cancel
  \/ \E f \in Files : Edit(f)
  \/ Reloader \/ Router

RulesSpec == RulesInit /\ [][RulesNext]_rulesVars

-----------------------------------------------------------------------------
(***************************************************************************)
(* What the policy promises of a valid rule file: of the enabled rules     *)
(* that hold of the event, a blacklist rule decides before any whitelist   *)
(* rule, the higher priority before the lower, the smaller id between      *)
(* equals; with none, the built-in predicates decide.                      *)
(***************************************************************************)
Promised(f, e) ==
  LET holding == {f.rules[i] : i \in {j \in Enabled(f) :
                                        Result(f.rules[j].condition, e) = "true"}}
      denying == {r \in holding : r.kind = "blacklist"}
      First(set) == CHOOSE r \in set :
                      \A q \in set \ {r} : \/ r.priority > q.priority
                                           \/ r.priority = q.priority /\ r.id < q.id
  IN IF denying # {} THEN Decision("alert", First(denying))
     ELSE IF holding # {} THEN Decision("whitelist", First(holding))
     ELSE Fallback(e)

\* An event is decided by one rule set, as the file of that set promises, and
\* that set was in force at some moment of the evaluation, although a reload
\* may publish others between the loading of the snapshot and its last rule
\* (detection_cel.go:101-114; docs/EBPF_RING_BUFFER_DESIGN.md:243-245).
OneRuleSet ==
  evaluation.at = "idle" =>
    \A d \in decided : \E f \in contents :
      Compile(f) \in current /\ d.decision = Promised(f, d.event)

\* The rules in force are always those of a complete valid file; and once the
\* reloader is idle and no signal waits, they are those of the present file,
\* if it is valid and was not edited after the last SIGHUP, though signals are
\* dropped while one waits and the file changes during a reload
\* (main_linux.go:144-160; detection_cel.go:79-80).
FollowsFile ==
  collector \in {"running", "stopping"} =>
    /\ rules \in {Compile(f) : f \in contents}
    /\ reloader.at = "waiting" /\ ~hangup /\ ~edited /\ Valid(file) => rules = Compile(file)
=============================================================================
