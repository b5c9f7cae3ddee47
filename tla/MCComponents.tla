---------------------------- MODULE MCComponents ----------------------------
(***************************************************************************)
(* Small instances of the components that run behind a lock or a pointer   *)
(* of their own, for TLC: the context buffer, the event aggregator, the    *)
(* detection rules with their reloader, and the server's detection.  They  *)
(* share no state, so a behavior is one of one component, named by `part`; *)
(* the variables of the others keep their initial values.  UploadRouter    *)
(* and ServerIngest compose the components that do interact.               *)
(***************************************************************************)
EXTENDS RollingBuffer, EventAggregator, DetectionRules, DetectionPipeline

CONSTANTS s1, s2, k1, k2, k3

VARIABLE part

-----------------------------------------------------------------------------
MCScopes == {s1, s2}

\* The buffer and its properties treat all scopes alike.
ScopeSymmetry == Permutations(MCScopes)

MCKeys == {k1, k2, k3}

-----------------------------------------------------------------------------
(***************************************************************************)
(* Rule files: Deny has a whitelist rule of higher priority than its       *)
(* blacklist rules; Allow's blacklist is disabled or fails to evaluate;    *)
(* Local leaves most events to the built-in predicates; Twice uses an id   *)
(* twice.  Malformed stands for the empty file an editor leaves midway.    *)
(***************************************************************************)
Rule(id, kind, priority, condition) ==
  [id |-> id, enabled |-> TRUE, kind |-> kind, priority |-> priority, condition |-> condition]

Off(rule) == [rule EXCEPT !.enabled = FALSE]

Bundle(list) == [versioned |-> TRUE, rules |-> list]

AllowTemp == Rule(1, "whitelist", 9, "temp")

MCMissing   == [versioned |-> FALSE, rules |-> <<>>]
MCMalformed == [versioned |-> TRUE, rules |-> <<"?">>]
Deny        == Bundle(<<AllowTemp, Rule(2, "blacklist", 0, "temp"), Rule(3, "blacklist", 5, "any")>>)
Allow       == Bundle(<<AllowTemp, Off(Rule(1, "blacklist", 0, "temp")),
                      Rule(4, "blacklist", 1, "fails")>>)
Local       == Bundle(<<Rule(6, "whitelist", 0, "shell"), Rule(5, "whitelist", 0, "shell")>>)
Twice       == Bundle(<<AllowTemp, Rule(1, "blacklist", 0, "any")>>)

Observed(type, exe, path) ==
  [type |-> type, exe |-> exe, path |-> path, parent |-> "web", executable |-> FALSE,
   flagged |-> FALSE, whitelisted |-> FALSE]

MCEvents == {Observed("process_exec", "temp", ""), Observed("process_exec", "shell", ""),
             Observed("file_write", "", "sensitive")}
MCFiles == {MCMissing, MCMalformed, Deny, Allow, Local, Twice}

MCCompiles(c) == c # "?"
MCResult(c, e) ==
  IF c \in {"any", e.exe} THEN "true" ELSE IF c = "fails" THEN "error" ELSE "false"

-----------------------------------------------------------------------------
(***************************************************************************)
(* The events of one complete chain on a host, with a second, earlier web  *)
(* shell that was detected locally, a second file of the download, and a   *)
(* web shell and a file of the same pid in a container of the host.        *)
(***************************************************************************)
Quiet(t, type, pid) ==
  [time |-> t, type |-> type, pid |-> pid, host |-> "a", container |-> "",
   process |-> "other", parent |-> "other", path |-> "", exec |-> "", url |-> "", dest |-> "",
   program |-> FALSE, mode |-> FALSE, novel |-> FALSE, rare |-> FALSE, alert |-> FALSE]

Shell(t) == [Quiet(t, "process_exec", 1) EXCEPT !.process = "shell", !.parent = "web"]
Curl == [Quiet(3, "process_exec", 2) EXCEPT
           !.process = "downloader", !.parent = "shell", !.url = "public"]
File(t) == [Quiet(t, "file_write", 2) EXCEPT !.path = "/tmp/p"]
Runs == [Quiet(6, "process_exec", 3) EXCEPT !.exec = "/tmp/p", !.novel = TRUE]
Calls == [Quiet(7, "network_connect", 3) EXCEPT !.dest = "public", !.rare = TRUE]
Contained(e) == [e EXCEPT !.container = "c"]

Chained == {[Shell(0) EXCEPT !.alert = TRUE], Shell(2), Curl, File(4), File(5), Runs, Calls}
Posted == Chained \union {Contained(Shell(1)), Contained(File(5))}

MCBatches == {{e} : e \in Posted} \union {{Runs, Calls}}
MCServerScopes == {<<"a", "">>, <<"a", "c">>}

-----------------------------------------------------------------------------
Init ==
  /\ part \in {"buffer", "aggregator", "rules", "pipeline"}
  /\ BufferInit
  /\ AggregatorInit
  /\ RulesInit
  /\ part # "rules" => file = Missing
  /\ PipelineInit

Next ==
  \/ /\ part = "buffer" /\ BufferNext
     /\ UNCHANGED <<part, aggregatorVars, rulesVars, pipelineVars>>
  \/ /\ part = "aggregator" /\ AggregatorNext
     /\ UNCHANGED <<part, vars, rulesVars, pipelineVars>>
  \/ /\ part = "rules" /\ RulesNext
     /\ UNCHANGED <<part, vars, aggregatorVars, pipelineVars>>
  \/ /\ part = "pipeline" /\ PipelineNext
     /\ UNCHANGED <<part, vars, aggregatorVars, rulesVars>>

Spec == Init /\ [][Next]_<<part, vars, aggregatorVars, rulesVars, pipelineVars>>
=============================================================================
