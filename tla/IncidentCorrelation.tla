------------------------ MODULE IncidentCorrelation ------------------------
(***************************************************************************)
(* The server's incident engine, internal/incident/engine.go: Correlate is *)
(* a pure function of the behaviors derived by BehaviorEngine.  The window *)
(* of a scope starts at its first web shell; the web shell, a download,    *)
(* an execution from a temporary path and a rare connection within it make *)
(* one incident, whose identity is the scope and the start.                *)
(***************************************************************************)
EXTENDS Integers, FiniteSetsExt

CONSTANT CorrelationWindow

RiskScore ==
  [B001 |-> 30, B002 |-> 10, B003 |-> 15, B004 |-> 10, B005 |-> 10,
   B006 |-> 25, B007 |-> 10, B008 |-> 20, B900 |-> 90]

Pattern == {"B001", "B003", "B006", "B008"}

Score(behaviors) == Min({100, MapThenSumSet(LAMBDA b : RiskScore[b.code], behaviors)})

Severity(score) ==
  CASE score >= 80 -> "critical"
    [] score \in 60..79 -> "high"
    [] score \in 30..59 -> "medium"
    [] score < 30 -> "low"

Shells(behaviors) == {b \in behaviors : b.code = "B001"}

Start(behaviors) ==
  CHOOSE b \in Shells(behaviors) : \A c \in Shells(behaviors) : b.time <= c.time

\* Faulty: the window is open at its end.
CorrelatedEver(behaviors, start) == {b \in behaviors : b.time >= start.time}

Correlated(behaviors, start) ==
  {b \in behaviors : b.time >= start.time /\ b.time - start.time <= CorrelationWindow}

Incident(scope, start, chain) ==
  [id |-> <<scope, start.time>>, scope |-> scope, behaviors |-> chain,
   evidence |-> UNION {b.evidence : b \in chain},
   score |-> Score(chain), severity |-> Severity(Score(chain))]

Correlate(behaviors) ==
  LET Of(scope) == {b \in behaviors : b.scope = scope}
      Chain(scope) == Correlated(Of(scope), Start(Of(scope)))
      started == {scope \in {b.scope : b \in behaviors} : Shells(Of(scope)) # {}}
      complete == {scope \in started : Pattern \subseteq {b.code : b \in Chain(scope)}}
  IN {Incident(scope, Start(Of(scope)), Chain(scope)) : scope \in complete}
=============================================================================
