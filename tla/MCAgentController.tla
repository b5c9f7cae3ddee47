-------------------------- MODULE MCAgentController --------------------------
(* A small instance of AgentController for TLC. *)
EXTENDS AgentController

CONSTANTS e1, e2, e3, e4, e5, n1

Proc == "process_events_query"
File == "file_events_query"
Net == "network_connections_query"
Telemetry == "telemetry_health_get"
Dns == "dns_events_query"

MCCandidates ==
  [t \in {Proc, File, Net, Telemetry, Dns} |->
     CASE t = Proc -> <<e1, e2, e3, e4, e5>> [] t = Net -> <<n1>> [] OTHER -> <<>>]

\* All process events, two to a page, and those of one process, one to a page: the
\* first of its pages ends at the scan cap with nothing on it.
MCQueries ==
  {[tool |-> t, wanted |-> ToSet(MCCandidates[t]), limit |-> 2] : t \in DOMAIN MCCandidates}
    \union {[tool |-> Proc, wanted |-> {e5}, limit |-> 1]}

MCConfigured == DOMAIN MCCandidates \ {Dns}
MCHealth == {Telemetry}
MCAvailable == DOMAIN MCCandidates

MCTask(id, deps, required, optional) ==
  [id |-> id, deps |-> deps, required |-> required, optional |-> optional]

\* Valid: a chain against the order of the plan, an optional tool, one tool that
\* finds nothing, two tools for one task, a malformed event, a tool without an adapter.
\* Not valid: a cycle, a dependency on no task, a tool there is not, one twice.
MCProposals == {
  <<MCTask("T2", {"T1"}, <<File>>, <<>>), MCTask("T1", {}, <<Proc>>, <<>>)>>,
  <<MCTask("T1", {}, <<Proc>>, <<Telemetry>>)>>,
  <<MCTask("T1", {}, <<File>>, <<>>)>>,
  <<MCTask("T1", {}, <<File, Proc>>, <<>>)>>,
  <<MCTask("T1", {}, <<Net>>, <<>>), MCTask("T2", {"T1"}, <<Proc>>, <<>>)>>,
  <<MCTask("T1", {}, <<Dns>>, <<>>), MCTask("T2", {}, <<File>>, <<>>)>>,
  <<MCTask("T1", {"T2"}, <<Proc>>, <<>>), MCTask("T2", {"T1"}, <<File>>, <<>>)>>,
  <<MCTask("T1", {"T2"}, <<Proc>>, <<>>)>>,
  <<MCTask("T1", {}, <<"shell">>, <<>>)>>,
  <<MCTask("T1", {}, <<Proc>>, <<Proc>>)>>}
=============================================================================
