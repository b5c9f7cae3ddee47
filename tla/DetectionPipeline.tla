------------------------- MODULE DetectionPipeline -------------------------
(***************************************************************************)
(* The server's detection, RunPipeline of internal/app/service.go, over    *)
(* events that arrive in any order: behaviors (BehaviorEngine), collection *)
(* levels (CollectionManager) and incidents (IncidentCorrelation).         *)
(*                                                                         *)
(* One request at a time: each post is stored and the pipeline run before  *)
(* the next, and nothing fails.  Requests that overlap or fail, and the    *)
(* alerts, are ServerIngest's; here the matching and the windows are real. *)
(* Every pipeline derives all behaviors anew, so a post may repeat events. *)
(***************************************************************************)
EXTENDS Integers, FiniteSets

CONSTANTS
  Telemetry,            \* records, see BehaviorEngine
  ServerScopes,         \* host and container of the events
  TempPaths, Minute, CorrelationWindow, InvestigationWindow,
  Batches,              \* sets of events posted together
  MaxUptime             \* bound: uptime

\* Times are instants, and the windows are bounded below (config.go:47-54).
ASSUME PipelineAssumption ==
  /\ \A e \in Telemetry : e.time \in Int
  /\ \A batch \in Batches : batch \subseteq Telemetry /\ IsFiniteSet(batch)
  /\ CorrelationWindow \in Nat /\ InvestigationWindow \in Nat

VARIABLES
  stored,     \* the repository's events
  incidents,  \* the repository's incidents, by id
  policies,   \* Manager.scopes
  uptime,     \* the server's time, unrelated to the events'
  observed    \* history: when each level was last called for, per scope

pipelineVars == <<stored, incidents, policies, uptime, observed>>

Behavior == INSTANCE BehaviorEngine
Incident == INSTANCE IncidentCorrelation
Collection == INSTANCE CollectionManager WITH Scopes <- ServerScopes

Levels == {"WATCH", "INVESTIGATION"}
Never == -InvestigationWindow - 1

PipelineInit ==
  /\ stored = {}
  /\ incidents = {}
  /\ policies = Collection!NoPolicies
  /\ uptime = 0
  /\ observed = [s \in ServerScopes |-> [l \in Levels |-> Never]]

\* AddIncident replaces the incident of the same id.
Replaced(old, new) == {i \in old : \A j \in new : i.id # j.id} \union new

\* What a pipeline finds in a scope, by the level that it calls for.
Finds(behaviors, found, s, level) ==
  IF level = "WATCH"
    THEN \E b \in behaviors : b.scope = s /\ b.code = "B001"
    ELSE \/ \E b \in behaviors : b.scope = s /\ b.code = "B900"
         \/ \E i \in found : i.scope = s

RunPipeline(events) ==
  LET behaviors == Behavior!Derive(events)
      found == Incident!Correlate(behaviors)
      raised == Collection!ObserveBehaviors(policies, behaviors, uptime)
  IN /\ policies' = Collection!ObserveIncidents(raised, found, uptime)
     /\ incidents' = Replaced(incidents, found)
     /\ observed' = [s \in ServerScopes |-> [l \in Levels |->
                       IF Finds(behaviors, found, s, l) THEN uptime ELSE observed[s][l]]]

\* IngestMany: the events not stored before are, and the pipeline is run.
IngestMany(batch) ==
  /\ stored' = stored \union batch
  /\ RunPipeline(stored')
  /\ UNCHANGED uptime

\* Service.Reset
Reset ==
  /\ stored # {}
  /\ stored' = {} /\ incidents' = {}
  /\ policies' = Collection!NoPolicies
  /\ observed' = [s \in ServerScopes |-> [l \in Levels |-> Never]]
  /\ UNCHANGED uptime

PipelineTick ==
  /\ uptime < MaxUptime
  /\ uptime' = uptime + 1
  /\ UNCHANGED <<stored, incidents, policies, observed>>

PipelineNext ==
  \/ \E batch \in Batches : IngestMany(batch)
  \/ Reset
  \/ PipelineTick

PipelineSpec == PipelineInit /\ [][PipelineNext]_pipelineVars

-----------------------------------------------------------------------------
CalledFor(s, level) == observed[s][level] + InvestigationWindow >= uptime

\* A scope is listed at INVESTIGATION exactly until the window of the last
\* pipeline that found a local detection or an incident in it, and at WATCH
\* only in that of one that found a web shell, whatever was found before and
\* after and in whichever order (manager.go:24-53).  The reverse is not true
\* of WATCH: one called for under INVESTIGATION is not remembered.
LevelsTimely ==
  \A s \in ServerScopes :
    /\ Collection!Listed(policies, s, uptime) = "INVESTIGATION" <=> CalledFor(s, "INVESTIGATION")
    /\ Collection!Listed(policies, s, uptime) = "WATCH" => CalledFor(s, "WATCH")

(***************************************************************************)
(* The pattern stated over events: what `events` hold of a scope makes its *)
(* web shell `shell` the start of an incident.                             *)
(***************************************************************************)
Follows(shell, e) ==
  /\ <<e.host, e.container>> = <<shell.host, shell.container>>
  /\ Behavior!Within(shell, e, CorrelationWindow)

Chain(shell, events) ==
  /\ Behavior!Shows("B001", shell, stored)
  /\ \E d, f \in events : Follows(shell, f) /\ f \in Behavior!Downloads(d, stored)
  /\ \E r \in events : Follows(shell, r) /\ Behavior!RunsTemp(r)
  /\ \E c \in events : Follows(shell, c) /\ Behavior!Shows("B008", c, stored)

\* The evidence of an incident holds a web shell of its scope, which starts its
\* window, and a download with its downloader, an execution and a connection
\* within it, though events came in any order and a later one may have moved
\* the first web shell or the file that counts as the download (README.md:145).
IncidentsJustified ==
  \A i \in incidents :
    /\ i.evidence \subseteq stored
    /\ \E shell \in i.evidence :
         i.id = <<<<shell.host, shell.container>>, shell.time>> /\ Chain(shell, i.evidence)

\* "B001, B003, B006 and B008 in one host or container and time window form a
\* Web RCE incident" (docs/ARCHITECTURE.md:137).
ChainCorrelated ==
  \A shell \in stored : Chain(shell, stored) =>
    \E i \in incidents : i.scope = <<shell.host, shell.container>>
=============================================================================
