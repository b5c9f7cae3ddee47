------------------------- MODULE CollectionManager -------------------------
(***************************************************************************)
(* The server's collection levels, internal/collection/manager.go: a level *)
(* per scope that findings raise and that ends with its window.  Every     *)
(* call holds the manager's lock and reads the clock once.                 *)
(***************************************************************************)
EXTENDS Integers, Folds

CONSTANTS
  Scopes,               \* host and container of what is observed
  InvestigationWindow   \* how long an observation holds

\* Scopes that are not in the map.
Unset == [level |-> "NORMAL", expires |-> -1]

NoPolicies == [s \in Scopes |-> Unset]

Rank == [NORMAL |-> 0, WATCH |-> 1, INVESTIGATION |-> 2]

Over(policy, now) == policy.expires < now

\* set
\* Faulty: the last observation wins.
SetAlways(policies, s, level, now) ==
  [policies EXCEPT ![s] = [level |-> level, expires |-> now + InvestigationWindow]]

Set(policies, s, level, now) ==
  IF Rank[level] >= Rank[policies[s].level] \/ Over(policies[s], now)
    THEN [policies EXCEPT ![s] = [level |-> level, expires |-> now + InvestigationWindow]]
    ELSE policies

\* The level a behavior calls for.
Wanted(code) ==
  CASE code = "B900" -> "INVESTIGATION" [] code = "B001" -> "WATCH" [] OTHER -> "NORMAL"

\* Derive returns the behaviors in the order of time, those of one time in any.
Latest(behaviors) == CHOOSE b \in behaviors : \A c \in behaviors : c.time <= b.time

ObserveBehaviors(policies, behaviors, now) ==
  MapThenFoldSet(LAMBDA b, p : Set(p, b.scope, Wanted(b.code), now), policies,
                 LAMBDA b : b, Latest, {b \in behaviors : Wanted(b.code) # "NORMAL"})

ObserveIncidents(policies, incidents, now) ==
  [s \in Scopes |-> IF \E i \in incidents : i.scope = s
                    THEN Set(policies, s, "INVESTIGATION", now)[s]
                    ELSE policies[s]]

\* List: the level readers see.
Listed(policies, s, now) == IF Over(policies[s], now) THEN "NORMAL" ELSE policies[s].level
=============================================================================
