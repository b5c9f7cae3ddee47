--------------------------- MODULE MCServerIngest ---------------------------
(***************************************************************************)
(* A small instance of ServerIngest for TLC: a web shell `shell` that is a *)
(* local detection as well, a payload `run` that completes the incident of *)
(* the same scope, a `noise` event the processor filters and a `bad` one   *)
(* that fails validation.                                                  *)
(***************************************************************************)
EXTENDS ServerIngest, TLC

CONSTANTS shell, run, noise, bad, host

MCEvents == {shell, run, noise, bad}

MCCodes(e) == CASE e = shell -> {"B001", "B900"} [] e = run -> {"B006"} [] OTHER -> {}
MCTimeOf(e) == CASE e = shell -> 0 [] e = noise -> 1 [] OTHER -> 3
MCScopeOf(e) == host

\* What the collector sends: an alert travels with its event.
MCCollectorBatches ==
  {[events |-> <<shell, noise>>, alerts |-> {shell}, reset |-> "no"],
   [events |-> <<run>>, alerts |-> {}, reset |-> "no"]}

MCBatches ==
  {[events |-> <<shell, noise>>, alerts |-> {shell}, reset |-> "no"],
   [events |-> <<bad, run>>, alerts |-> {}, reset |-> "no"],
   [events |-> <<>>, alerts |-> {shell}, reset |-> "no"],
   [events |-> <<shell, run>>, alerts |-> {}, reset |-> "first"],
   [events |-> <<>>, alerts |-> {}, reset |-> "only"]}

HandlerSymmetry == Permutations(Handlers)
=============================================================================
