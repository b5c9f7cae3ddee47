--------------------------- MODULE MCEvidenceStore ---------------------------
(***************************************************************************)
(* A small instance of EvidenceStore for TLC: an alert of the server and   *)
(* one of the collector with one key, and a second key with an open and a  *)
(* closed alert of different evidence.                                     *)
(***************************************************************************)
EXTENDS EvidenceStore

CONSTANTS e1, e2, b1

MCEvents == {e1, e2}
MCBehaviors == {b1}

Alert(id, key, status, source, events) ==
  [id |-> id, key |-> key, status |-> status, source |-> source, events |-> events]

MCAlerts ==
  {Alert("local", "b900", "open", "server", {e1}),
   Alert("collector", "b900", "open", "collector", {e1}),
   Alert("incident", "scope", "open", "server", {e1}),
   Alert("incident", "scope", "closed", "collector", {e2})}

\* The server's alert as an earlier version wrote it.
MCLegacyAlerts ==
  {<<>>, [local |-> [key |-> "b900", status |-> "open", source |-> "", events |-> {e1}]]}

MCIncidents == {[id |-> "incident", alert |-> "incident", events |-> {e1}]}
=============================================================================
