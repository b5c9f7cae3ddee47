--------------------------- MODULE MCUploadRouter ---------------------------
(***************************************************************************)
(* A small instance of UploadRouter for TLC: two scopes and an event for   *)
(* each way of being routed.                                               *)
(***************************************************************************)
EXTENDS UploadRouter

CONSTANTS s1, s2

MCScopes == {s1, s2}

Event(type, s, public, level, hit) ==
  [type |-> type, scope |-> s, public |-> public, level |-> level, hit |-> hit]

MCTemplates ==
  {Event("process_exec", s1, FALSE, "NORMAL", FALSE),
   Event("process_exec", s1, FALSE, "NORMAL", TRUE),
   Event("network_connect", s2, TRUE, "NORMAL", FALSE),
   Event("network_connect", s1, FALSE, "NORMAL", FALSE),
   Event("dns_query", s1, FALSE, "NORMAL", FALSE),
   Event("file_read", s1, FALSE, "NORMAL", FALSE),
   Event("file_open", s2, FALSE, "INVESTIGATION", FALSE)}
=============================================================================
