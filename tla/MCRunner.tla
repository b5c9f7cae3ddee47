------------------------------ MODULE MCRunner ------------------------------
(* A small instance of Runner for TLC: events differ by number and priority, one *)
(* aggregation key is enough for buckets that grow, are emitted and start again. *)
EXTENDS Runner

CONSTANT k1

MCKeys == {k1}
=============================================================================
