-------------------------------- MODULE Lists --------------------------------
(***************************************************************************)
(* The one operator on lists that the library lacks in a form that can be  *)
(* reasoned about: a filter, as a fold over the list.                      *)
(***************************************************************************)
EXTENDS SequencesExt

\* The elements of `list` that are in S, in the order of the list.
Those(list, S) ==
  FoldLeft(LAMBDA kept, e : IF e \in S THEN Append(kept, e) ELSE kept, <<>>, list)
=============================================================================
