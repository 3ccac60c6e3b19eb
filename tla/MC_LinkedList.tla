--------------------------- MODULE MC_LinkedList ---------------------------
(* TLC instance of LinkedList: values are model values. *)
EXTENDS LinkedList, TLC

Symmetry == Permutations(Vals)

\* count < 0 (all), 1 and 2.
MCCounts == {-1, 1, 2}
=============================================================================
