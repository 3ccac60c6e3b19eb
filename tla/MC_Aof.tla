------------------------------- MODULE MC_Aof -------------------------------
(* Instantiation of Aof for TLC: the constants are given in the .cfg files. *)
EXTENDS Aof, TLC

\* Connections, rewriters and values are interchangeable (safety runs only).
Symmetry == Permutations(Conns) \cup Permutations(Rewriters) \cup Permutations(Vals)
=============================================================================
