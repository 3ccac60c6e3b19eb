---------------------------- MODULE MC_SortedSet ----------------------------
(* TLC instance of SortedSet: score borders over scores 1 and 2, with 0   *)
(* and 3 standing for the infinite borders below and above every score.  *)
EXTENDS SortedSet

MCBorders == {[v |-> v, ex |-> e] : v \in {0, 1, 2, 3}, e \in BOOLEAN}

\* Borders inside the scores only, for the larger runs.
MCInnerBorders == {[v |-> v, ex |-> e] : v \in {1, 2}, e \in BOOLEAN}

\* The queries read dict and sl only: states that differ in the last call
\* alone answer every query alike.
QueryView == <<dict, sl, ops>>
=============================================================================
