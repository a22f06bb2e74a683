--------------------------- MODULE MC_JobRegistry ---------------------------
(***************************************************************************)
(* JobRegistry for TLC.  Two units and two owners are enough for a merge,  *)
(* a replacement and a late finish to overlap.  Symmetry permutes owners   *)
(* and units, which the specification never tells apart.                   *)
(***************************************************************************)
EXTENDS JobRegistry, TLC

CONSTANTS u1, u2, o1, o2, w1

Symmetry ==
    Permutations({u1, u2}) \cup Permutations({o1, o2})
=============================================================================
