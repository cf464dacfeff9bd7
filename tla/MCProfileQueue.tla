--------------------------- MODULE MCProfileQueue ---------------------------
(* ProfileQueue for TLC.                                                   *)
EXTENDS ProfileQueue, TLC

CONSTANTS n1, n2, p1, p2

Symmetry == Permutations(Pid) \cup Permutations(Name)
=============================================================================
