---------------------------- MODULE MCTaskTokens ----------------------------
(* TaskTokens for TLC: two containers, one after the other, and requests   *)
(* that differ in nothing but their name.                                  *)
EXTENDS TaskTokens, TLC

CONSTANTS t1, t2, r1, r2, r3

Symmetry == Permutations(Token) \cup Permutations(Request)
=============================================================================
