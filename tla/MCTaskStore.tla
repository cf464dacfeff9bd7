---------------------------- MODULE MCTaskStore ----------------------------
(* TaskStore for TLC: two slices, so that one can stop while the other     *)
(* goes on.                                                                *)
EXTENDS TaskStore, TLC

CONSTANTS a1, a2, a3, b1, c1, SliceA, SliceB

MCSliceOf == [t \in Task |-> IF t = b1 THEN SliceB ELSE SliceA]

\* The task of the other slice is the one the owner gives another job.
MCMaxJobs == [t \in Task |-> IF t = b1 THEN 2 ELSE 1]

Symmetry == Permutations({a1, a2, a3})
=============================================================================
