---------------------------- MODULE MCTaskRunner ----------------------------
(* TaskRunner for TLC.                                                     *)
EXTENDS TaskRunner, TLC

CONSTANTS a1, a2, b1, c1, SliceA, SliceB

MCSliceOf == [t \in Task |-> IF t = b1 THEN SliceB ELSE SliceA]
OneJob  == [t \in Task |-> 1]
TwoJobs == [t \in Task |-> 2]
=============================================================================
