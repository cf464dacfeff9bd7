----------------------------- MODULE MCVideoJobs -----------------------------
(* VideoJobs for TLC: jobs and requests as model values.                   *)
EXTENDS VideoJobs

CONSTANTS j1, j2, r1, r2
=============================================================================
