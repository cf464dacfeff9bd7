CONSTANTS
  a1 = a1
  a2 = a2
  b1 = b1
  c1 = c1
  SliceA = SliceA
  SliceB = SliceB
  Task = {a1}
  Slice = {SliceA, SliceB}
  SliceOf <- MCSliceOf
  Client = {c1}
  MaxAttempts = 9
  MaxJobs <- OneJob
  MaxRoutes = 1
  MaxFaults = 1
  LateOps = {"begin", "end"}
  MaxLate = 1
  MaxCrashes = 1
SPECIFICATION FairSpec
INVARIANTS OneLeadTrace RunningIsHeld PushedOncePerJob DoneByLastAttempt
PROPERTIES ResultLands StoreSpec QueuedJobEnds RunningEnds
