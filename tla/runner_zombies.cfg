CONSTANTS
  a1 = a1
  a2 = a2
  b1 = b1
  c1 = c1
  SliceA = SliceA
  SliceB = SliceB
  Task = {a1}
  Slice = {SliceA, SliceB}
  SliceOf <- MCSliceOf
  Client = {c1}
  MaxAttempts = 3
  MaxJobs <- TwoJobs
  MaxRoutes = 2
  MaxFaults = 1
  LateOps = {"begin", "end", "close", "claim", "recover"}
  MaxLate = 2
  MaxCrashes = 1
SPECIFICATION RunnerSpec
INVARIANTS DoneIsPushed
