CONSTANTS
  a1 = a1
  a2 = a2
  a3 = a3
  b1 = b1
  c1 = c1
  SliceA = SliceA
  SliceB = SliceB
  Task = {a1, a2, a3, b1}
  Slice = {SliceA, SliceB}
  SliceOf <- MCSliceOf
  Client = {c1}
  MaxAttempts = 0
  MaxJobs <- MCMaxJobs
SPECIFICATION Spec
SYMMETRY Symmetry
INVARIANTS DependenciesFirst NoTaskStranded JobTaskAgree
PROPERTIES DiscardOnlyWhenStopped LifecycleSpec
