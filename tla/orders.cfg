CONSTANTS
  o1 = o1
  o2 = o2
  s1 = s1
  Order = {o1, o2}
  Slice = {s1}
  Snapshot = {"ready", "asked"}
  MaxMoves = 2
  MaxFaults = 1
SPECIFICATION FairSpec
INVARIANTS MessageAgrees
PROPERTIES QueuedAsShown LifeSpec MessageFollows
