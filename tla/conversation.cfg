CONSTANTS
  o1 = o1
  o2 = o2
  Owner = {o1, o2}
  EpisodeLimit = 2
  ReplyLimit = 2
  TurnLimit = 2
  MaxMessages = 4
  MaxFaults = 1
SPECIFICATION Spec
SYMMETRY Symmetry
INVARIANTS OwnersApart KeptOnce
PROPERTIES DraftStaysInReach
CHECK_DEADLOCK FALSE
