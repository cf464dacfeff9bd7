CONSTANTS
  o1 = o1
  o2 = o2
  Owner = {o1, o2}
  EpisodeLimit = 2
  ReplyLimit = 2
  TurnLimit = 2
  MaxMessages = 4
  MaxFaults = 1
SPECIFICATION Spec
SYMMETRY Symmetry
PROPERTIES DraftCanBeKept
CHECK_DEADLOCK FALSE
