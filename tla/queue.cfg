CONSTANTS
  n1 = n1
  n2 = n2
  p1 = p1
  p2 = p2
  Name = {n1}
  Pid = {p1, p2}
  MaxDeaths = 2
SPECIFICATION FairSpec
INVARIANTS AliveIsRunning ScheduledAlone
PROPERTIES EndingIsItsOwn HeldStops NothingStaysClaimed
