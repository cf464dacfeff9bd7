CONSTANTS
  j1 = j1
  j2 = j2
  r1 = r1
  r2 = r2
  Job = {j1, j2}
  Reader = {r1, r2}
  MaxActive = 2
  MaxFaults = 2
  MaxStops = 2
SPECIFICATION FairSpec
INVARIANTS DebitedOnce PaidOnce CostKept
PROPERTIES AttendedEnds
