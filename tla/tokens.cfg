CONSTANTS
  t1 = t1
  t2 = t2
  r1 = r1
  r2 = r2
  r3 = r3
  NoToken = NoToken
  Token = {t1, t2}
  Request = {r1, r2, r3}
  MaxRequests = 1
  MaxRestarts = 1
  MaxFaults = 1
SPECIFICATION Spec
SYMMETRY Symmetry
INVARIANTS BudgetKept NeverOverstated
PROPERTIES QuietCostIsWhole
CHECK_DEADLOCK FALSE
