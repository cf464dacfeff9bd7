CONSTANTS
  j1 = j1
  j2 = j2
  r1 = r1
  r2 = r2
  Job = {j1}
  Reader = {r1}
  MaxActive = 1
  MaxFaults = 0
  MaxStops = 1
SPECIFICATION Spec
INVARIANT SavedResume
