CONSTANTS
  User = {1, 2, 3}
  MaxEvents = 3
  MaxCuts = 1
  MaxFaults = 2
SPECIFICATION FairSpec
INVARIANTS OneRepeatPerFault
PROPERTIES DeliverySpec EveryoneHears
CHECK_DEADLOCK FALSE
