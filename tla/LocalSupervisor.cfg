CONSTANTS
  Requests = {1, 2}
  Pids = {1, 2}
  MaxBirths = 2
  MaxFaults = 2
SPECIFICATION FairSpec
INVARIANTS
  Accounted
PROPERTIES
  StopsMeant
  EveryRequestAnswered
CHECK_DEADLOCK FALSE
