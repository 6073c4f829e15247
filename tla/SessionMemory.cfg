CONSTANTS
  Budget = 4
  Batches = 1
  MaxTurns = 4
  MaxStops = 2
  MaxEnds = 1
  MaxFaults = 1
  MaxBoots = 1
SPECIFICATION Spec
INVARIANTS
  HistoryComplete
  HistoryOwn
  SummaryStillValid
CHECK_DEADLOCK FALSE
