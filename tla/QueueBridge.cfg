CONSTANTS
  b1 = b1
  b2 = b2
  s1 = s1
  s2 = s2
  c1 = c1
  c2 = c2
  r1 = r1
  NoWorker = NoWorker
  NoCommand = NoCommand
  Commands = {c1, c2}
  Workers = {b1, b2, s1}
  Runtime = {}
  Supervising = {s1}
  BridgeBatch = 2
  BridgeLease = 2
  SupervisorLease = 1
  BridgeRun = 1
  Window = 1
  Faults = 1
SPECIFICATION FairSpec
INVARIANTS
  HeldUnlessStale
PROPERTIES
  EveryCommandEnds
  NoStaleCompletion
