CONSTANTS
  b1 = b1
  b2 = b2
  s1 = s1
  s2 = s2
  c1 = c1
  c2 = c2
  r1 = r1
  NoWorker = NoWorker
  NoCommand = NoCommand
  Commands = {r1}
  Workers = {b1, s1, s2}
  Runtime = {r1}
  Supervising = {s1, s2}
  BridgeBatch = 2
  BridgeLease = 1
  SupervisorLease = 2
  BridgeRun = 1
  Window = 2
  Faults = 2
SPECIFICATION Spec
INVARIANTS
  NothingLeasedAfterClose
  OnceUnlessRacedOrCut
PROPERTIES
  ImplementsCommandLedger
