CONSTANTS
  a1 = a1
  a2 = a2
  b1 = b1
  A = A
  B = B
  NoTask = NoTask
  Tasks = {a1, b1}
  Sessions = {A, B}
  SessionOf <- MCTwoSessions
  GiveUps = {"stream"}
  ToolUsers = {}
SPECIFICATION FairSpec
INVARIANTS
  RegistryMarksLiveTurn
  RunReachable
  DrainedUnlessAbortCut
PROPERTIES
  EveryTurnEnds
