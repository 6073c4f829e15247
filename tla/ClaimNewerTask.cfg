CONSTANTS
  a1 = a1
  a2 = a2
  b1 = b1
  A = A
  B = B
  NoTask = NoTask
  Tasks = {a1, a2}
  Sessions = {A}
  SessionOf <- MCSameSession
  GiveUps = {"timeout"}
  ToolUsers = {}
SPECIFICATION Spec
INVARIANTS
  NewerTaskNotStopped
