CONSTANTS
  m1 = m1
  m2 = m2
  Worker = Worker
  Closer = Closer
  Chat = Chat
  Nobody = Nobody
  NoMessage = NoMessage
  Deliveries = {1, 2}
  Messages = {m1, m2}
  Carried <- MCCarried
  Uses <- MCUses
  Cancellable = {1}
  MaxCommands = 1
  Capacity = 1
  MaxFaults = 1
  MaxBoots = 1
SPECIFICATION FairSpec
INVARIANTS
  AtMostOnce
  ActiveAccounted
  CancelConfirmed
  StreamEnds
PROPERTIES
  Undisturbed
  TerminalFinal
  EverythingSettles
CHECK_DEADLOCK FALSE
