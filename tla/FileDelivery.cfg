CONSTANTS
  f1 = f1
  f2 = f2
  NoFile = NoFile
  Nobody = Nobody
  Loop = Loop
  Calls = {1, 2}
  Files = {f1, f2}
  Resends = {1}
  MaxBoots = 1
  MaxExpiries = 1
SPECIFICATION FairSpec
INVARIANTS
  SentOnce
  ReceiptsTrue
  SuccessDelivered
PROPERTIES
  ReplySettles
CHECK_DEADLOCK FALSE
