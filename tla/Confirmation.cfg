CONSTANTS
  owner = owner
  guest = guest
  NoTask = NoTask
  NoAsker = NoAsker
  Tasks = {1, 2}
  Requests = {1, 2}
  Users = {owner, guest}
  Requester = owner
  MaxEnds = 1
  MaxBoots = 1
SPECIFICATION FairSpec
INVARIANTS
  ApprovalGenuine
  RefusalStops
  WaitingShown
PROPERTIES
  EveryRequestReturns
CHECK_DEADLOCK FALSE
