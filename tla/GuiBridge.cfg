CONSTANTS
  friend = friend
  alike = alike
  crowd = crowd
  hello = hello
  find = find
  Garbled = Garbled
  NoTarget = NoTarget
  Chats = {friend, alike, crowd}
  Target <- ChatTarget
  Alike <- ChatAlike
  Groups = {crowd}
  Texts = {hello, find}
  Mentions = {hello}
  Requests = {find}
  Positions = {1, 2}
  Capacity = 1
  MaxBubbles = 2
  MaxMisreads = 1
  MaxFaults = 1
  MaxSwitches = 1
SPECIFICATION Spec
INVARIANTS
  NoEcho
  AnsweredOnce
  RightChat
CHECK_DEADLOCK FALSE
