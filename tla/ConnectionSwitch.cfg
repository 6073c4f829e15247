CONSTANTS
  env = env
  alpha = alpha
  own = own
  other = other
  one = one
  two = two
  Connections = {env, alpha}
  Env = env
  Bots = {own, other}
  EnvBot = own
  NoBot = NoBot
  Admins = {one, two}
  NoConnection = NoConnection
  NoCredentials = NoCredentials
  MaxEdits = 2
  MaxActivations = 2
  MaxFaults = 1
SYMMETRY Symmetry
SPECIFICATION Spec
INVARIANTS
  ActivatedAsProbed
  SelectionConfirmed
  BridgeFollows
CHECK_DEADLOCK FALSE
