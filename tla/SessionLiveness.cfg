SPECIFICATION FairSpec
CONSTANTS
  Peers = {p1}
  Handles = {h1}
  Capacity = 1
  Bonded = {p1}
  Failing = TRUE
  MaxCids = 0
  MaxPipe = 2
CHECK_DEADLOCK FALSE
PROPERTIES DisconnectCompletes ReconnectResolves
