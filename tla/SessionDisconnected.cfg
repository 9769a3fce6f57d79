SPECIFICATION Spec
CONSTANTS
  Peers = {p1, p2}
  Handles = {h1, h2}
  Capacity = 1
  Bonded = {p1}
  Failing = FALSE
  MaxCids = 0
  MaxPipe = 2
CHECK_DEADLOCK FALSE
INVARIANTS DisconnectedMeansEnded
