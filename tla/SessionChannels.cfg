SPECIFICATION Spec
CONSTANTS
  Peers = {p1}
  Handles = {h1}
  Capacity = 1
  Bonded = {p1}
  Failing = TRUE
  MaxCids = 2
  MaxPipe = 2
CHECK_DEADLOCK FALSE
INVARIANTS ScanOnlyInWindow AdoptedChannels ActiveReconnect InterruptAfterControl
