SPECIFICATION Spec
CONSTANTS
  Sizes = {2, 3, 4}
  MaxSize = 3
  MaxPackets = 2
CHECK_DEADLOCK FALSE
INVARIANTS StreamIntact EndIsLast NoLostWakeup
PROPERTIES CloseReturns EndpointsServed EndReported
