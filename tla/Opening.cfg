SPECIFICATION FairSpec
CONSTANTS
  Addresses = {a1, a2}
  Zero = zero
  Default = default
  Timeout = 2
  MaxOpens = 2
  MaxFaults = 2
CHECK_DEADLOCK FALSE
INVARIANTS OpenedHasIdentity RecoveryBoundary HandleReleased
PROPERTY OpenReturns
