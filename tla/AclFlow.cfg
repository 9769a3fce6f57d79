SPECIFICATION Spec
CONSTANTS
  Handles = {h1, h2}
  TotalPackets = 2
  MaxFragments = 2
  MaxPackets = 6
  MaxLinks = 3
CHECK_DEADLOCK FALSE
INVARIANTS NoBufferOverrun CreditExact NoUnderflow NoCrossLinkData WorkConserving
PROPERTY QueueDrains
