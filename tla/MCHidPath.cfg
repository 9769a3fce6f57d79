SPECIFICATION Spec
CONSTANTS
  Servers <- HidServers
  MinMtu = 2
  FirstCid = 64
  LastCid = 66
  Handles = {11}
  PayloadSize = 7
  TotalPackets = 2
  PeerMtu = 3
  Messages <- AllMessages
  Reports <- Payloads
  Strays <- BadPackets
  MaxSent = 2
  MaxReports = 1
  MaxLinks = 2
CHECK_DEADLOCK FALSE
INVARIANTS HeardInOrder OutputsReported FailsOnStrays PacketsFit
