SPECIFICATION Spec
CONSTANTS
  Psms <- Ports
  Clients <- Requests
  Servers <- TwoServers
  MinMtu = 2
  FirstCid = 64
  LastCid = 65
  Habits <- OtherStacks
  Sizes = {3}
  MaxSdus = 1
CHECK_DEADLOCK FALSE
INVARIANTS NoInvalidPacket ResponsesMatch Paired EndsAgree
PROPERTY AttemptsEnd
