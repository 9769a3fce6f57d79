SPECIFICATION Spec
CONSTANTS
  Modulus = 3
  Window = 2
  Limits = {0, 1}
  Script <- AFewSdus
  MaxFaults = 2
CHECK_DEADLOCK FALSE
INVARIANTS NoInvalidPacket
PROPERTIES ImplementsStream Progress
