\* What the disconnect handler says of the OpenAI session of a device that hung up.
SPECIFICATION Spec
CONSTANTS
  Socks = {1, 2}
  MaxTroubles = 1
INVARIANT NoOrphan
CHECK_DEADLOCK FALSE
