SPECIFICATION Spec
CONSTANTS
  Socks = {1, 2}
  MaxTroubles = 1
INVARIANT SessionWhole
PROPERTIES TellsFirst DeadDeviceClosed
CHECK_DEADLOCK FALSE
