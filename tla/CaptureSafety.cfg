SPECIFICATION Spec
CONSTANTS
  None = None
  MaxEvents = 3
  MaxSockets = 2
  MaxFrames = 1
  MaxQueue = 2
INVARIANTS ShownIsTrue NeverStuck SentInOrder
CHECK_DEADLOCK FALSE
