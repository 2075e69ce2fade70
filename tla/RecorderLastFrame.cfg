\* What LocalRecorder.stop() says of the last frame read before Stop.
SPECIFICATION Spec
CONSTANTS
  None = None
  MaxRuns = 1
  MaxFrames = 2
  QueueFrames = 2
  FillLimit = 1
  SegmentFrames = 2
  MaxFailures = 2
  MaxFaults = 0
INVARIANT LastFrameKept
CHECK_DEADLOCK FALSE
