SPECIFICATION Spec
CONSTANTS
  None = None
  MaxRuns = 2
  MaxFrames = 3
  QueueFrames = 1
  FillLimit = 1
  SegmentFrames = 2
  MaxFailures = 2
  MaxFaults = 1
INVARIANTS RecordingTrue StatusIsThisRuns
PROPERTY WriterEnds
CHECK_DEADLOCK FALSE
