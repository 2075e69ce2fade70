SPECIFICATION Spec
CONSTANTS
  MaxRows = 4
  QueueMax = 1
  Ceiling = 2
  Target = 1
  MaxPurges = 1
  DarkAfter = 1
  SeenWindow = 5
  Cooldown = 2
  MaxPerWindow = 2
  RebootWindow = 4
  Escalation = 6
  MinReboots = 1
  MaxRestarts = 1
  MaxFailedSaves = 1
  DiarWindow = 3
  Chunk = 2
  LongestUtt = 2
  Silence = 1
  MaxFed = 11
  Requests = {1, 2}
  MaxEnrollRestarts = 1
  Segments = {1, 2}
  Tolerance = 1
  MaxClock = 4
  MaxDeliveries = 3
  MaxOdd = 1
  MaxOmiFaults = 1
  Hangover = 1
  SilenceClose = 3
  OpenSpeech = 2
  OpenWindow = 3
  IdleClose = 4
  Stall = 3
  Recent = 2
  StatusEvery = 2
  Gaps = {0, 1, 2}
  Cap = 4
  MaxTurns = 2
INVARIANTS TypeOK LabelsOwnRow OneWindowEach RecoveryTrue SlicedRight EnrolmentTrue InsertedOnce TimesNear ConversationKept BillingEnds
CHECK_DEADLOCK FALSE
