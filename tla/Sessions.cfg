SPECIFICATION MCSpec
CONSTANTS
  Names = {n1, n2}
  Handlers = {h1, h2, h3}
  Locks = {l1, l2, l3, l4}
  None = None
  MaxTurns = 3
  MaxPersists = 3
  MaxAttempts = 3
  MaxPostFaults = 3
  Connections = {"h1", "h2"}
  DarkThreshold = 2
  MaxDark = 2
  StateDirs = {"d1", "d2"}
  Builds = {1, 2}
  Pythons = {1, 2}
  MaxUpdates = 2
  Versions = {1, 2}
  Incompatible = {2}
  MaxNpm = 2
  MaxSyncFaults = 1
INVARIANTS TypesOK TableExact EachTurnOnce OverlapHarmless OriginalKept PreparedBuilds
PROPERTIES MutexSpec WaiterServed CloudEnds
CHECK_DEADLOCK FALSE
