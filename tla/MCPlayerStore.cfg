CONSTANTS
  t1 = t1
  t2 = t2
  None = None
  Thread <- MCThread
  Players = 2
  MaxRecords = 3
  MaxChanges = 2
  MaxCalls = 3
  MaxCrashes = 1
  Bounds <- MCBounds
SPECIFICATION StoreFairSpec
INVARIANTS
  SavedStaysSaved
PROPERTIES
  EveryCommandEnds
CHECK_DEADLOCK FALSE
