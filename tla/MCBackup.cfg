CONSTANTS
  m1 = m1
  m2 = m2
  Maker <- MCMaker
  Keep = 2
  PageSize = 2
  MaxMakes = 4
  MaxChanges = 3
  MaxStarts = 2
  Bounds <- MCBounds
  Free = Free
  Execute = Execute
SPECIFICATION Spec
INVARIANTS
  ReportedIsKept
  WorldRestored
  PagesShowAll
  RecordedIsKept
  OneWorker
SYMMETRY Symmetry
CHECK_DEADLOCK FALSE
