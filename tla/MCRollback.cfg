CONSTANTS
  r1 = r1
  r2 = r2
  h1 = h1
  h2 = h2
  Request <- MCRequest
  Handler <- MCHandler
  NoRequest = nothing
  Bounds <- MCBounds
SPECIFICATION FairSpec
INVARIANTS
  FilesUnused
  OneAtATime
  CancelHolds
PROPERTY
  PendingEnds
CHECK_DEADLOCK FALSE
