CONSTANTS
  h1 = h1
  h2 = h2
  Handler <- MCHandler
  MaxGames = 2
  MaxCalls = 3
  Cap = 1
SPECIFICATION FairSpec
INVARIANTS
  TypeOK
  StateIsTrue
  PtyOutlivesGame
PROPERTIES
  StopReturns
  EndNoticed
  GameIsRead
CHECK_DEADLOCK FALSE
