CONSTANTS
  h1 = h1
  h2 = h2
  Handler <- MCHandler1
  MaxGames = 2
  MaxCalls = 3
  Cap = 1
SPECIFICATION Spec
INVARIANT
  OnlyStoppedGamesSignalled
CHECK_DEADLOCK FALSE
