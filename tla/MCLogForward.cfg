CONSTANTS
  d1 = d1
  None = None
  Daemon <- MCDaemon
  MaxLines = 3
  Bounds <- MCBounds
  MaxStreams = 3
  MaxBreaks = 1
  ForwardCap = 2
  WireCap = 1
  ChannelCap = 1
SPECIFICATION LogFairSpec
INVARIANTS
  LinesArrive
PROPERTIES
  StopReported
CHECK_DEADLOCK FALSE
