CONSTANTS
  t1 = t1
  t2 = t2
  reader = reader
  starter = starter
  Sender <- MCSender
  Reader = reader
  Starter = starter
  MaxCount = 1
  MaxTriggers = 3
  MaxClicks = 2
  MaxStarts = 2
  MaxStops = 1
  MonitorStarts = 2
  Bounds <- MCBounds
SPECIFICATION FairMCSpec
INVARIANTS
  ButtonsWork
  GameAgrees
  MonitorSound
PROPERTY
  ClicksAnswered
CHECK_DEADLOCK FALSE
