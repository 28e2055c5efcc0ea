CONSTANTS
  cp = cp
  info = info
  tell = tell
  home = home
  Plugin <- MCPlugin
  Commander <- MCCommander
  Processor = cp
  Starter = {s0, s1}
  First = s0
  Main = main
  Handler = handler
  NoPlugin = NoPlugin
  Daemons <- MCDaemons
SPECIFICATION FairSpec
CHECK_DEADLOCK FALSE
INVARIANTS
  TypeOK
  StartupOrder
  NobodyMissed
PROPERTY
  ErrorsAreHandled
