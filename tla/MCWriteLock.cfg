SPECIFICATION FairSpec
CONSTANTS
  c1 = c1
  c2 = c2
  h1 = h1
  h2 = h2
  nobody = nobody
  Client <- MCClient
  Handler <- MCHandler
  NoClient = nobody
  MaxCalls = 2
INVARIANTS
  MutexOwned
  HoldExpires
  HeldUntilExpiry
PROPERTIES
  ImplementsLock
  EveryCallReturns
  LockBecomesFree
