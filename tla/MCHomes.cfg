CONSTANTS
  t1 = t1
  t2 = t2
  t3 = t3
  alice = alice
  bob = bob
  here = here
  there = there
  Thread <- MCThread
  Player <- MCPlayer
  Name = {"default"}
  Place <- MCPlace
  Nowhere = Nowhere
  MaxMaps = 2
  MaxCalls = 3
  MaxCrashes = 1
  Bounds <- MCBounds
SPECIFICATION Spec
INVARIANTS
  HomesAsTold
  PanicIsExplained
SYMMETRY Symmetry
CHECK_DEADLOCK FALSE
