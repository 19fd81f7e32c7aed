SPECIFICATION FairSpec
CONSTANTS
  Keys = {}
  Values = {unset}
  Unset = unset
  Sizes = {0}
  MaxClock = 1
  MaxRev = 2
  Commands = {"Start", "Stop"}
  MaxLate = 1
INVARIANT SystemTypeOK
PROPERTIES
  LockReleased
  StartupCompletes
CHECK_DEADLOCK FALSE
