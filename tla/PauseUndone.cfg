SPECIFICATION Spec
CONSTANTS
  Keys = {}
  Values = {unset}
  Unset = unset
  Sizes = {0}
  MaxClock = 1
  MaxRev = 4
  Commands = {"Start", "Stop"}
  MaxLate = 1
PROPERTY PauseKept
CHECK_DEADLOCK FALSE
