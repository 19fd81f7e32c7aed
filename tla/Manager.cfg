SPECIFICATION ManagerSpec
CONSTANTS
  Keys = {k1}
  Values = {unset, v1}
  Unset = unset
  Sizes = {0, 1}
  MaxClock = 3
  MaxRev = 4
  Commands = {"Start", "Stop"}
INVARIANTS
  TimesOrdered
  MirrorZSane
PROPERTIES
  RegisterSpec
  TimesMonotone
  SizeKept
CHECK_DEADLOCK FALSE
