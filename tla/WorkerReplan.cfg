SPECIFICATION Spec
CONSTANTS
  Loops = {l1}
  Retry = 1
  Concurrent = 1
  ChanCap = 2
  Timeout = FALSE
  FailingHooks = {}
  Controls = {"jobStart", "jobStop", "jobRestart", "jobHalt", "jobForceStart"}
  Commands = {"Restart"}
  Stored = {"None"}
  MaxSignals = 0
  LostReports = FALSE
INVARIANT NoSelfDeadlock
CHECK_DEADLOCK FALSE
