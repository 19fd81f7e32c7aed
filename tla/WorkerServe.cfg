SPECIFICATION FairSpec
CONSTANTS
  Loops = {l1}
  Retry = 2
  Concurrent = 1
  ChanCap = 2
  Timeout = TRUE
  FailingHooks = {"pre", "post"}
  Controls = {"jobStart", "jobStop", "jobRestart", "jobHalt", "jobForceStart"}
  Commands = {"Stop", "Ping"}
  Stored = {"None", "Paused", "Disabled"}
  MaxSignals = 0
  LostReports = FALSE
INVARIANT NoSelfDeadlock
PROPERTY CommandsServed
CHECK_DEADLOCK FALSE
