SPECIFICATION Spec
CONSTANTS
  Loops = {l1}
  Retry = 1
  Concurrent = 1
  ChanCap = 1
  Timeout = FALSE
  FailingHooks = {"post"}
  Controls = {"jobStart", "jobStop", "jobRestart", "jobHalt", "jobForceStart"}
  Commands = {"Start", "Stop", "Restart"}
  Stored = {"None", "Paused"}
  MaxSignals = 1
  LostReports = FALSE
INVARIANTS WorkerTypeOK HaltWaits StatusSettles
PROPERTY JobSpec
CHECK_DEADLOCK FALSE
