SPECIFICATION LiveSpec
CONSTANTS
  Loops = {l1}
  Retry = 2
  Concurrent = 1
  ChanCap = 2
  Timeout = FALSE
  FailingHooks = {"pre", "post"}
  Controls = {"jobStart", "jobStop", "jobRestart", "jobHalt", "jobForceStart"}
  Commands = {"Ping"}
  Stored = {"None", "Paused", "Disabled"}
  MaxSignals = 1
  LostReports = TRUE
PROPERTIES
  HaltCompletes
  KeepsSyncing
CHECK_DEADLOCK FALSE
