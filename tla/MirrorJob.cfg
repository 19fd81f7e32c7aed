SPECIFICATION FairJobSpec
CONSTANTS
  Loops = {l1}
  Retry = 2
  Concurrent = 1
  ChanCap = 2
  Timeout = TRUE
  FailingHooks = {"pre", "post"}
  Controls = {"jobStart", "jobStop", "jobDisable", "jobRestart", "jobPing", "jobHalt", "jobForceStart"}
INVARIANTS
  JobTypeOK
  IdleHasNoRun
  NoUnattendedProcess
  SemaphoreExact
  MessageOrder
PROPERTY KillCompletes
CHECK_DEADLOCK FALSE
