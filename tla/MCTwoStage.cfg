SPECIFICATION TwoStageSpec
CONSTANTS
  Loops = {l1}
  Retry = 2
  Concurrent = 1
  ChanCap = 1
  Timeout = TRUE
  FailingHooks = {"pre", "post"}
  Controls = {"jobStart", "jobStop"}
  Stages = {1, 2}
  Calls = {c1, c2}
  Hooks <- HookList
INVARIANT NoUnattendedSync
CHECK_DEADLOCK FALSE
