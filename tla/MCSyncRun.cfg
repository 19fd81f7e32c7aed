SPECIFICATION FairSpec
CONSTANTS
  Loops = {l1}
  Retry = 2
  Concurrent = 1
  ChanCap = 1
  Timeout = TRUE
  FailingHooks = {"pre", "post"}
  Controls = {"jobStart", "jobStop"}
  Stages = {1}
  Calls = {c1, c2}
  Hooks <- HookList
INVARIANTS
  SyncRunTypeOK
  OneProcess
  NoUnattendedSync
  SnapshotQuiet
  Layers
PROPERTIES
  ImplementsJob
  KillCompletes
CHECK_DEADLOCK FALSE
