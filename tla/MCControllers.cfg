SPECIFICATION FairSpec
CONSTANTS
  JobSpecs <- JobSpecsHere
  FrontConfig = TRUE
  EnableMetric = TRUE
  MaxJobFaults = 2
  Managers = {m1, m2}
  MaxFaults = 2
  Fields = {f1, f2}
  Texts = {"", "x"}
  Known = {a, b}
  Aliases = {"", "y", "z"}
  MaxTime = 3
  MaxChanges = 3
INVARIANTS
  ControllersTypeOK
  ConfigMounted
  DeployedIsComplete
PROPERTIES
  StatusUntouched
  JobsConverge
  Succession
  ActiveStays
  PublishedOnce
  EditsDated
  RepliesTrue
CHECK_DEADLOCK FALSE
