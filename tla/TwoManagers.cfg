SPECIFICATION Spec
CONSTANTS
  JobSpecs <- JobSpecsHere
  FrontConfig = TRUE
  EnableMetric = TRUE
  MaxJobFaults = 3
  Managers = {m1, m2}
  MaxFaults = 1
  Fields = {f1, f2}
  Texts = {"", "x"}
  Known = {a, b}
  Aliases = {"", "y", "z"}
  MaxTime = 3
  MaxChanges = 3
INVARIANT
  OneActive
CHECK_DEADLOCK FALSE
