SPECIFICATION Spec
CONSTANTS
  MaxBuilds = 1
  MaxCancels = 1
  MaxCrashes = 0
  MaxFaults = 0
  MaxMeddles = 0
  SlowCluster = FALSE
INVARIANTS
  CancelRemovesVm
CHECK_DEADLOCK FALSE
