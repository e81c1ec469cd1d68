SPECIFICATION Spec
CONSTANTS
  MaxBuilds = 1
  MaxCancels = 0
  MaxCrashes = 0
  MaxFaults = 0
  MaxMeddles = 1
  SlowCluster = FALSE
PROPERTIES
  DeletedVmNotAccepted
CHECK_DEADLOCK FALSE
