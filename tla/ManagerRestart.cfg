SPECIFICATION Spec
CONSTANTS
  MaxBuilds = 4
  MaxCancels = 0
  MaxCrashes = 2
  MaxFaults = 1
  MaxMeddles = 1
  SlowCluster = TRUE
INVARIANTS
  ReadyMeansSealed
  RecordMatchesMemory
PROPERTIES
  CleanBoot
  ImplementsLifecycle
CHECK_DEADLOCK FALSE
