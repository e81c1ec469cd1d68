SPECIFICATION FairSpec
CONSTANTS
  MaxBuilds = 3
  MaxCancels = 0
  MaxCrashes = 1
  MaxFaults = 0
  MaxMeddles = 0
  SlowCluster = FALSE
PROPERTIES
  StartLeadsToReady
  ResumeLeadsToReady
CHECK_DEADLOCK FALSE
