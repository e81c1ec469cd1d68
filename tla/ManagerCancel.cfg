SPECIFICATION FairSpec
CONSTANTS
  MaxBuilds = 2
  MaxCancels = 1
  MaxCrashes = 0
  MaxFaults = 1
  MaxMeddles = 0
  SlowCluster = TRUE
INVARIANTS
  TypeOK
  SingleDriver
  CancelExcludesFinish
  NoOrphanStatus
  NoForeignGuest
  ReadyMeansCloned
PROPERTIES
  BuildsEnd
  GoldenOnlyByUncancelled
  ImplementsLifecycle
CHECK_DEADLOCK FALSE
