SPECIFICATION FairSpec
CONSTANTS
  MaxPasses = 8
  MaxRoundsPerBoot = 5
  MaxSealAttempts = 2
  MaxResets = 3
  SlowShutdown = FALSE
INVARIANTS
  TypeOK
  NoTaskInImage
  PassesBounded
  SysprepRunsBounded
  VerdictIsRight
  NeverStranded
PROPERTIES
  Decided
CHECK_DEADLOCK FALSE
