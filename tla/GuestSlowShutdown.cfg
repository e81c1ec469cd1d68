SPECIFICATION Spec
CONSTANTS
  MaxPasses = 8
  MaxRoundsPerBoot = 5
  MaxSealAttempts = 2
  MaxResets = 0
  SlowShutdown = TRUE
INVARIANTS
  NoTaskInImage
CHECK_DEADLOCK FALSE
