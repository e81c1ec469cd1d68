SPECIFICATION FairSpec
CONSTANTS
  Pods = {p1, p2}
  MaxDeaths = 1
  Views <- MCViews
  Catalogs <- MCCatalogs
INVARIANTS
  SuccessBootsQuiet
  OthersKept
PROPERTIES
  PatchSucceeds
CHECK_DEADLOCK FALSE
