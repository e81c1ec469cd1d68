SPECIFICATION FairSpec
CONSTANTS
  Disks = {"win10", "win11", "mine"}
  Custom = {"mine"}
  GoldenNS = "golden-ns"
  Elsewhere = "elsewhere"
  Templates <- MCTemplates
  MaxTries = 2
  MaxEdits = 1
  MaxFaults = 1
INVARIANTS
  TemplateBootsDisk
  NoAnswerFileLeft
PROPERTIES
  OthersEditsKept
  SomeBuildPublishes
CHECK_DEADLOCK FALSE
