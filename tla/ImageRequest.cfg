SPECIFICATION FairSpec
CONSTANTS
  Names <- MCNames
  Word <- MCWord
  Hints <- MCHints
  Sizes = {"60Gi", "64Gi", "70Gi"}
  TemplateLists <- MCTemplateLists
  Volumes <- MCVolumes
  Classes = {"gold"}
  TypedNames = {"", "Gold_1", "custom", "my-win10", "windows11"}
  TypedSizes = {"70Gi"}
  TypedUrls = {"", "url", "URL", "ftp"}
  Scheme <- MCScheme
  Cached <- MCCached
  Plans <- MCPlans
  Media = {"serverEval", "clientEval", "consumer"}
  Images <- MCImages
  Blockers <- MCBlockers
  CdFolders = {"2k12R2", "w10", "w11", "2k16", "2k19", "2k22"}
INVARIANTS
  TypeOK
  SentFileFits
  EnabledStartIsComplete
  SealedIsGood
PROPERTIES
  TypedValuesKept
  TemplateOfFamily
  SetupSeals
CHECK_DEADLOCK FALSE
