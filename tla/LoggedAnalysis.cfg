CONSTANTS
  Shapes <- MCShapes
  Leq <- MCLeq
  IDType_MAX = 7
  StdRules <- MCStdRules
  UQRules <- MCUQRules
  Inputs <- MCInputs

SPECIFICATION LoggedSpec

INVARIANTS
  TypeOK
  EveryGraphIsAccountedFor
  SourcesAreOneStepBack
  StepFilesMatchGeneration
  ReasonsCanBeFollowed

CHECK_DEADLOCK FALSE
