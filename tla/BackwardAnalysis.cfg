CONSTANTS
  Shapes <- MCShapes
  Leq <- MCLeq
  IDType_MAX = 40
  StdRules <- MCStdRules
  UQRules <- MCUQRules
  Inputs <- MCInputs

SPECIFICATION Spec

INVARIANTS
  IdsAreUnique
  NoComparableGraphs
  NothingForgotten
  ResultIsExact
  VerdictIsCorrect

PROPERTIES
  KnowledgeGrows
  ImplementsCoverability
  Terminates

CHECK_DEADLOCK FALSE
