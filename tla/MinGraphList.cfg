CONSTANTS
  Shapes <- MCShapes
  Leq <- MCLeq
  IDType_MAX = 6

SPECIFICATION Spec

INVARIANTS
  IdsMatchList
  DeletionsAreJustified

PROPERTIES
  NothingLost
  ImplementsMinimalGraphs

CHECK_DEADLOCK FALSE
