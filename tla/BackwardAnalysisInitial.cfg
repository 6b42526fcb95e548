CONSTANTS
  Shapes <- MCShapes
  Leq <- MCLeq
  IDType_MAX = 40
  StdRules <- MCStdRules
  UQRules <- MCUQRules
  Inputs <- MCInputs

SPECIFICATION Spec

INVARIANT StopsOnceInitialIsReached

CHECK_DEADLOCK FALSE
