CONSTANTS
  Inputs <- MCInputs

SPECIFICATION Spec

INVARIANTS
  OnlyInjectiveMatches

CHECK_DEADLOCK FALSE
