SPECIFICATION Spec
CONSTANTS
  Before <- MCBefore
  Inputs <- GlueInputs
CHECK_DEADLOCK FALSE
INVARIANT
  MappingIsIntoComplement
