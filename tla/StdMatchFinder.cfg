CONSTANTS
  Inputs <- MCInputs

SPECIFICATION Spec

INVARIANTS
  AllMatchesFound
  FirstMatchDecides
  SharedStateIsUndone
  ReturnsWhatCallsFind

PROPERTIES
  Ends

CHECK_DEADLOCK FALSE
