CONSTANTS
  QuantCount = 3
  MaxBound = 4
  Inputs <- InputType

SPECIFICATION Spec

INVARIANTS
  AllInstancesDelivered
  OnlyOneIsRepeated

PROPERTY Ends

CHECK_DEADLOCK FALSE
