CONSTANTS
  Labels = {A, B}
  MaxArity = 2
  MaxID = 5

SYMMETRY LabelSymmetry

SPECIFICATION Spec

INVARIANTS
  IndexIsExact

PROPERTIES
  ImplementsQuotient
