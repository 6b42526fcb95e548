CONSTANTS
  Before <- MCBefore
  CharCodes <- MCCharCodes
  GraphFiles <- MCGraphFiles
  CommandLines <- MCCommandLines

SPECIFICATION Spec

INVARIANTS
  MinorOrderIsExact
  PathsFindMinors
  IsomorphicGraphsAreRecognised
  TotalsAreRight

CHECK_DEADLOCK FALSE
