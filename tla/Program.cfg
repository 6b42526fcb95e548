\* Two calls after one another.
SPECIFICATION Spec
CONSTANTS
  Before <- MCBefore
  GivenFiles <- MCGivenFiles
  Folders = {"out"}
  ConfigFiles <- MCConfigFiles
  CommandLines <- MCCommandLines
  Numerals <- MCNumerals
  MaxCalls = 2
  MaxSteps = 20
  Prepared <- MCPrepared
  Predecessors <- MCPredecessors
  SearchResults <- MCSearchResults
INVARIANTS
  WrittenFilesReadBack
  OneInstanceIsTheReadRule
  AcceptedRulesAreMorphisms
  AtMostOneLeader
\* After the last call nothing happens.
CHECK_DEADLOCK FALSE
