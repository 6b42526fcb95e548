SPECIFICATION StepSpec
CONSTANTS
  Before <- MCBefore
  Inputs <- MCInputs
  Steps <- MCSteps
  Graphs <- MCGraphs
CHECK_DEADLOCK FALSE
INVARIANTS
  StepIsSound
  StepIsComplete
  EveryComplementRewrites
  AllComplementsFound
PROPERTIES
  EnumerationAdvances
