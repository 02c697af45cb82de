SPECIFICATION FairSpec
CONSTANTS
  Graphs <- MCGraphs
  Values <- MCValues
  Apply <- MCApply
  ExecLimit = 120
  MaxRuns <- MCRuns
  OpsMayFail = TRUE
  OwnFlowPath = TRUE
INVARIANTS ResultsCorrect BranchDisabled
PROPERTIES RewindRestartsLoop RunEnds
