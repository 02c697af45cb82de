SPECIFICATION FairSpec
CONSTANTS
  Programs <- MCPrograms
  Apply <- MCApply
  Values <- MCValues
  LoopLimit = 4
  Nil = Nil
CHECK_DEADLOCK FALSE
INVARIANTS ResultsCorrect IterationsWhole ErrorsReported
PROPERTY RunEnds
