SPECIFICATION Spec
CONSTANTS
  Programs <- MCFailing
  Apply <- MCApply
  Values <- MCValues
  LoopLimit = 4
  Nil = Nil
INVARIANT NoErrorLost
CHECK_DEADLOCK FALSE
