SPECIFICATION FairSpec
CONSTANTS
  Size = 3
  Seeds = {1, 2}
  Ops <- MCOps
  Rejects <- MCRejects
  MaxThreads = 3
  Threshold = 2
  Slack = 2
  MaxBlocks = 3
  BlockDim = 2
  Width = 3
  MaxAttempts = 1
  MaxCalls = 3
  Nil = Nil
CHECK_DEADLOCK FALSE
INVARIANTS TypeOK ResultsDeterministic SkipExact StreamContinues ShufflePermutes
PROPERTY OpEnds
