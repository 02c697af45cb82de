SPECIFICATION FairSpec
CONSTANTS
  N = 5
  Threshold = 2
  Inputs <- MCInputs
  MaxCalls = 3
  Threads = {t1, t2}
  BlockDim = 4
  Warp = 2
  Digits = 1
  ScanDim = 2
  ScanInputs <- MCScanInputs
  Mantissa = 3
  WordBits = 2
INVARIANTS Conserved MessageFull ScanExact
PROPERTY CodingEnds
CHECK_DEADLOCK FALSE
