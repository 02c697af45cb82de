SPECIFICATION Spec
CONSTANTS
  t1 = t1
  t2 = t2
  t3 = t3
  Threads <- MCThreads
  NoThread = NoThread
  MaxSessions = 4
SYMMETRY Symmetry
CHECK_DEADLOCK FALSE
INVARIANTS Isolated SpaceKept AllEnded MutexReleased
