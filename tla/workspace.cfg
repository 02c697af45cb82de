SPECIFICATION FairSpec
CONSTANTS
  Threads = {t1, t2}
  NoThread = NoThread
  Requests = {1, 2}
  ExpandSizes = {3}
  InitialSize = 2
  MaxCycleBytes = 4
  MaxMallocs = 4
INVARIANTS TypeOK RegionsSound HeapSound Accounted
PROPERTIES SectionCompletes ImplementsArena
