SPECIFICATION FairSpec
CONSTANTS
  Ids = {1, 2, 3}
  Vars = {9}
  NodeDefs <- MCNodeDefs
  Ways = {"api", "file"}
  Copies = {"clone", "asT"}
CHECK_DEADLOCK FALSE
INVARIANTS TypeOK Ordered VisitedOnce GivesUpRightly RefusedCopies
PROPERTY BuildEnds
