SPECIFICATION Spec
CONSTANTS
  Ids = {1, 2, 3}
  Vars = {9}
  NodeDefs <- FewNodeDefs
  Ways = {"file"}
  Copies = {}
CHECK_DEADLOCK FALSE
INVARIANT ScopedNotPlaced
