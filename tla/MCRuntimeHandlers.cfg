\* The instance of MCRuntime.cfg; one Stop of the push connector suffices.
CONSTANTS
  Ids = {pull, push}
  PushIds = {push}
  Callers = {a, b}
  MaxInst = 2
  MaxRestarts = 3
  BaseDelay = 1
  MaxDelay = 3
  OverlappingStops = FALSE
SPECIFICATION Spec
INVARIANTS HandlersBelongToInstances
CHECK_DEADLOCK FALSE
