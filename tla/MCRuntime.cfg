\* Two instance objects over two ids: an id is started again after a Stop,
\* and a Stop of one caller overlaps a Start of the other.  Three restarts
\* take the delay through 1, 2 and the cap 3.
CONSTANTS
  Ids = {pull, push}
  PushIds = {push}
  Callers = {a, b}
  MaxInst = 2
  MaxRestarts = 3
  BaseDelay = 1
  MaxDelay = 3
  OverlappingStops = FALSE
SPECIFICATION Spec
INVARIANTS TypeOK ListedWhileLive
PROPERTIES StoppedIsFinal CancelledEnds StopReturns
CHECK_DEADLOCK FALSE
