\* The instance of MCBus.cfg; one publisher and one subscriber suffice.
CONSTANTS
  p1 = p1
  p2 = p2
  s1 = s1
  s2 = s2
  Publishers = {p1, p2}
  Subscribers = {s1, s2}
  RingArg = 2
  BufferArg = 1
  MaxPublish = 2
  MaxLog = 3
  Filters <- MCFilters
SPECIFICATION Spec
INVARIANTS CloseNeverPanicsPublish
CHECK_DEADLOCK FALSE
