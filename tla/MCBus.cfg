\* Two publishers, two subscriptions, a ring of two and channels of one:
\* ring eviction, full channels and replays that do not fit all occur.
CONSTANTS
  p1 = p1
  p2 = p2
  s1 = s1
  s2 = s2
  Publishers = {p1, p2}
  Subscribers = {s1, s2}
  RingArg = 2
  BufferArg = 1
  MaxPublish = 2
  MaxLog = 3
  Filters <- MCFilters
SPECIFICATION Spec
INVARIANTS TypeOK InOrderAtMostOnce NoSilentLoss RecentIsLatest
PROPERTY PublishReturns
CHECK_DEADLOCK FALSE
