\* One tick over each time limit of a login; a limiter that collects every
\* third call what has been idle for five minutes of three ticks; a stream that
\* outlives its first ping by a tick; a page that changes its options once (the
\* connector of all records or of two of three, one or two records shown, with a
\* replay or without) and connects three times to a bus whose ring holds more
\* than a channel.
CONSTANTS
  Tabs = {t1, t2}
  SessionTTL = 1
  FlowTTL = 1
  JwksMaxAge = 1
  CallbackMax = 1
  MaxTime = 2
  MaxKeys = 2
  MaxLives = 2
  Addrs = {a1, a2}
  RpmArg = 2
  Minute = 3
  GcEvery = 3
  GcAge = 15
  Clients = {c1, c2, c3}
  MaxStreams = 2
  PingEvery = 1
  Timeout = 2
  Backlog = 1
  Sizes = {1, 2}
  Filters = {{1, 2, 3}, {1, 3}}
  RingSize = 2
  Room = 1
  MaxRecords = 3
  MaxEffects = 2
  MaxSockets = 3
SPECIFICATION SpecHttp
INVARIANTS LoginsSound LimitExact StreamsCounted 
PROPERTIES StreamEnds
CHECK_DEADLOCK FALSE
