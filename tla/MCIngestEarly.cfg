\* Two connectors alone: one record published while the engine loads its rules
\* suffices.
CONSTANTS
  c1 = c1
  c2 = c2
  Writer = w
  Engine = e
  Connectors = {c1, c2}
  Requests = {}
  StreamSubs = {}
  RingArg = 0
  BufferArg = 1
  MaxPublish = 2
  MaxLog = 2
  BatchArg = 2
  MaxVisits = 0
SPECIFICATION Spec
INVARIANTS EngineSeesEarlyRecords
CHECK_DEADLOCK FALSE
