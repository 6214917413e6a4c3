\* Two records, of a connector or of a request or one of each, beside one stream
\* or none, channels of one and batches of two: a channel overflows, a batch is
\* filled by size or flushed by the ticker, a write fails, a stream closes under
\* a Publish, and every order and timeout of the shutdown waits occurs; a key is
\* overwritten, read, deleted and listed while a Put and a crash go on.
CONSTANTS
  c1 = c1
  h1 = h1
  s1 = s1
  Writer = w
  Engine = e
  Connectors = {c1}
  Requests = {h1}
  StreamSubs = {s1}
  RingArg = 0
  BufferArg = 1
  MaxPublish = 2
  MaxLog = 2
  BatchArg = 2
  MaxVisits = 1
  Keys = {k1, k2}
  Puts = {p1, p2}
  Readers = {r1}
  Size = 2
  MaxCrashes = 1
  RowGroupCap = 2
  MaxRows = 5
  Committers = {m1, m2}
  MaxArrays = 5
SPECIFICATION SpecStorage
INVARIANTS TypeOK BatchesPartition EveryLossHasACause OrderlyShutdown LakeSound
PROPERTIES ImplementsRecordLog BatchFlushed WriterStops
CHECK_DEADLOCK FALSE
