---------------------------- MODULE IngestProofs ----------------------------
(***************************************************************************)
(* Proofs about the path from Publish to the events table, for every set   *)
(* of publishers and every size and bound.  What is known about the bus    *)
(* comes from BusProofs, of which this is an instance.                     *)
(***************************************************************************)
EXTENDS Ingest, SequenceTheorems, FiniteSetTheorems, TLAPS

BP == INSTANCE BusProofs WITH Filters <- {Records}

LEMMA BusAssumed == BP!BusAssumption
BY IngestAssumption DEF BP!BusAssumption, BP!Records, Records

(***************************************************************************)
(* Both instances of the bus are the same.                                 *)
(***************************************************************************)
LEMMA SameInit == B!Init => BP!Init
BY DEF B!Init, BP!Init

LEMMA SameType == B!TypeOK <=> BP!TypeOK
BY DEF B!TypeOK, BP!TypeOK, B!Records, BP!Records, B!SubBuffer, BP!SubBuffer

LEMMA SamePublish ==
  ASSUME NEW p \in Publishers, B!PublishLock(p)
  PROVE  BP!PublishLock(p)
BY DEF B!PublishLock, BP!PublishLock, B!Publishing, BP!Publishing, B!RingAppend,
       BP!RingAppend, B!RingSize, BP!RingSize

LEMMA SameDeliver ==
  ASSUME NEW p \in Publishers, NEW s \in Subscribers, B!Deliver(p, s)
  PROVE  BP!Deliver(p, s)
BY DEF B!Deliver, BP!Deliver, B!FilterOut, BP!FilterOut, B!Send, BP!Send, B!Drop,
       BP!Drop, B!SendOnClosed, BP!SendOnClosed, B!histVars, BP!histVars,
       B!Current, BP!Current, B!SubBuffer, BP!SubBuffer

LEMMA SameSubscribe ==
  ASSUME NEW s \in Subscribers, NEW replay \in BOOLEAN, B!Subscribe(s, Records, replay)
  PROVE  BP!Subscribe(s, Records, replay)
<1>1. B!SubBuffer = BP!SubBuffer
  BY DEF B!SubBuffer, BP!SubBuffer
<1>2. \A S : B!Cardinality(S) = BP!Cardinality(S)
  BY DEF B!Cardinality, BP!Cardinality, B!IsFiniteSet, BP!IsFiniteSet
<1> HIDE DEF B!SubBuffer, BP!SubBuffer
<1>3. B!ReplayPositions(Records, replay) = BP!ReplayPositions(Records, replay)
  BY <1>1, <1>2 DEF B!ReplayPositions, BP!ReplayPositions
<1> QED
  BY <1>3 DEF B!Subscribe, BP!Subscribe

LEMMA SameClose ==
  ASSUME NEW s \in Subscribers, B!Close(s)
  PROVE  BP!Close(s)
BY DEF B!Close, BP!Close, B!histVars, BP!histVars

LEMMA SameReceive ==
  ASSUME NEW s \in Subscribers, B!Receive(s)
  PROVE  BP!Receive(s)
BY DEF B!Receive, BP!Receive, B!histVars, BP!histVars

LEMMA Members ==
  /\ Writer \in Subscribers /\ Engine \in Subscribers /\ StreamSubs \subseteq Subscribers
  /\ Writer \notin StreamSubs /\ Engine \notin StreamSubs /\ Writer # Engine
  /\ Connectors \subseteq Publishers /\ Requests \subseteq Publishers
  /\ \A p \in Publishers : p \in Connectors \/ p \in Requests
  /\ \A s \in Subscribers : s = Writer \/ s = Engine \/ s \in StreamSubs
  /\ \A p \in Connectors : p \notin Requests
BY IngestAssumption DEF Publishers, Subscribers

\* What a step does to the process when it is one of the bus alone.
LEMMA OnlyBus ==
  /\ \A p \in Publishers : PublisherDelivers(p) => UNCHANGED procVars
  /\ \A p \in Connectors : ConnectorPublish(p) => UNCHANGED procVars
  /\ \A s \in StreamSubs : StreamTake(s) \/ StreamClose(s) => UNCHANGED procVars
BY DEF PublisherDelivers, ConnectorPublish, StreamTake, StreamClose

\* A step of the process is a step of the bus or leaves the bus alone.
LEMMA BusMoves == [Next]_vars => [BP!Next]_(BP!vars)
<1> SUFFICES ASSUME [Next]_vars PROVE [BP!Next]_(BP!vars)
  OBVIOUS
<1>m. Records \in {Records} /\ FALSE \in BOOLEAN
  OBVIOUS
<1>1. ASSUME NEW p \in Connectors, ConnectorPublish(p) PROVE BP!Next
  BY <1>1, Members, SamePublish DEF ConnectorPublish, BP!Next
<1>2. CASE WriterTake
  BY <1>2, Members, SameReceive DEF WriterTake, BP!Next
<1>3. CASE WriterClose
  BY <1>3, Members, SameClose DEF WriterClose, BP!Next
<1>4. CASE StartWriter
  BY <1>4, <1>m, Members, SameSubscribe DEF StartWriter, BP!Next
<1>5. CASE EngineSubscribe
  BY <1>5, <1>m, Members, SameSubscribe DEF EngineSubscribe, BP!Next
<1>6. CASE EngineTake
  BY <1>6, Members, SameReceive DEF EngineTake, BP!Next
<1>7. CASE EngineClose
  BY <1>7, Members, SameClose DEF EngineClose, BP!Next
<1>8. ASSUME UNCHANGED busVars PROVE UNCHANGED BP!vars
  BY <1>8 DEF busVars, BP!vars, BP!busVars, BP!histVars
<1>9. ASSUME NEW p \in Connectors, StartConnector(p) \/ ConnectorExit(p)
      PROVE  UNCHANGED busVars
  BY <1>9 DEF StartConnector, ConnectorExit
<1>10. ASSUME SpawnEngine \/ Serve \/ Signal \/ Drained \/ CancelRoot \/ WaitForWriter
                 \/ CloseStore
       PROVE  UNCHANGED busVars
  BY <1>10 DEF SpawnEngine, Serve, Signal, Drained, CancelRoot, WaitForWriter, CloseStore
<1>11. ASSUME WriterTick \/ WriterCancelled \/ FlushCommits \/ FlushFails \/ EngineCancelled
       PROVE  UNCHANGED busVars
  BY <1>11 DEF WriterTick, WriterCancelled, FlushCommits, FlushFails, EngineCancelled
<1>12. UNCHANGED vars => UNCHANGED busVars
  BY DEF vars
<1>13. ASSUME NEW p \in Publishers, PublisherDelivers(p) PROVE BP!Next
  BY <1>13, SameDeliver DEF PublisherDelivers, BP!Next
<1>14. ASSUME NEW h \in Requests, RequestPublish(h) PROVE BP!Next
  BY <1>14, Members, SamePublish DEF RequestPublish, BP!Next
<1>15. ASSUME NEW h \in Requests, RequestArrives(h) \/ RequestEnds(h)
       PROVE  UNCHANGED busVars
  BY <1>15 DEF RequestArrives, RequestEnds
<1>16. ASSUME NEW s \in StreamSubs, StreamSubscribe(s) PROVE BP!Next
  BY <1>16, <1>m, Members, SameSubscribe DEF StreamSubscribe, BP!Next
<1>17. ASSUME NEW s \in StreamSubs, StreamTake(s) \/ StreamClose(s) PROVE BP!Next
  BY <1>17, Members, SameReceive, SameClose DEF StreamTake, StreamClose, BP!Next
<1> QED
  BY <1>1, <1>2, <1>3, <1>4, <1>5, <1>6, <1>7, <1>8, <1>9, <1>10, <1>11, <1>12, <1>13,
     <1>14, <1>15, <1>16, <1>17
  DEF Next, MainStep, WriterStep, EngineStep

\* So the bus keeps its invariant inside the process.
LEMMA BusKept ==
  /\ Init => BP!BusInv
  /\ BP!BusInv /\ [Next]_vars => BP!BusInv'
<1>1. Init => BP!BusInv
  BY BusAssumed, SameInit, BP!InitBus DEF Init
<1>2. BP!BusInv /\ [BP!Next]_(BP!vars) => BP!BusInv'
  BY BusAssumed, BP!BusStep
<1> QED
  BY <1>1, <1>2, BusMoves

LEMMA BusInvariant == Spec => []BP!BusInv
<1> QED
  BY BusKept, PTL DEF Spec

-----------------------------------------------------------------------------
(***************************************************************************)
(* Where main, writer and engine can be at the same time (Places), and     *)
(* what that says of the bus: each goroutine is subscribed from its        *)
(* Subscribe to its Close (Subscribed), and only a running connector or a  *)
(* request under way is inside Publish (PublishersRun).                    *)
(***************************************************************************)
Startup ==
  /\ main = "boot" <=> writer = "none"
  /\ main \in {"boot", "writer"} =>
       started = {} /\ active = {} /\ engine = "none" /\ log = <<>>
  /\ main \in {"boot", "writer", "starting"} => active = {}

Cancelling ==
  /\ storeOpen <=> main # "closed"
  /\ writer \in {"lastflush", "closing", "done"} => RootCancelled
  /\ engine \in {"closing", "done"} => RootCancelled
  /\ ~timedOut =>
       /\ main = "stopping" \/ RootCancelled => active = {}
       /\ RootCancelled => exited = Connectors
       /\ main \in {"closing", "closed"} => writer = "done"
       /\ main = "closed" => engine = "done"

Batched ==
  /\ Flushing => buf # <<>>
  /\ writer \in {"none", "closing", "done"} => buf = <<>>

Places == Startup /\ Cancelling /\ Batched

Subscribed ==
  /\ Writer \in subs <=> writer \in {"loop", "flush", "lastflush", "closing"}
  /\ Writer \in closed <=> writer = "done"
  /\ Engine \in subs <=> engine \in {"loop", "closing"}
  /\ Engine \in closed <=> engine = "done"
  /\ writer # "none" => filter[Writer] = Records /\ since[Writer] = 0

PublishersRun == \A p \in Publishers : B!Publishing(p) => Running(p)

Process == TypeOK /\ Places /\ Subscribed /\ PublishersRun

LEMMA BatchSizeType == BatchSize \in Nat /\ BatchSize >= 1
BY IngestAssumption DEF BatchSize

LEMMA BusTyped == BP!BusInv => B!TypeOK /\ BP!TypeOK /\ BP!PendingInv
BY SameType DEF BP!BusInv

LEMMA BusTypedNext == BP!BusInv' => (B!TypeOK /\ BP!TypeOK /\ BP!PendingInv)'
BY BusTyped, PTL

LEMMA InitProcess == Init => Process
<1> SUFFICES ASSUME Init PROVE Process
  OBVIOUS
<1>1. B!TypeOK
  BY BusKept, BusTyped
<1>2. /\ subs = {} /\ closed = {} /\ log = <<>>
      /\ \A p \in Publishers : pending[p] = {}
  BY DEF Init, B!Init
<1>3. Len(buf) = 0 /\ buf = <<>> /\ buf \in Seq(Records) /\ stored \in Seq(Records)
  BY EmptySeq DEF Init
<1>4. TypeOK
  <2>1. Len(buf) < BatchSize
    BY <1>3, BatchSizeType
  <2> QED
    BY <1>1, <1>3, <2>1 DEF Init, TypeOK
<1>5. Places
  BY <1>2, <1>3 DEF Init, Places, Startup, Cancelling, Batched, RootCancelled, Flushing
<1>6. Subscribed /\ PublishersRun
  BY <1>2 DEF Init, Subscribed, PublishersRun, B!Publishing
<1> QED
  BY <1>4, <1>5, <1>6 DEF Process

LEMMA TypeStep ==
  ASSUME Process, BP!BusInv, BP!BusInv', [Next]_vars
  PROVE  TypeOK'
<1> DEFINE
    ProcOK ==
      /\ main \in {"boot", "writer", "starting", "serving", "draining", "stopping",
                   "cancelled", "closing", "closed"}
      /\ timedOut \in BOOLEAN /\ storeOpen \in BOOLEAN
      /\ started \subseteq Connectors /\ exited \subseteq started
      /\ active \subseteq Requests /\ served \subseteq active /\ visits \in Nat
      /\ writer \in {"none", "loop", "flush", "lastflush", "closing", "done"}
      /\ engine \in {"none", "loading", "loop", "closing", "done"}
    BufOK ==
      /\ buf \in Seq(Records)
      /\ Len(buf) < BatchSize \/ (writer = "flush" /\ Len(buf) = BatchSize)
    TableOK == stored \in Seq(Records) /\ failed \subseteq Records /\ written \in Nat
<1>t. ProcOK /\ BufOK /\ TableOK /\ B!TypeOK
  BY DEF Process, TypeOK
<1> SUFFICES (ProcOK /\ BufOK /\ TableOK)'
  BY BusTypedNext DEF TypeOK
<1>p. ProcOK /\ BufOK /\ TableOK /\ UNCHANGED procVars => (ProcOK /\ BufOK /\ TableOK)'
  BY DEF procVars, httpVars
<1>l. BatchSize \in Nat /\ BatchSize >= 1 /\ Len(buf) \in Nat /\ Len(<<>>) = 0
  BY <1>t, BatchSizeType, LenProperties, EmptySeq
<1>e. <<>> \in Seq(Records)
  BY EmptySeq
<1>1. ASSUME NEW p \in Connectors, ConnectorExit(p) \/ StartConnector(p)
      PROVE  (ProcOK /\ BufOK /\ TableOK)'
  BY <1>1, <1>t DEF ConnectorExit, StartConnector, httpVars
<1>10. ASSUME NEW h \in Requests, RequestArrives(h) \/ RequestPublish(h) \/ RequestEnds(h)
       PROVE  (ProcOK /\ BufOK /\ TableOK)'
  BY <1>10, <1>t DEF RequestArrives, RequestPublish, RequestEnds
<1>11. ASSUME NEW s \in StreamSubs, StreamSubscribe(s)
       PROVE  (ProcOK /\ BufOK /\ TableOK)'
  BY <1>11, <1>t DEF StreamSubscribe
<1>2. CASE WriterTake
  <2>1. /\ ch[Writer] \in Seq(Records) /\ ch[Writer] # <<>>
        /\ buf' = Append(buf, Head(ch[Writer])) /\ writer = "loop"
        /\ writer' = IF Len(buf') >= BatchSize THEN "flush" ELSE "loop"
    BY <1>2, <1>t, Members DEF WriterTake, B!Receive, B!TypeOK, B!Records, Records
  <2>2. Head(ch[Writer]) \in Records
    BY <2>1, HeadTailProperties
  <2>3. buf' \in Seq(Records) /\ Len(buf') = Len(buf) + 1
    BY <1>t, <2>1, <2>2, AppendProperties
  <2>4. Len(buf) < BatchSize
    BY <1>t, <2>1
  <2>5. BufOK'
    BY <1>l, <2>1, <2>3, <2>4
  <2>6. ProcOK' /\ TableOK'
    BY <1>t, <1>2, <2>1 DEF WriterTake, httpVars
  <2> QED
    BY <2>5, <2>6
<1>3. CASE FlushCommits
  <2>1. stored \o buf \in Seq(Records) /\ written + Len(buf) \in Nat
    BY <1>t, <1>l, ConcatProperties
  <2> QED
    BY <1>3, <1>t, <1>l, <1>e, <2>1 DEF FlushCommits, Flushing, AfterFlush, httpVars
<1>4. CASE FlushFails
  <2>1. ToSet(buf) \subseteq Records
    BY <1>t, ElementOfSeq DEF ToSet
  <2> QED
    BY <1>4, <1>t, <1>l, <1>e, <2>1 DEF FlushFails, Flushing, AfterFlush, httpVars
<1>5. CASE WriterTick \/ WriterCancelled \/ WriterClose
  BY <1>5, <1>t DEF WriterTick, WriterCancelled, WriterClose, httpVars
<1>6. CASE EngineStep
  BY <1>6, <1>t DEF EngineStep, EngineSubscribe, EngineTake, EngineCancelled, EngineClose,
     procVars, httpVars
<1>7. CASE StartWriter \/ SpawnEngine \/ Serve \/ Signal
  BY <1>7, <1>t DEF StartWriter, SpawnEngine, Serve, Signal, Startup, Process, Places, httpVars
<1>8. CASE Drained \/ CancelRoot \/ WaitForWriter \/ CloseStore
  BY <1>8, <1>t DEF Drained, CancelRoot, WaitForWriter, CloseStore, httpVars
<1>9. CASE UNCHANGED vars
  BY <1>9, <1>t, <1>p DEF vars
<1> HIDE DEF ProcOK, BufOK, TableOK
<1> QED
  BY <1>t, <1>p, <1>1, <1>2, <1>3, <1>4, <1>5, <1>6, <1>7, <1>8, <1>9, <1>10, <1>11, OnlyBus
  DEF Next, MainStep, WriterStep

LEMMA PlacesStep ==
  ASSUME Process, BP!BusInv, [Next]_vars
  PROVE  Places'
<1>t. /\ main \in {"boot", "writer", "starting", "serving", "draining", "stopping",
                   "cancelled", "closing", "closed"}
      /\ started \subseteq Connectors /\ exited \subseteq started
      /\ active \subseteq Requests
      /\ writer \in {"none", "loop", "flush", "lastflush", "closing", "done"}
      /\ engine \in {"none", "loading", "loop", "closing", "done"}
      /\ Places
  BY DEF Process, TypeOK
<1> HIDE DEF Process
<1>1. ASSUME NEW p \in Connectors, ConnectorPublish(p)
      PROVE  Places'
  BY <1>1, <1>t DEF ConnectorPublish, procVars, httpVars, Places, Startup, Cancelling,
     Batched, RootCancelled, Flushing
<1>2. ASSUME UNCHANGED <<log, procVars>> PROVE Places'
  BY <1>2, <1>t DEF procVars, httpVars, Places, Startup, Cancelling, Batched, RootCancelled,
     Flushing
<1>13. ASSUME NEW p \in Publishers, PublisherDelivers(p) PROVE UNCHANGED <<log, procVars>>
  BY <1>13, OnlyBus DEF PublisherDelivers, B!Deliver, B!FilterOut, B!Send, B!Drop,
     B!SendOnClosed, B!histVars
<1>14. ASSUME NEW s \in StreamSubs, StreamTake(s) \/ StreamClose(s)
       PROVE  UNCHANGED <<log, procVars>>
  BY <1>14, OnlyBus DEF StreamTake, StreamClose, B!Receive, B!Close, B!histVars
<1>15. ASSUME NEW s \in StreamSubs, StreamSubscribe(s) PROVE Places'
  BY <1>15, <1>t DEF StreamSubscribe, B!Subscribe, Places, Startup, Cancelling, Batched,
     RootCancelled, Flushing
<1>16. ASSUME NEW h \in Requests, RequestArrives(h) PROVE Places'
  BY <1>16, <1>t DEF RequestArrives, busVars, Places, Startup, Cancelling, Batched,
     RootCancelled, Flushing
<1>17. ASSUME NEW h \in Requests, RequestPublish(h) PROVE Places'
  BY <1>17, <1>t DEF RequestPublish, Places, Startup, Cancelling, Batched, RootCancelled,
     Flushing
<1>18. ASSUME NEW h \in Requests, RequestEnds(h) PROVE Places'
  BY <1>18, <1>t DEF RequestEnds, busVars, Places, Startup, Cancelling, Batched,
     RootCancelled, Flushing
<1>3. ASSUME NEW p \in Connectors, ConnectorExit(p) \/ StartConnector(p)
      PROVE  Places'
  <2>1. UNCHANGED <<log, main, timedOut, active, writer, buf, engine, storeOpen>>
        /\ (main = "starting" \/ started' = started)
        /\ (p \notin exited \/ exited' = exited)
        /\ exited \subseteq exited' /\ exited' \subseteq Connectors
        /\ p \in started' /\ started \subseteq started'
    BY <1>3, <1>t DEF ConnectorExit, StartConnector, busVars, httpVars
  <2>2. started = {} /\ main \in {"boot", "writer"} => FALSE
    BY <1>3 DEF ConnectorExit, StartConnector
  <2> QED
    BY <2>1, <2>2, <1>t DEF Places, Startup, Cancelling, Batched, RootCancelled, Flushing
<1>4. CASE WriterTake
  <2>1. writer = "loop" /\ writer' \in {"loop", "flush"}
        /\ buf' = Append(buf, Head(ch[Writer]))
        /\ UNCHANGED <<log, main, timedOut, started, exited, active, engine, storeOpen>>
    BY <1>4 DEF WriterTake, B!Receive, B!histVars, httpVars
  <2>2. buf \in Seq(Records) /\ ch[Writer] \in Seq(Records) /\ ch[Writer] # <<>>
    BY <1>4, BusTyped, Members DEF Process, TypeOK, WriterTake, B!Receive, B!TypeOK, B!Records,
       Records
  <2>3. Head(ch[Writer]) \in Records
    BY <2>2, HeadTailProperties
  <2>4. buf' # <<>>
    BY <2>1, <2>2, <2>3, AppendProperties
  <2> QED
    BY <2>1, <2>4, <1>t DEF Places, Startup, Cancelling, Batched, RootCancelled, Flushing
<1>5. CASE WriterTick \/ WriterCancelled
  BY <1>5, <1>t DEF WriterTick, WriterCancelled, busVars, httpVars, Places, Startup, Cancelling,
     Batched, RootCancelled, Flushing
<1>6. CASE FlushCommits \/ FlushFails
  BY <1>6, <1>t DEF FlushCommits, FlushFails, busVars, httpVars, Places, Startup, Cancelling,
     Batched, RootCancelled, Flushing, AfterFlush
<1>7. CASE WriterClose
  BY <1>7, <1>t DEF WriterClose, B!Close, B!histVars, httpVars, Places, Startup, Cancelling,
     Batched, RootCancelled, Flushing
<1>8. CASE EngineStep
  <2>1. UNCHANGED <<log, main, timedOut, started, exited, active, writer, buf, storeOpen>>
        /\ engine \notin {"none", "done"}
        /\ (RootCancelled \/ engine' \notin {"closing", "done"})
    BY <1>8, <1>t DEF EngineStep, EngineSubscribe, EngineTake, EngineCancelled, EngineClose,
       B!Subscribe, B!Receive, B!Close, B!histVars, busVars, procVars, httpVars, Places, Cancelling
  <2> QED
    BY <2>1, <1>t DEF Places, Startup, Cancelling, Batched, RootCancelled, Flushing
<1>9. CASE StartWriter
  BY <1>9, <1>t DEF StartWriter, B!Subscribe, httpVars, Places, Startup, Cancelling, Batched,
     RootCancelled, Flushing
<1>10. CASE SpawnEngine \/ Serve \/ Signal
  BY <1>10, <1>t DEF SpawnEngine, Serve, Signal, busVars, httpVars, Places, Startup, Cancelling, Batched,
     RootCancelled, Flushing
<1>11. CASE Drained \/ CancelRoot \/ WaitForWriter \/ CloseStore
  BY <1>11, <1>t DEF Drained, CancelRoot, WaitForWriter, CloseStore, busVars, httpVars, Places, Startup,
     Cancelling, Batched, RootCancelled, Flushing
<1>12. CASE UNCHANGED vars
  BY <1>12, <1>t DEF vars, busVars, procVars, httpVars, Places, Startup, Cancelling, Batched,
     RootCancelled, Flushing
<1> QED
  BY <1>1, <1>2, <1>3, <1>4, <1>5, <1>6, <1>7, <1>8, <1>9, <1>10, <1>11, <1>12, <1>13,
     <1>14, <1>15, <1>16, <1>17, <1>18
  DEF Next, MainStep, WriterStep

\* The steps that leave the subscriptions, and the two goroutines' places, alone.
LEMMA SubscribedStep ==
  ASSUME Process, BP!BusInv, [Next]_vars
  PROVE  Subscribed'
<1>t. /\ writer \in {"none", "loop", "flush", "lastflush", "closing", "done"}
      /\ engine \in {"none", "loading", "loop", "closing", "done"}
      /\ filter \in [Subscribers -> SUBSET Records]
      /\ since \in [Subscribers -> Nat]
      /\ Subscribed /\ Startup
  BY BusTyped
  DEF Process, Places, TypeOK, B!TypeOK, B!Records, Records
<1>m. /\ Writer \in Subscribers /\ Engine \in Subscribers /\ Writer # Engine
      /\ \A s \in StreamSubs : s \in Subscribers /\ s # Writer /\ s # Engine
  BY Members
<1> HIDE DEF Process
<1>1. ASSUME NEW p \in Publishers, PublisherDelivers(p)
      PROVE  UNCHANGED <<subs, closed, filter, since, writer, engine>>
  BY <1>1 DEF PublisherDelivers, B!Deliver, B!FilterOut, B!Send, B!Drop, B!SendOnClosed,
     B!histVars, procVars
<1>2. ASSUME NEW p \in Connectors, ConnectorPublish(p) \/ ConnectorExit(p) \/ StartConnector(p)
      PROVE  UNCHANGED <<subs, closed, filter, since, writer, engine>>
  BY <1>2 DEF ConnectorPublish, B!PublishLock, ConnectorExit, StartConnector, busVars, procVars
<1>14. ASSUME NEW h \in Requests, RequestArrives(h) \/ RequestPublish(h) \/ RequestEnds(h)
       PROVE  UNCHANGED <<subs, closed, filter, since, writer, engine>>
  BY <1>14 DEF RequestArrives, RequestPublish, RequestEnds, B!PublishLock, busVars
<1>15. ASSUME NEW s \in StreamSubs, StreamTake(s)
       PROVE  UNCHANGED <<subs, closed, filter, since, writer, engine>>
  BY <1>15 DEF StreamTake, B!Receive, B!histVars, procVars
<1>16. ASSUME NEW s \in StreamSubs, StreamClose(s) PROVE Subscribed'
  BY <1>16, <1>t, <1>m DEF StreamClose, B!Close, B!histVars, procVars, Subscribed
<1>17. ASSUME NEW s \in StreamSubs, StreamSubscribe(s) PROVE Subscribed'
  <2>1. /\ subs' = subs \cup {s} /\ closed' = closed
        /\ filter' = [filter EXCEPT ![s] = Records]
        /\ since' = [since EXCEPT ![s] = Len(log)]
        /\ UNCHANGED <<writer, engine>>
    BY <1>17 DEF StreamSubscribe, B!Subscribe
  <2> QED
    BY <1>t, <1>m, <2>1 DEF Subscribed
<1>3. CASE WriterTake \/ WriterTick \/ WriterCancelled \/ FlushCommits \/ FlushFails
  <2>1. /\ writer \in {"loop", "flush", "lastflush"}
        /\ writer' \in {"loop", "flush", "lastflush", "closing"}
        /\ UNCHANGED <<subs, closed, filter, since, engine>>
    BY <1>3 DEF WriterTake, WriterTick, WriterCancelled, FlushCommits, FlushFails,
       Flushing, AfterFlush, B!Receive, B!histVars, busVars
  <2> QED
    BY <1>t, <1>m, <2>1 DEF Subscribed
<1>4. CASE WriterClose
  BY <1>4, <1>t, <1>m DEF WriterClose, B!Close, B!histVars, Subscribed
<1>5. CASE StartWriter
  <2>1. /\ writer = "none" /\ engine = "none" /\ writer' = "loop" /\ engine' = engine
        /\ subs' = subs \cup {Writer} /\ closed' = closed
        /\ filter' = [filter EXCEPT ![Writer] = Records]
        /\ since' = [since EXCEPT ![Writer] = Len(log)]
        /\ Len(log) = 0
    BY <1>5, <1>t, EmptySeq DEF StartWriter, B!Subscribe, Startup
  <2> QED
    BY <1>t, <1>m, <2>1 DEF Subscribed
<1>6. CASE EngineSubscribe
  <2>1. /\ engine = "loading" /\ engine' = "loop" /\ writer' = writer
        /\ subs' = subs \cup {Engine} /\ closed' = closed
        /\ filter' = [filter EXCEPT ![Engine] = Records]
        /\ since' = [since EXCEPT ![Engine] = Len(log)]
    BY <1>6 DEF EngineSubscribe, B!Subscribe
  <2> QED
    BY <1>t, <1>m, <2>1 DEF Subscribed
<1>7. CASE EngineTake
  BY <1>7, <1>t DEF EngineTake, B!Receive, B!histVars, procVars, Subscribed
<1>8. CASE EngineCancelled
  BY <1>8, <1>t DEF EngineCancelled, busVars, Subscribed
<1>9. CASE EngineClose
  BY <1>9, <1>t, <1>m DEF EngineClose, B!Close, B!histVars, Subscribed
<1>10. CASE SpawnEngine
  BY <1>10, <1>t DEF SpawnEngine, busVars, Subscribed, Startup
<1>11. CASE Serve \/ Signal \/ Drained \/ CancelRoot \/ WaitForWriter \/ CloseStore
  BY <1>11, <1>t DEF Serve, Signal, Drained, CancelRoot, WaitForWriter, CloseStore, busVars, Subscribed
<1>12. CASE UNCHANGED vars
  BY <1>12, <1>t DEF vars, busVars, procVars, Subscribed
<1>13. UNCHANGED <<subs, closed, filter, since, writer, engine>> => Subscribed'
  BY <1>t DEF Subscribed
<1> QED
  BY <1>1, <1>2, <1>3, <1>4, <1>5, <1>6, <1>7, <1>8, <1>9, <1>10, <1>11, <1>12, <1>13,
     <1>14, <1>15, <1>16, <1>17
  DEF Next, MainStep, WriterStep, EngineStep

LEMMA PublishersStep ==
  ASSUME Process, BP!BusInv, [Next]_vars
  PROVE  PublishersRun'
<1>t. /\ pending \in [Publishers -> SUBSET Subscribers]
      /\ started \subseteq Connectors /\ exited \subseteq started /\ active \subseteq Requests
      /\ PublishersRun
  BY BusTyped DEF Process, TypeOK, B!TypeOK
<1> HIDE DEF Process
<1>6. UNCHANGED <<pending, started, exited, active>> => PublishersRun'
  BY <1>t DEF PublishersRun, Running, B!Publishing
<1>1. ASSUME NEW p \in Connectors, ConnectorPublish(p) PROVE PublishersRun'
  BY <1>1, <1>t DEF ConnectorPublish, B!PublishLock, procVars, httpVars, PublishersRun, Running,
     B!Publishing
<1>2. ASSUME NEW p \in Publishers, PublisherDelivers(p) PROVE PublishersRun'
  <2>1. \A q \in Publishers : pending'[q] \subseteq pending[q]
    BY <1>2, <1>t DEF PublisherDelivers, B!Deliver, B!FilterOut, B!Send, B!Drop,
       B!SendOnClosed
  <2> QED
    BY <1>2, <1>t, <2>1 DEF PublisherDelivers, procVars, httpVars, PublishersRun, Running,
       B!Publishing
<1>3. ASSUME NEW p \in Connectors, ConnectorExit(p) \/ StartConnector(p)
      PROVE  PublishersRun'
  BY <1>3, <1>t, Members DEF ConnectorExit, StartConnector, busVars, httpVars, PublishersRun,
     Running, B!Publishing
<1>7. ASSUME NEW h \in Requests, RequestPublish(h) PROVE PublishersRun'
  BY <1>7, <1>t DEF RequestPublish, B!PublishLock, PublishersRun, Running, B!Publishing
<1>8. ASSUME NEW h \in Requests, RequestArrives(h) \/ RequestEnds(h) PROVE PublishersRun'
  BY <1>8, <1>t, Members DEF RequestArrives, RequestEnds, busVars, PublishersRun, Running,
     B!Publishing
<1>9. ASSUME NEW s \in StreamSubs, StreamSubscribe(s) \/ StreamTake(s) \/ StreamClose(s)
      PROVE  UNCHANGED <<pending, started, exited, active>>
  BY <1>9 DEF StreamSubscribe, StreamTake, StreamClose, B!Subscribe, B!Receive, B!Close,
     B!histVars, procVars, httpVars
<1>4. ASSUME WriterStep \/ EngineStep PROVE UNCHANGED <<pending, started, exited, active>>
  BY <1>4 DEF WriterStep, WriterTake, WriterTick, WriterCancelled, FlushCommits, FlushFails,
     WriterClose, EngineStep, EngineSubscribe, EngineTake, EngineCancelled, EngineClose,
     B!Subscribe, B!Receive, B!Close, B!histVars, busVars, procVars, httpVars
<1>5. ASSUME StartWriter \/ SpawnEngine \/ Serve \/ Signal \/ Drained \/ CancelRoot
               \/ WaitForWriter \/ CloseStore \/ UNCHANGED vars
      PROVE  UNCHANGED <<pending, started, exited, active>>
  BY <1>5 DEF StartWriter, SpawnEngine, Serve, Signal, Drained, CancelRoot, WaitForWriter,
     CloseStore, B!Subscribe, vars, busVars, procVars, httpVars
<1> QED
  BY <1>1, <1>2, <1>3, <1>4, <1>5, <1>6, <1>7, <1>8, <1>9 DEF Next, MainStep

LEMMA ProcessKept == Process /\ BP!BusInv /\ [Next]_vars => Process'
<1> SUFFICES ASSUME Process, BP!BusInv, [Next]_vars PROVE Process'
  OBVIOUS
<1>1. BP!BusInv'
  BY BusKept
<1>2. TypeOK'
  BY <1>1, TypeStep
<1> QED
  BY <1>2, PlacesStep, SubscribedStep, PublishersStep DEF Process

LEMMA ProcessInvariant == Spec => [](Process /\ BP!BusInv)
<1>1. Init => Process /\ BP!BusInv
  BY InitProcess, BusKept
<1>2. Process /\ BP!BusInv /\ [Next]_vars => (Process /\ BP!BusInv)'
  BY ProcessKept, BusKept
<1> QED
  BY <1>1, <1>2, PTL DEF Spec

\* Every variable of the server process keeps its type, the bus inside it
\* included, and a batch never outgrows BatchSize (writer.go run, flush).
THEOREM TypeCorrect == Spec => []TypeOK
<1> Process => TypeOK
  BY DEF Process
<1> QED
  BY ProcessInvariant, PTL

\* If no wait of the shutdown sequence times out, no Publish meets a channel
\* that the shutdown has closed, connectors and requests are out of Publish
\* when the root context is cancelled, and they, writer and engine have ended
\* when the store closes (main.go after <-stop), for any number of connectors,
\* requests and streams.  The channel of a stream can be met closed.
THEOREM ShutdownInOrder == Spec => []OrderlyShutdown
<1>1. ASSUME Process, ~timedOut, RootCancelled
      PROVE  exited = Connectors /\ active = {}
  BY <1>1 DEF Process, Places, Cancelling
<1>2. ASSUME Process, ~timedOut, ~storeOpen
      PROVE  writer = "done" /\ engine = "done" /\ RootCancelled
  BY <1>2 DEF Process, Places, Cancelling, RootCancelled
<1>3. ASSUME Process, ~timedOut, RootCancelled, NEW p \in Publishers
      PROVE  ~B!Publishing(p)
  <2>1. started \ exited = {}
    BY <1>1, <1>3 DEF Process, TypeOK
  <2> QED
    BY <1>1, <1>3, <2>1 DEF Process, PublishersRun, Running
<1>4. ASSUME Process, ~timedOut, NEW p \in Publishers
      PROVE  pending[p] \cap closed \subseteq StreamSubs
  <2>1. pending[p] \subseteq Subscribers
    BY <1>4 DEF Process, TypeOK, B!TypeOK
  <2>2. Writer \in closed \/ Engine \in closed => RootCancelled
    BY <1>4 DEF Process, Places, Cancelling, Subscribed
  <2>3. RootCancelled => pending[p] = {}
    BY <1>3, <1>4 DEF B!Publishing
  <2> QED
    BY <2>1, <2>2, <2>3, Members
<1>5. Process => OrderlyShutdown
  BY <1>1, <1>2, <1>3, <1>4 DEF OrderlyShutdown
<1> QED
  BY <1>5, ProcessInvariant, PTL

-----------------------------------------------------------------------------
(***************************************************************************)
(* The batches.  What the writer was handed is a sequence without          *)
(* repetitions; the writer has received a prefix of it (Got), of which     *)
(* the last records are its batch and the others are settled: stored, in   *)
(* order, or failed.                                                       *)
(***************************************************************************)
Got == Len(sent[Writer]) - Len(ch[Writer])
Settled == Got - Len(buf)

Batching ==
  /\ Len(buf) <= Got
  /\ \A i \in 1 .. Len(buf) : buf[i] = sent[Writer][Settled + i]
  /\ \A i \in 1 .. Len(stored) : \E k \in 1 .. Settled : stored[i] = sent[Writer][k]
  /\ \A r \in failed : \E k \in 1 .. Settled : r = sent[Writer][k]
  /\ \A k \in 1 .. Settled : sent[Writer][k] \in ToSet(stored) \cup failed
  /\ ToSet(stored) \cap failed = {}

StoredInOrder ==
  \A i, j \in 1 .. Len(stored) :
    (i < j /\ stored[i].src = stored[j].src) => stored[i].seq < stored[j].seq

Counted ==
  /\ IsFiniteSet(failed)
  /\ Len(stored) + Cardinality(failed) = Settled
  /\ written = Len(stored)

\* What is known of the sequences involved.
LEMMA Lengths ==
  ASSUME Process, BP!BusInv
  PROVE  /\ sent[Writer] \in Seq(Records) /\ Len(sent[Writer]) \in Nat
         /\ ch[Writer] \in Seq(Records) /\ Len(ch[Writer]) \in Nat
         /\ buf \in Seq(Records) /\ Len(buf) \in Nat
         /\ stored \in Seq(Records) /\ Len(stored) \in Nat
         /\ Got \in Nat /\ Got <= Len(sent[Writer])
<1>1. sent[Writer] \in Seq(Records) /\ ch[Writer] \in Seq(Records)
  BY BusTyped, Members DEF B!TypeOK, B!Records, Records
<1>2. buf \in Seq(Records) /\ stored \in Seq(Records)
  BY DEF Process, TypeOK
<1>3. Len(ch[Writer]) <= Len(sent[Writer])
  BY Members DEF BP!BusInv, BP!HistoryInv, BP!Queued
<1>4. /\ Len(sent[Writer]) \in Nat /\ Len(ch[Writer]) \in Nat
      /\ Len(buf) \in Nat /\ Len(stored) \in Nat
  BY <1>1, <1>2, LenProperties
<1>5. \A m, n \in Nat : n <= m => m - n \in Nat /\ m - n <= m
  OBVIOUS
<1>6. Got \in Nat /\ Got <= Len(sent[Writer])
  BY <1>3, <1>4, <1>5 DEF Got
<1> QED
  BY <1>1, <1>2, <1>4, <1>6

LEMMA RecordType ==
  ASSUME NEW r \in Records PROVE r.src \in Publishers /\ r.seq \in Nat
BY IngestAssumption DEF Records

\* No record is handed to the writer twice.
LEMMA SentOnce ==
  ASSUME Process, BP!BusInv, NEW i \in 1 .. Len(sent[Writer]),
         NEW j \in 1 .. Len(sent[Writer]), sent[Writer][i] = sent[Writer][j]
  PROVE  i = j
<1>1. sent[Writer][i] \in Records
  BY Lengths, ElementOfSeq
<1>2. \A a, b \in 1 .. Len(sent[Writer]) :
         (a < b /\ sent[Writer][a].src = sent[Writer][b].src)
           => sent[Writer][a].seq < sent[Writer][b].seq
  BY Members DEF BP!BusInv, BP!OrderInv, BP!InOrderAtMostOnce
<1>3. ~(i < j) /\ ~(j < i)
  BY <1>1, <1>2, RecordType
<1> QED
  BY <1>3, Lengths

\* Steps that only append to what the writer was handed.
LEMMA BatchingFrame ==
  ASSUME Process, BP!BusInv, Batching, StoredInOrder, Counted,
         UNCHANGED <<buf, stored, failed, written>>,
         Got' = Got, \A k \in 1 .. Got : sent'[Writer][k] = sent[Writer][k]
  PROVE  (Batching /\ StoredInOrder /\ Counted)'
<1>t. Got \in Nat /\ Len(buf) \in Nat /\ Len(buf) <= Got
  BY Lengths DEF Batching
<1>1. Settled \in Nat /\ Settled' = Settled /\ Settled <= Got
  BY <1>t DEF Settled
<1>2. \A i \in 1 .. Len(buf) : Settled + i \in 1 .. Got
  BY <1>t, <1>1 DEF Settled
<1>3. \A k \in 1 .. Settled : k \in 1 .. Got
  BY <1>t, <1>1
<1> HIDE DEF Got, Settled
<1>4. \A k \in 1 .. Settled : sent'[Writer][k] = sent[Writer][k]
  BY <1>3
<1>5. \A i \in 1 .. Len(buf) : sent'[Writer][Settled + i] = sent[Writer][Settled + i]
  BY <1>2
<1>6. Batching'
  <2>1. (Len(buf) <= Got)' /\ (ToSet(stored) \cap failed = {})'
    BY <1>t DEF Batching
  <2>2. \A i \in 1 .. Len(buf) : buf[i] = sent'[Writer][Settled + i]
    BY <1>5 DEF Batching
  <2>3. \A i \in 1 .. Len(stored) : \E k \in 1 .. Settled : stored[i] = sent'[Writer][k]
    BY <1>4 DEF Batching
  <2>4. \A r \in failed : \E k \in 1 .. Settled : r = sent'[Writer][k]
    BY <1>4 DEF Batching
  <2>5. \A k \in 1 .. Settled : sent'[Writer][k] \in ToSet(stored) \cup failed
    BY <1>4 DEF Batching
  <2> QED
    BY <1>1, <2>1, <2>2, <2>3, <2>4, <2>5 DEF Batching
<1> QED
  BY <1>1, <1>6 DEF StoredInOrder, Counted

\* Before anything is published the writer has been handed nothing.
LEMMA NothingYet == Process /\ BP!BusInv /\ log = <<>> => Got = 0
<1> SUFFICES ASSUME Process, BP!BusInv, log = <<>> PROVE Got = 0
  OBVIOUS
<1>1. BP!Handed(Writer) = {}
  <2>1. Len(log) = 0
    BY EmptySeq
  <2>2. BP!Logged = {}
    BY <2>1 DEF BP!Logged
  <2> QED
    BY <2>2, Members DEF BP!BusInv, BP!HistoryInv, BP!Genuine
<1>2. Len(sent[Writer]) = 0
  <2>1. \A i \in 1 .. Len(sent[Writer]) : sent[Writer][i] \in BP!Handed(Writer)
    BY DEF BP!Handed
  <2>2. ~(Len(sent[Writer]) >= 1)
    BY <1>1, <2>1, Lengths
  <2> QED
    BY <2>2, Lengths
<1> QED
  BY <1>2, Lengths

LEMMA NothingYetNext == (Process /\ BP!BusInv /\ log = <<>>)' => (Got = 0)'
BY NothingYet, PTL

\* One iteration of Publish's delivery loop.
LEMMA DeliverBatching ==
  ASSUME Process, BP!BusInv, NEW p \in Publishers, PublisherDelivers(p)
  PROVE  Got' = Got /\ \A k \in 1 .. Got : sent'[Writer][k] = sent[Writer][k]
<1>1. PICK s \in Subscribers : B!Deliver(p, s)
  BY DEF PublisherDelivers
<1>2. CASE UNCHANGED <<sent, ch>>
  BY <1>2 DEF Got
<1>3. CASE B!Send(p, s) /\ s = Writer
  <2> DEFINE r == B!Current(p)
  <2>1. /\ sent' = [sent EXCEPT ![Writer] = Append(@, r)]
        /\ ch' = [ch EXCEPT ![Writer] = Append(@, r)]
    BY <1>3 DEF B!Send
  <2>2. /\ sent \in [Subscribers -> Seq(Records)]
        /\ ch \in [Subscribers -> Seq(Records)]
        /\ filter \in [Subscribers -> SUBSET Records]
    BY BusTyped DEF B!TypeOK, B!Records, Records
  <2>3. r \in Records
    BY <1>3, <2>2, Members DEF B!Send
  <2> HIDE DEF r
  <2>4. sent'[Writer] = Append(sent[Writer], r) /\ ch'[Writer] = Append(ch[Writer], r)
    BY <2>1, <2>2, Members
  <2>5. /\ Len(sent'[Writer]) = Len(sent[Writer]) + 1
        /\ Len(ch'[Writer]) = Len(ch[Writer]) + 1
        /\ \A k \in 1 .. Len(sent[Writer]) : sent'[Writer][k] = sent[Writer][k]
    BY <2>3, <2>4, Lengths, AppendProperties
  <2>6. Got' = Got
    <3>1. \A m, n \in Nat : (m + 1) - (n + 1) = m - n
      OBVIOUS
    <3> QED
      BY <2>5, <3>1, Lengths DEF Got
  <2>7. \A k \in 1 .. Got : k \in 1 .. Len(sent[Writer])
    BY Lengths
  <2> QED
    BY <2>5, <2>6, <2>7
<1>4. CASE B!Send(p, s) /\ s # Writer
  <2>1. sent'[Writer] = sent[Writer] /\ ch'[Writer] = ch[Writer]
    BY <1>4, BusTyped, Members DEF B!Send, B!TypeOK
  <2> QED
    BY <2>1 DEF Got
<1> QED
  BY <1>1, <1>2, <1>3, <1>4 DEF B!Deliver, B!FilterOut, B!Drop, B!SendOnClosed, B!histVars

\* case rec := <-sub.C(): the batch grows by the record that leaves the channel.
LEMMA TakeBatching ==
  ASSUME Process, BP!BusInv, Batching, StoredInOrder, Counted, WriterTake
  PROVE  (Batching /\ StoredInOrder /\ Counted)'
<1> DEFINE h == Head(ch[Writer])
<1>1. /\ ch[Writer] # <<>> /\ sent' = sent /\ buf' = Append(buf, h)
      /\ ch'[Writer] = Tail(ch[Writer])
      /\ UNCHANGED <<stored, failed, written>>
  BY BusTyped, Members DEF WriterTake, B!Receive, B!TypeOK, B!histVars
<1>2. /\ h \in Records /\ Len(ch'[Writer]) = Len(ch[Writer]) - 1 /\ h = ch[Writer][1]
      /\ Len(ch[Writer]) >= 1
  BY <1>1, Lengths, HeadTailProperties, EmptySeq
<1>3. h = sent[Writer][Got + 1]
  <2>1. 1 \in 1 .. Len(ch[Writer])
    BY <1>2, Lengths
  <2> QED
    BY <1>2, <2>1, Members DEF BP!BusInv, BP!HistoryInv, BP!Queued, Got
<1> HIDE DEF h
<1>4. /\ Len(buf') = Len(buf) + 1 /\ buf'[Len(buf) + 1] = h
      /\ \A i \in 1 .. Len(buf) : buf'[i] = buf[i]
  BY <1>1, <1>2, Lengths, AppendProperties
<1>5. Got' = Got + 1
  <2>1. \A m, n \in Nat : m - (n - 1) = (m - n) + 1
    OBVIOUS
  <2> QED
    BY <1>1, <1>2, <2>1, Lengths, ZenonT(40) DEF Got
<1>t. Got \in Nat /\ Len(buf) \in Nat /\ Len(buf) <= Got
  BY Lengths DEF Batching
<1> HIDE DEF Got
<1>6. Settled' = Settled /\ Settled + (Len(buf) + 1) = Got + 1
  BY <1>t, <1>4, <1>5 DEF Settled
<1>7. (Len(buf) <= Got)'
  BY <1>t, <1>4, <1>5
<1>8. \A i \in 1 .. Len(buf') : buf'[i] = sent[Writer][Settled + i]
  <2> TAKE i \in 1 .. Len(buf')
  <2>1. i \in 1 .. Len(buf) \/ i = Len(buf) + 1
    BY <1>t, <1>4
  <2>2. CASE i \in 1 .. Len(buf)
    BY <1>4, <2>2 DEF Batching
  <2>3. CASE i = Len(buf) + 1
    BY <1>3, <1>4, <1>6, <2>3
  <2> QED
    BY <2>1, <2>2, <2>3
<1> HIDE DEF Settled
<1>9. Batching'
  BY <1>1, <1>6, <1>7, <1>8 DEF Batching
<1> QED
  BY <1>1, <1>6, <1>9 DEF StoredInOrder, Counted

\* A batch repeats nothing, and nothing in it is settled.
LEMMA BatchApart ==
  ASSUME Process, BP!BusInv, Batching
  PROVE  /\ ToSet(buf) \cap (ToSet(stored) \cup failed) = {}
         /\ \A i, j \in 1 .. Len(buf) : buf[i] = buf[j] => i = j
<1>t. /\ Got \in Nat /\ Len(buf) \in Nat /\ Len(buf) <= Got /\ Settled = Got - Len(buf)
      /\ Len(sent[Writer]) \in Nat /\ Got <= Len(sent[Writer])
      /\ DOMAIN buf = 1 .. Len(buf) /\ DOMAIN stored = 1 .. Len(stored)
  BY Lengths, LenProperties DEF Batching, Settled
<1> HIDE DEF Got, Settled
<1>1. \A k \in 1 .. Settled : k \in 1 .. Len(sent[Writer])
  BY <1>t
<1>2. \A i \in 1 .. Len(buf) : Settled + i \in 1 .. Len(sent[Writer])
  BY <1>t
<1>3. \A i \in 1 .. Len(buf), k \in 1 .. Settled : buf[i] # sent[Writer][k]
  <2> SUFFICES ASSUME NEW i \in 1 .. Len(buf), NEW k \in 1 .. Settled,
                      buf[i] = sent[Writer][k]
               PROVE  FALSE
    OBVIOUS
  <2>1. sent[Writer][Settled + i] = sent[Writer][k]
    BY DEF Batching
  <2>2. Settled + i = k
    BY <1>1, <1>2, <2>1, SentOnce
  <2> QED
    BY <1>t, <2>2
<1>4. \A i, j \in 1 .. Len(buf) : buf[i] = buf[j] => i = j
  <2> SUFFICES ASSUME NEW i \in 1 .. Len(buf), NEW j \in 1 .. Len(buf), buf[i] = buf[j]
               PROVE  i = j
    OBVIOUS
  <2>1. Settled + i \in 1 .. Len(sent[Writer]) /\ Settled + j \in 1 .. Len(sent[Writer])
    BY <1>2
  <2>2. sent[Writer][Settled + i] = sent[Writer][Settled + j]
    BY DEF Batching
  <2>3. Settled + i = Settled + j
    BY <2>1, <2>2, SentOnce
  <2> QED
    BY <1>t, <2>3
<1>5. \A r \in ToSet(buf) : r \notin failed /\ r \notin ToSet(stored)
  <2> TAKE r \in ToSet(buf)
  <2>1. PICK i \in 1 .. Len(buf) : r = buf[i]
    BY <1>t DEF ToSet
  <2>2. r \notin failed
    BY <1>3, <2>1 DEF Batching
  <2>3. ASSUME r \in ToSet(stored) PROVE FALSE
    <3>1. PICK j \in 1 .. Len(stored) : r = stored[j]
      BY <1>t, <2>3 DEF ToSet
    <3> QED
      BY <1>3, <2>1, <3>1 DEF Batching
  <2> QED
    BY <2>2, <2>3
<1> QED
  BY <1>4, <1>5

\* What a flush settles, either way.
LEMMA FlushSettles ==
  ASSUME Process, BP!BusInv, Batching
  PROVE  /\ Got = Settled + Len(buf) /\ Settled \in Nat
         /\ \A k \in 1 .. Settled : k \in 1 .. Got
         /\ \A i \in 1 .. Len(buf) : Settled + i \in 1 .. Got
         /\ \A k \in 1 .. Got : sent[Writer][k] \in ToSet(stored) \cup failed \cup ToSet(buf)
<1>t. /\ Got \in Nat /\ Len(buf) \in Nat /\ Len(buf) <= Got /\ Settled = Got - Len(buf)
      /\ DOMAIN buf = 1 .. Len(buf)
  BY Lengths, LenProperties DEF Batching, Settled
<1> HIDE DEF Got, Settled
<1>1. Got = Settled + Len(buf) /\ Settled \in Nat
  BY <1>t
<1>2. /\ \A k \in 1 .. Settled : k \in 1 .. Got
      /\ \A i \in 1 .. Len(buf) : Settled + i \in 1 .. Got
  BY <1>t
<1>3. ASSUME NEW k \in 1 .. Got
      PROVE  sent[Writer][k] \in ToSet(stored) \cup failed \cup ToSet(buf)
  <2>1. CASE k \in 1 .. Settled
    BY <2>1 DEF Batching
  <2>2. CASE k \notin 1 .. Settled
    <3>1. k - Settled \in 1 .. Len(buf) /\ Settled + (k - Settled) = k
      BY <1>t, <2>2
    <3>2. buf[k - Settled] = sent[Writer][k]
      BY <3>1 DEF Batching
    <3> QED
      BY <1>t, <3>1, <3>2 DEF ToSet
  <2> QED
    BY <2>1, <2>2
<1> QED
  BY <1>1, <1>2, <1>3

LEMMA ToSetConcat ==
  ASSUME NEW S, NEW s \in Seq(S), NEW t \in Seq(S)
  PROVE  ToSet(s \o t) = ToSet(s) \cup ToSet(t)
<1>t. /\ Len(s) \in Nat /\ Len(t) \in Nat /\ DOMAIN s = 1 .. Len(s) /\ DOMAIN t = 1 .. Len(t)
      /\ s \o t \in Seq(S) /\ Len(s \o t) = Len(s) + Len(t)
      /\ \A i \in 1 .. Len(s) + Len(t) :
           (s \o t)[i] = IF i <= Len(s) THEN s[i] ELSE t[i - Len(s)]
  BY LenProperties, ConcatProperties
<1>d. DOMAIN (s \o t) = 1 .. Len(s) + Len(t)
  BY <1>t, LenProperties
<1>1. ASSUME NEW i \in 1 .. Len(s) + Len(t)
      PROVE  (s \o t)[i] \in ToSet(s) \cup ToSet(t)
  <2>1. CASE i <= Len(s)
    BY <1>t, <2>1 DEF ToSet
  <2>2. CASE ~(i <= Len(s))
    <3>1. i - Len(s) \in 1 .. Len(t)
      BY <1>t, <2>2
    <3> QED
      BY <1>t, <2>2, <3>1 DEF ToSet
  <2> QED
    BY <2>1, <2>2
<1>2. ASSUME NEW i \in 1 .. Len(s) PROVE s[i] \in ToSet(s \o t)
  <2>1. i \in 1 .. Len(s) + Len(t) /\ (s \o t)[i] = s[i]
    BY <1>t
  <2> QED
    BY <1>d, <2>1 DEF ToSet
<1>3. ASSUME NEW i \in 1 .. Len(t) PROVE t[i] \in ToSet(s \o t)
  <2>1. Len(s) + i \in 1 .. Len(s) + Len(t) /\ (s \o t)[Len(s) + i] = t[i]
    BY <1>t
  <2> QED
    BY <1>d, <2>1 DEF ToSet
<1> QED
  BY <1>t, <1>d, <1>1, <1>2, <1>3 DEF ToSet

\* A sequence without repetitions has as many elements as positions.
LEMMA InjectiveCount ==
  ASSUME NEW S, NEW s \in Seq(S), \A i, j \in 1 .. Len(s) : s[i] = s[j] => i = j
  PROVE  IsFiniteSet(ToSet(s)) /\ Cardinality(ToSet(s)) = Len(s)
<1>1. Len(s) \in Nat /\ DOMAIN s = 1 .. Len(s) /\ s \in [1 .. Len(s) -> S]
  BY LenProperties
<1>2. s \in [1 .. Len(s) -> ToSet(s)]
  BY <1>1 DEF ToSet
<1>3. s \in Bijection(1 .. Len(s), ToSet(s))
  BY <1>1, <1>2 DEF Bijection, Injection, Surjection, IsInjective, ToSet
<1>4. IsFiniteSet(1 .. Len(s)) /\ Cardinality(1 .. Len(s)) = Len(s)
  <2>1. 1 \in Int /\ Len(s) \in Int
    BY <1>1
  <2>2. IsFiniteSet(1 .. Len(s))
        /\ Cardinality(1 .. Len(s)) = IF 1 > Len(s) THEN 0 ELSE Len(s) - 1 + 1
    BY <2>1, FS_Interval
  <2> QED
    BY <1>1, <2>2
<1>5. ExistsBijection(1 .. Len(s), ToSet(s))
  BY <1>3 DEF ExistsBijection
<1> QED
  BY <1>4, <1>5, FS_Bijection

\* The write commits: the batch joins the table, behind what is stored.
LEMMA CommitBatching ==
  ASSUME Process, BP!BusInv, Batching, StoredInOrder, Counted, FlushCommits
  PROVE  (Batching /\ StoredInOrder /\ Counted)'
<1>1. /\ stored' = stored \o buf /\ buf' = <<>> /\ written' = written + Len(buf)
      /\ UNCHANGED <<failed, sent, ch>>
  BY DEF FlushCommits, busVars
<1>2. /\ stored \o buf \in Seq(Records) /\ Len(stored') = Len(stored) + Len(buf)
      /\ \A i \in 1 .. Len(stored') :
           stored'[i] = IF i <= Len(stored) THEN stored[i] ELSE buf[i - Len(stored)]
  BY <1>1, Lengths, ConcatProperties
<1>3. /\ Len(buf) \in Nat /\ Len(stored) \in Nat /\ Len(buf') = 0 /\ Got' = Got
      /\ Got \in Nat
  BY <1>1, Lengths, EmptySeq DEF Got
<1>4. ToSet(stored') = ToSet(stored) \cup ToSet(buf)
  BY <1>1, Lengths, ToSetConcat
<1>5. Settled' = Got
  BY <1>3 DEF Settled
<1>6. /\ Got = Settled + Len(buf) /\ Settled \in Nat
      /\ \A k \in 1 .. Settled : k \in 1 .. Got
      /\ \A i \in 1 .. Len(buf) : Settled + i \in 1 .. Got
      /\ \A k \in 1 .. Got : sent[Writer][k] \in ToSet(stored) \cup failed \cup ToSet(buf)
  BY FlushSettles
<1> HIDE DEF Got, Settled
<1>7. Batching'
  <2>1. (Len(buf) <= Got)' /\ \A i \in 1 .. Len(buf') : FALSE
    BY <1>3
  <2>2. ASSUME NEW i \in 1 .. Len(stored')
        PROVE  \E k \in 1 .. Got : stored'[i] = sent[Writer][k]
    <3>1. CASE i <= Len(stored)
      <4>1. i \in 1 .. Len(stored) /\ stored'[i] = stored[i]
        BY <1>2, <1>3, <3>1
      <4>2. PICK k \in 1 .. Settled : stored[i] = sent[Writer][k]
        BY <4>1 DEF Batching
      <4> QED
        BY <1>6, <4>1, <4>2
    <3>2. CASE ~(i <= Len(stored))
      <4>1. i - Len(stored) \in 1 .. Len(buf) /\ stored'[i] = buf[i - Len(stored)]
        BY <1>2, <1>3, <3>2
      <4> QED
        BY <1>6, <4>1, SMTT(30) DEF Batching
    <3> QED
      BY <3>1, <3>2
  <2>3. \A r \in failed : \E k \in 1 .. Got : r = sent[Writer][k]
    BY <1>6 DEF Batching
  <2>4. \A k \in 1 .. Got : sent[Writer][k] \in ToSet(stored') \cup failed
    BY <1>4, <1>6
  <2>5. ToSet(stored') \cap failed = {}
    BY <1>4, BatchApart DEF Batching
  <2> QED
    BY <1>1, <1>3, <1>5, <2>1, <2>2, <2>3, <2>4, <2>5 DEF Batching
<1>8. StoredInOrder'
  <2> SUFFICES ASSUME NEW i \in 1 .. Len(stored'), NEW j \in 1 .. Len(stored'), i < j,
                      stored'[i].src = stored'[j].src
               PROVE  stored'[i].seq < stored'[j].seq
    BY DEF StoredInOrder
  <2>1. CASE j <= Len(stored)
    <3>1. i \in 1 .. Len(stored) /\ j \in 1 .. Len(stored)
      BY <1>2, <1>3, <2>1
    <3> QED
      BY <1>2, <1>3, <3>1 DEF StoredInOrder
  <2>2. CASE ~(j <= Len(stored))
    <3>1. j - Len(stored) \in 1 .. Len(buf) /\ stored'[j] = buf[j - Len(stored)]
      BY <1>2, <1>3, <2>2
    <3> DEFINE b == Settled + (j - Len(stored))
    <3>2. b \in 1 .. Got /\ stored'[j] = sent[Writer][b] /\ b > Settled
      BY <1>6, <3>1 DEF Batching
    <3>3. PICK a \in 1 .. Got : stored'[i] = sent[Writer][a] /\ a < b
      <4>1. CASE i <= Len(stored)
        <5>1. i \in 1 .. Len(stored) /\ stored'[i] = stored[i]
          BY <1>2, <1>3, <4>1
        <5>2. PICK k \in 1 .. Settled : stored[i] = sent[Writer][k]
          BY <5>1 DEF Batching
        <5>3. k < b
          BY <1>6, <3>2
        <5> QED
          BY <1>6, <5>1, <5>2, <5>3
      <4>2. CASE ~(i <= Len(stored))
        <5>1. i - Len(stored) \in 1 .. Len(buf) /\ stored'[i] = buf[i - Len(stored)]
          BY <1>2, <1>3, <4>2
        <5>2. Settled + (i - Len(stored)) < b /\ Settled + (i - Len(stored)) \in 1 .. Got
          BY <1>3, <1>6, <3>1, <5>1
        <5> QED
          BY <5>1, <5>2 DEF Batching
      <4> QED
        BY <4>1, <4>2
    <3> HIDE DEF b
    <3>4. a \in 1 .. Len(sent[Writer]) /\ b \in 1 .. Len(sent[Writer])
      BY <3>2, Lengths
    <3> QED
      BY <3>2, <3>3, <3>4, Members DEF BP!BusInv, BP!OrderInv, BP!InOrderAtMostOnce
  <2> QED
    BY <2>1, <2>2
<1>9. Counted'
  <2>1. Cardinality(failed) \in Nat
    BY FS_CardinalityType DEF Counted
  <2>2. IsFiniteSet(failed) /\ Len(stored) + Cardinality(failed) = Settled /\ written = Len(stored)
    BY DEF Counted
  <2>3. \A a, b, c, d \in Nat : a + c = d => (a + b) + c = d + b
    OBVIOUS
  <2>4. Len(stored') + Cardinality(failed') = Settled'
    <3>1. /\ Len(stored') = Len(stored) + Len(buf)
          /\ Cardinality(failed') = Cardinality(failed)
          /\ Settled' = Settled + Len(buf)
      BY <1>1, <1>2, <1>5, <1>6
    <3>2. /\ Len(stored) \in Nat /\ Len(buf) \in Nat /\ Cardinality(failed) \in Nat
          /\ Settled \in Nat /\ Len(stored) + Cardinality(failed) = Settled
      BY <1>3, <1>6, <2>1, <2>2
    <3> QED
      BY <3>1, <3>2, <2>3
  <2>5. written' = Len(stored') /\ IsFiniteSet(failed')
    BY <1>1, <1>2, <2>2
  <2> QED
    BY <2>4, <2>5 DEF Counted
<1> QED
  BY <1>7, <1>8, <1>9

\* The write fails and rolls back: the batch is dropped whole.
LEMMA FailBatching ==
  ASSUME Process, BP!BusInv, Batching, StoredInOrder, Counted, FlushFails
  PROVE  (Batching /\ StoredInOrder /\ Counted)'
<1>1. /\ failed' = failed \cup ToSet(buf) /\ buf' = <<>>
      /\ UNCHANGED <<stored, written, sent, ch>>
  BY DEF FlushFails, busVars
<1>3. Len(buf) \in Nat /\ Len(buf') = 0 /\ Got' = Got /\ Got \in Nat /\ Len(stored) \in Nat
  BY <1>1, Lengths, EmptySeq DEF Got
<1>5. Settled' = Got
  BY <1>3 DEF Settled
<1>6. /\ Got = Settled + Len(buf) /\ Settled \in Nat
      /\ \A k \in 1 .. Settled : k \in 1 .. Got
      /\ \A i \in 1 .. Len(buf) : Settled + i \in 1 .. Got
      /\ \A k \in 1 .. Got : sent[Writer][k] \in ToSet(stored) \cup failed \cup ToSet(buf)
  BY FlushSettles
<1> HIDE DEF Got, Settled
<1>7. Batching'
  <2>1. (Len(buf) <= Got)' /\ \A i \in 1 .. Len(buf') : FALSE
    BY <1>3
  <2>2. \A i \in 1 .. Len(stored) : \E k \in 1 .. Got : stored[i] = sent[Writer][k]
    BY <1>6 DEF Batching
  <2>3. ASSUME NEW r \in failed' PROVE \E k \in 1 .. Got : r = sent[Writer][k]
    <3>1. CASE r \in failed
      BY <1>6, <3>1 DEF Batching
    <3>2. CASE r \in ToSet(buf)
      <4>1. PICK i \in 1 .. Len(buf) : r = buf[i]
        BY <3>2, Lengths, LenProperties DEF ToSet
      <4> QED
        BY <1>6, <4>1 DEF Batching
    <3> QED
      BY <1>1, <3>1, <3>2
  <2>4. \A k \in 1 .. Got : sent[Writer][k] \in ToSet(stored) \cup failed'
    BY <1>1, <1>6
  <2>5. ToSet(stored) \cap failed' = {}
    BY <1>1, BatchApart DEF Batching
  <2> QED
    BY <1>1, <1>3, <1>5, <2>1, <2>2, <2>3, <2>4, <2>5 DEF Batching
<1>8. StoredInOrder'
  BY <1>1 DEF StoredInOrder
<1>9. Counted'
  <2>1. IsFiniteSet(ToSet(buf)) /\ Cardinality(ToSet(buf)) = Len(buf)
    BY Lengths, BatchApart, InjectiveCount
  <2>2. failed \cap ToSet(buf) = {}
    BY BatchApart
  <2>f. IsFiniteSet(failed)
    BY DEF Counted
  <2>u. /\ IsFiniteSet(failed \cup ToSet(buf))
        /\ Cardinality(failed \cup ToSet(buf))
             = Cardinality(failed) + Cardinality(ToSet(buf))
                 - Cardinality(failed \cap ToSet(buf))
    BY <2>f, <2>1, FS_Union
  <2>3. /\ IsFiniteSet(failed')
        /\ Cardinality(failed')
             = Cardinality(failed) + Cardinality(ToSet(buf)) - Cardinality({})
    BY <1>1, <2>u, <2>2
  <2>4. Cardinality(failed) \in Nat /\ Cardinality({}) = 0
    BY FS_CardinalityType, FS_EmptySet DEF Counted
  <2>5. Cardinality(failed') = Cardinality(failed) + Len(buf)
    BY <1>3, <2>1, <2>3, <2>4
  <2> QED
    BY <1>1, <1>3, <1>5, <1>6, <2>3, <2>4, <2>5 DEF Counted
<1> QED
  BY <1>7, <1>8, <1>9

LEMMA InitBatching == Init => Batching /\ StoredInOrder /\ Counted
<1> SUFFICES ASSUME Init PROVE Batching /\ StoredInOrder /\ Counted
  OBVIOUS
<1>1. /\ buf = <<>> /\ stored = <<>> /\ failed = {} /\ written = 0
      /\ sent[Writer] = <<>> /\ ch[Writer] = <<>>
  BY Members DEF Init, B!Init
<1>2. Len(buf) = 0 /\ Len(stored) = 0 /\ Len(sent[Writer]) = 0 /\ Len(ch[Writer]) = 0
  BY <1>1, EmptySeq
<1>3. Settled = 0 /\ Got = 0
  BY <1>2 DEF Settled, Got
<1> HIDE DEF Settled, Got
<1>4. Batching
  BY <1>1, <1>2, <1>3 DEF Batching
<1>5. StoredInOrder
  BY <1>2 DEF StoredInOrder
<1>6. Counted
  BY <1>1, <1>2, <1>3, FS_EmptySet DEF Counted
<1> QED
  BY <1>4, <1>5, <1>6

\* What engine and streams do to their channels leaves the writer's alone.
LEMMA OthersApart ==
  ASSUME Process, BP!BusInv, NEW s \in StreamSubs \cup {Engine},
         \/ EngineSubscribe \/ EngineTake
         \/ s \in StreamSubs /\ (StreamSubscribe(s) \/ StreamTake(s) \/ StreamClose(s))
  PROVE  /\ sent'[Writer] = sent[Writer] /\ ch'[Writer] = ch[Writer] /\ Got' = Got
         /\ UNCHANGED <<log, stored, buf, failed, written, dropped, panicked, pending, count>>
<1>1. sent \in [Subscribers -> Seq(Records)] /\ ch \in [Subscribers -> Seq(Records)]
  BY BusTyped DEF B!TypeOK, B!Records, Records
<1>2. sent'[Writer] = sent[Writer] /\ ch'[Writer] = ch[Writer]
  BY <1>1, Members DEF EngineSubscribe, EngineTake, StreamSubscribe, StreamTake, StreamClose,
     B!Subscribe, B!Receive, B!Close, B!histVars
<1>3. UNCHANGED <<log, stored, buf, failed, written, dropped, panicked, pending, count>>
  BY DEF EngineSubscribe, EngineTake, StreamSubscribe, StreamTake, StreamClose,
     B!Subscribe, B!Receive, B!Close, B!histVars, procVars
<1> QED
  BY <1>2, <1>3 DEF Got


LEMMA BatchingStep ==
  ASSUME Process, Process', BP!BusInv, BP!BusInv', Batching, StoredInOrder, Counted, [Next]_vars
  PROVE  (Batching /\ StoredInOrder /\ Counted)'
<1> DEFINE Frame == /\ UNCHANGED <<buf, stored, failed, written>>
                    /\ Got' = Got
                    /\ \A k \in 1 .. Got : sent'[Writer][k] = sent[Writer][k]
<1>f. Frame => (Batching /\ StoredInOrder /\ Counted)'
  BY BatchingFrame
<1>s. UNCHANGED <<buf, stored, failed, written, sent, ch>> => Frame
  BY DEF Got
<1>1. ASSUME NEW p \in Publishers, PublisherDelivers(p) PROVE Frame
  BY <1>1, DeliverBatching DEF PublisherDelivers, procVars
<1>2. ASSUME NEW p \in Connectors,
             ConnectorPublish(p) \/ ConnectorExit(p) \/ StartConnector(p)
      PROVE  UNCHANGED <<buf, stored, failed, written, sent, ch>>
  BY <1>2 DEF ConnectorPublish, B!PublishLock, ConnectorExit, StartConnector, busVars,
     procVars
<1>7. ASSUME NEW h \in Requests, RequestArrives(h) \/ RequestPublish(h) \/ RequestEnds(h)
      PROVE  UNCHANGED <<buf, stored, failed, written, sent, ch>>
  BY <1>7 DEF RequestArrives, RequestPublish, RequestEnds, B!PublishLock, busVars
<1>8. ASSUME NEW s \in StreamSubs, StreamSubscribe(s) \/ StreamTake(s) \/ StreamClose(s)
      PROVE  Frame
  BY <1>8, OthersApart
<1>3. CASE StartWriter
  <2>1. log = <<>> /\ log' = <<>>
    BY <1>3 DEF StartWriter, B!Subscribe, Process, Places, Startup
  <2>2. Got = 0 /\ Got' = 0
    BY <2>1, NothingYet, NothingYetNext
  <2>3. \A k \in 1 .. Got : FALSE
    BY <2>2
  <2> HIDE DEF Got
  <2>4. Frame
    BY <1>3, <2>2, <2>3 DEF StartWriter
  <2> QED
    BY <1>f, <2>4
<1>4. ASSUME EngineSubscribe \/ EngineTake PROVE Frame
  BY <1>4, OthersApart
<1>5. ASSUME WriterTick \/ WriterCancelled \/ WriterClose \/ EngineCancelled \/ EngineClose
      PROVE  UNCHANGED <<buf, stored, failed, written, sent, ch>>
  BY <1>5 DEF WriterTick, WriterCancelled, WriterClose, EngineCancelled, EngineClose,
     B!Close, B!histVars, busVars
<1>6. ASSUME SpawnEngine \/ Serve \/ Signal \/ Drained \/ CancelRoot \/ WaitForWriter
               \/ CloseStore \/ UNCHANGED vars
      PROVE  UNCHANGED <<buf, stored, failed, written, sent, ch>>
  BY <1>6 DEF SpawnEngine, Serve, Signal, Drained, CancelRoot, WaitForWriter, CloseStore, vars,
     busVars, procVars
<1> HIDE DEF Frame
<1> QED
  BY <1>f, <1>s, <1>1, <1>2, <1>3, <1>4, <1>5, <1>6, <1>7, <1>8, TakeBatching, CommitBatching,
     FailBatching
  DEF Next, MainStep, WriterStep, EngineStep

BatchInv == Process /\ BP!BusInv /\ Batching /\ StoredInOrder /\ Counted

LEMMA InitBatchInv == Init => BatchInv
BY InitProcess, BusKept, InitBatching DEF BatchInv

LEMMA BatchInvStep == BatchInv /\ [Next]_vars => BatchInv'
BY ProcessKept, BusKept, BatchingStep DEF BatchInv

LEMMA BatchInvariant == Spec => []BatchInv
BY InitBatchInv, BatchInvStep, PTL DEF Spec

\* Whatever the writer has received is stored, in its batch or in a batch whose
\* Write failed, in exactly one of them and once, and the counter Written() is
\* the size of the table (writer.go flush), for every batch and buffer size.
THEOREM BatchesAddUp == Spec => []BatchesPartition
<1>1. ASSUME BatchInv PROVE BatchesPartition
  <2>t. /\ Process /\ BP!BusInv /\ Batching /\ Counted
        /\ Got \in Nat /\ Got <= Len(sent[Writer]) /\ Len(sent[Writer]) \in Nat
        /\ sent[Writer] \in Seq(Records) /\ DOMAIN buf = 1 .. Len(buf)
        /\ DOMAIN stored = 1 .. Len(stored)
        /\ Len(buf) \in Nat /\ Len(stored) \in Nat /\ Cardinality(failed) \in Nat
    BY <1>1, Lengths, LenProperties, FS_CardinalityType DEF BatchInv, Counted
  <2>1. \A k \in 1 .. Got : sent[Writer][k] \in Records
    BY <2>t, ElementOfSeq
  <2>2. /\ Taken \in Seq(Records) /\ Len(Taken) = Got
        /\ \A k \in 1 .. Got : Taken[k] = sent[Writer][k]
    <3>1. 1 \in Int /\ Got \in Int /\ Taken = SubSeq(sent[Writer], 1, Got)
      BY <2>t DEF Taken, Got
    <3>2. /\ Taken \in Seq(Records) /\ Len(Taken) = IF 1 <= Got THEN Got - 1 + 1 ELSE 0
          /\ \A k \in 1 .. Got - 1 + 1 : Taken[k] = sent[Writer][1 + k - 1]
      BY <2>1, <3>1, SubSeqProperties
    <3>3. Got - 1 + 1 = Got /\ \A k \in 1 .. Got : 1 + k - 1 = k
      BY <2>t
    <3> QED
      BY <2>t, <3>2, <3>3
  <2>3. DOMAIN Taken = 1 .. Got
    BY <2>2, LenProperties
  <2>4. ToSet(Taken) = {sent[Writer][k] : k \in 1 .. Got}
    BY <2>2, <2>3 DEF ToSet
  <2>5. /\ Got = Settled + Len(buf) /\ Settled \in Nat
        /\ \A k \in 1 .. Settled : k \in 1 .. Got
        /\ \A i \in 1 .. Len(buf) : Settled + i \in 1 .. Got
        /\ \A k \in 1 .. Got : sent[Writer][k] \in ToSet(stored) \cup failed \cup ToSet(buf)
    BY <2>t, FlushSettles
  <2> HIDE DEF Got, Settled
  <2>6. ToSet(stored) \cup failed \cup ToSet(buf) \subseteq ToSet(Taken)
    <3>1. \A i \in 1 .. Len(buf) : buf[i] \in ToSet(Taken)
      BY <2>t, <2>4, <2>5 DEF Batching
    <3>2. \A i \in 1 .. Len(stored) : stored[i] \in ToSet(Taken)
      BY <2>t, <2>4, <2>5 DEF Batching
    <3>3. failed \subseteq ToSet(Taken)
      BY <2>t, <2>4, <2>5 DEF Batching
    <3> QED
      BY <2>t, <3>1, <3>2, <3>3 DEF ToSet
  <2>7. Len(stored) + Len(buf) + Cardinality(failed) = Len(Taken)
    <3>1. \A a, b, c, d \in Nat : a + c = d => (a + b) + c = d + b
      OBVIOUS
    <3>2. Len(stored) + Cardinality(failed) = Settled
      BY <2>t DEF Counted
    <3> QED
      BY <2>t, <2>2, <2>5, <3>1, <3>2, SMTT(30)
  <2>8. ToSet(Taken) \subseteq ToSet(stored) \cup failed \cup ToSet(buf)
    BY <2>4, <2>5
  <2>9. ToSet(Taken) = ToSet(stored) \cup ToSet(buf) \cup failed
    BY <2>6, <2>8
  <2>10. written = Len(stored)
    BY <2>t DEF Counted
  <2> QED
    BY <2>7, <2>9, <2>10, Zenon DEF BatchesPartition
<1> QED
  BY <1>1, BatchInvariant, PTL

-----------------------------------------------------------------------------
(***************************************************************************)
(* Losses.  While the writer is subscribed the bus accounts for every      *)
(* record, and what it has handed over the batches account for.  In an     *)
(* orderly shutdown the account stays as it is when the writer closes:     *)
(* nobody publishes any more.                                              *)
(***************************************************************************)
Explained(r) ==
  \/ r \in ToSet(stored) \cup ToSet(buf) \cup failed
  \/ r \in ToSet(ch[Writer]) \cup dropped[Writer] \cup panicked
  \/ B!InFlight(r, Writer)

AllExplained == \A i \in 1 .. Len(log) : Explained(log[i])

\* What was put into the channel is still in it, or was received.
LEMMA HandedExplained ==
  ASSUME BatchInv, NEW k \in 1 .. Len(sent[Writer])
  PROVE  sent[Writer][k] \in ToSet(stored) \cup ToSet(buf) \cup failed \cup ToSet(ch[Writer])
<1>t. /\ Process /\ BP!BusInv /\ Batching /\ Got = Len(sent[Writer]) - Len(ch[Writer])
      /\ Got \in Nat /\ Got <= Len(sent[Writer]) /\ Len(sent[Writer]) \in Nat
      /\ Len(ch[Writer]) \in Nat /\ DOMAIN ch[Writer] = 1 .. Len(ch[Writer])
  BY Lengths, LenProperties DEF BatchInv, Got
<1> HIDE DEF Got
<1>1. CASE k <= Got
  <2>0. \A m, n \in Nat : \A j \in 1 .. m : j <= n => j \in 1 .. n
    OBVIOUS
  <2>l. Got \in Nat /\ Len(sent[Writer]) \in Nat
    BY <1>t
  <2>1. k \in 1 .. Got
    BY <1>1, <2>0, <2>l, Zenon
  <2>2. \A j \in 1 .. Got : sent[Writer][j] \in ToSet(stored) \cup failed \cup ToSet(buf)
    BY <1>t, FlushSettles
  <2> QED
    BY <2>1, <2>2
<1>2. CASE ~(k <= Got)
  <2>0. \A m, n, j \in Nat : (j <= m /\ ~(j <= m - n) /\ m - n <= m)
          => j - (m - n) \in 1 .. n /\ m - n + (j - (m - n)) = j
    OBVIOUS
  <2>1. k - Got \in 1 .. Len(ch[Writer]) /\ Len(sent[Writer]) - Len(ch[Writer]) + (k - Got) = k
    <3>1. k \in Nat /\ k <= Len(sent[Writer])
      BY <1>t
    <3>2. ~(k <= Len(sent[Writer]) - Len(ch[Writer]))
          /\ Len(sent[Writer]) - Len(ch[Writer]) <= Len(sent[Writer])
      BY <1>t, <1>2
    <3>3. k - (Len(sent[Writer]) - Len(ch[Writer])) \in 1 .. Len(ch[Writer])
          /\ Len(sent[Writer]) - Len(ch[Writer])
                + (k - (Len(sent[Writer]) - Len(ch[Writer]))) = k
      BY <1>t, <2>0, <3>1, <3>2, Zenon
    <3> QED
      BY <1>t, <3>3, Zenon
  <2>2. ch[Writer][k - Got] = sent[Writer][k]
    BY <1>t, <2>1, Members DEF BP!BusInv, BP!HistoryInv, BP!Queued
  <2> QED
    BY <1>t, <2>1, <2>2 DEF ToSet
<1> QED
  BY <1>1, <1>2

LEMMA SubscribedExplained ==
  ASSUME BatchInv, Writer \in subs
  PROVE  AllExplained
<1> SUFFICES ASSUME NEW i \in 1 .. Len(log) PROVE Explained(log[i])
  BY DEF AllExplained
<1>1. Process /\ BP!BusInv /\ Subscribed
  BY DEF BatchInv, Process
<1>2. filter[Writer] = Records /\ since[Writer] = 0
  BY <1>1 DEF Subscribed
<1>3. log[i] \in Records
  BY <1>1, BusTyped, ElementOfSeq DEF B!TypeOK, B!Records, Records
<1>4. Len(log) \in Nat
  BY <1>1, BusTyped, LenProperties DEF B!TypeOK
<1>5. i \in since[Writer] + 1 .. Len(log)
  BY <1>2, <1>4
<1>6. BP!Accounted(log[i], Writer)
  BY <1>1, <1>2, <1>3, <1>5 DEF BP!BusInv, BP!AccountInv, BP!NoSilentLoss
<1>7. CASE log[i] \in BP!Handed(Writer)
  BY <1>7, HandedExplained DEF BP!Handed, Explained
<1>8. BP!InFlight(log[i], Writer) => B!InFlight(log[i], Writer)
  BY DEF BP!InFlight, B!InFlight, BP!Current, B!Current
<1> QED
  BY <1>6, <1>7, <1>8 DEF BP!Accounted, Explained

LEMMA SubscribedExplainedNext == BatchInv' /\ (Writer \in subs)' => AllExplained'
<1>1. BatchInv /\ Writer \in subs => AllExplained
  BY SubscribedExplained
<1> QED
  BY <1>1, PTL

\* The end of the writer and what follows it.
LEMMA DoneExplained ==
  ASSUME BatchInv, EveryLossHasACause, [Next]_vars, ~timedOut',
         writer' = "done"
  PROVE  AllExplained'
<1>t. Process /\ BP!BusInv /\ Subscribed /\ Cancelling /\ PublishersRun
      /\ started \subseteq Connectors
  BY DEF BatchInv, Process, Places, TypeOK
<1>1. ~timedOut
  <2>1. ASSUME timedOut, Drained \/ CancelRoot \/ WaitForWriter \/ CloseStore PROVE timedOut'
    BY <2>1, Zenon DEF Drained, CancelRoot, WaitForWriter, CloseStore
  <2>2. ASSUME ~(Drained \/ CancelRoot \/ WaitForWriter \/ CloseStore)
        PROVE  timedOut' = timedOut
    BY <2>2, Members DEF Next, MainStep, StartWriter, SpawnEngine, Serve, Signal,
       StartConnector, WriterStep, WriterTake, WriterTick, WriterCancelled, FlushCommits,
       FlushFails, WriterClose, EngineStep, EngineSubscribe, EngineTake, EngineCancelled,
       EngineClose, ConnectorPublish, PublisherDelivers, ConnectorExit, RequestArrives,
       RequestPublish, RequestEnds, StreamSubscribe, StreamTake, StreamClose, vars, procVars
  <2> QED
    BY <2>1, <2>2
<1>2. AllExplained
  BY <1>1 DEF EveryLossHasACause, AllExplained, Explained
<1>3. ASSUME UNCHANGED <<log, stored, buf, failed, dropped, panicked, pending, count>>,
             ch'[Writer] = ch[Writer]
      PROVE  AllExplained'
  BY <1>2, <1>3 DEF AllExplained, Explained, B!InFlight, B!Current
<1>4. CASE WriterClose
  <2>1. UNCHANGED <<log, stored, buf, failed, dropped, panicked, pending, count, ch>>
    BY <1>4 DEF WriterClose, B!Close, B!histVars
  <2> QED
    BY <1>3, <2>1
<1>5. CASE ~WriterClose
  <2>1. writer = "done"
    BY <1>5 DEF Next, MainStep, StartWriter, SpawnEngine, Serve, Signal, Drained, CancelRoot,
       WaitForWriter, CloseStore, StartConnector, WriterStep, WriterTake, WriterTick,
       WriterCancelled, FlushCommits, FlushFails, AfterFlush, EngineStep, EngineSubscribe,
       EngineTake, EngineCancelled, EngineClose, ConnectorPublish, PublisherDelivers,
       ConnectorExit, RequestArrives, RequestPublish, RequestEnds, StreamSubscribe,
       StreamTake, StreamClose, vars, procVars
  <2>2. exited = Connectors /\ active = {}
    BY <1>t, <1>1, <2>1 DEF Cancelling
  <2>3. started \ exited = {} /\ \A p \in Publishers : pending[p] = {}
    BY <1>t, <2>2 DEF PublishersRun, Running, B!Publishing
  <2>4. /\ \A p \in Connectors : ~ConnectorPublish(p) /\ ~ConnectorExit(p)
        /\ \A p \in Publishers : ~PublisherDelivers(p)
        /\ \A h \in Requests : ~RequestPublish(h) /\ ~RequestEnds(h)
    BY <2>2, <2>3 DEF ConnectorPublish, PublisherDelivers, ConnectorExit, RequestPublish,
       RequestEnds, B!Deliver, B!FilterOut, B!Send, B!Drop, B!SendOnClosed
  <2>5. ~WriterStep /\ ~StartWriter
    <3>1. ~StartWriter
      BY <1>t, <2>1 DEF StartWriter, B!Subscribe, Subscribed
    <3>2. ~WriterStep
      BY <1>5, <2>1 DEF WriterStep, WriterTake, WriterTick, WriterCancelled, FlushCommits,
         FlushFails, Flushing
    <3> QED
      BY <3>1, <3>2
  <2>6. ASSUME EngineSubscribe \/ EngineTake PROVE AllExplained'
    BY <1>t, <1>3, <2>6, OthersApart
  <2>9. ASSUME NEW s \in StreamSubs, StreamSubscribe(s) \/ StreamTake(s) \/ StreamClose(s)
        PROVE  AllExplained'
    BY <1>t, <1>3, <2>9, OthersApart
  <2>7. ASSUME EngineCancelled \/ EngineClose \/ SpawnEngine \/ Serve \/ Signal \/ Drained
                 \/ CancelRoot \/ WaitForWriter \/ CloseStore \/ UNCHANGED vars
        PROVE  UNCHANGED <<log, stored, buf, failed, dropped, panicked, pending, count, ch>>
    BY <2>7 DEF EngineCancelled, EngineClose, B!Close, B!histVars, SpawnEngine, Serve, Signal,
       Drained, CancelRoot, WaitForWriter, CloseStore, vars, busVars, procVars
  <2>8. /\ \A p \in Connectors : StartConnector(p) => UNCHANGED busVars /\ UNCHANGED <<stored, buf, failed>>
        /\ \A h \in Requests : RequestArrives(h) => UNCHANGED busVars /\ UNCHANGED <<stored, buf, failed>>
    BY DEF StartConnector, RequestArrives
  <2>10. UNCHANGED busVars /\ UNCHANGED <<stored, buf, failed>> => AllExplained'
    BY <1>3 DEF busVars
  <2> QED
    BY <1>3, <2>4, <2>5, <2>6, <2>7, <2>8, <2>9, <2>10 DEF Next, MainStep, EngineStep
<1> QED
  BY <1>4, <1>5

LEMMA LossStep ==
  BatchInv /\ EveryLossHasACause /\ [Next]_vars => EveryLossHasACause'
<1> SUFFICES ASSUME BatchInv, EveryLossHasACause, [Next]_vars,
                    Writer \in subs' \/ ~timedOut'
             PROVE  AllExplained'
  BY DEF EveryLossHasACause, AllExplained, Explained
<1>1. BatchInv'
  BY BatchInvStep
<1>t. (Process /\ Subscribed /\ Startup /\ TypeOK)'
  BY <1>1 DEF BatchInv, Process, Places
<1>2. CASE Writer \in subs'
  BY <1>1, <1>2, SubscribedExplainedNext
<1>3. CASE Writer \notin subs' /\ writer' = "done"
  BY <1>3, DoneExplained
<1>4. CASE Writer \notin subs' /\ writer' # "done"
  <2>1. writer' = "none"
    BY <1>t, <1>4 DEF Subscribed, TypeOK
  <2>2. log' = <<>>
    BY <1>t, <2>1 DEF Startup
  <2>3. Len(log') = 0
    BY <2>2, EmptySeq
  <2> QED
    BY <2>3 DEF AllExplained
<1> QED
  BY <1>2, <1>3, <1>4

\* End to end, a published record is stored, or it is on its way, or its loss
\* has a cause the program can name: while the writer is subscribed, and to
\* the end of the process if the shutdown was orderly (writer.go run, main.go
\* after <-stop), for any number of publishers and streams and every buffer size.
THEOREM LossesExplained == Spec => []EveryLossHasACause
<1>1. Init => EveryLossHasACause
  <2>1. Init => Len(log) = 0
    BY EmptySeq DEF Init, B!Init
  <2> QED
    BY <2>1 DEF EveryLossHasACause
<1> QED
  BY <1>1, LossStep, BatchInvariant, PTL DEF Spec

-----------------------------------------------------------------------------
(***************************************************************************)
(* The refinement.  Publish offers, a commit of the batch persists it, a   *)
(* failed write and a full channel lose records; everything else leaves    *)
(* what RecordLog sees as it is.                                           *)
(***************************************************************************)
LEMMA PublishOffers ==
  ASSUME BatchInv, NEW p \in Publishers, B!PublishLock(p), UNCHANGED <<stored, failed>>
  PROVE  Pipeline!Offer
<1> DEFINE r == [src |-> p, seq |-> count[p] + 1]
<1>t. /\ Process /\ BP!BusInv /\ log \in Seq(Records) /\ count \in [Publishers -> 0 .. MaxPublish]
  BY BusTyped DEF BatchInv, B!TypeOK, B!Records, Records
<1>1. /\ log' = Append(log, r) /\ UNCHANGED <<stored, failed, dropped>>
      /\ count[p] < MaxPublish
  BY DEF B!PublishLock
<1>2. r \in Records
  BY <1>t, <1>1, IngestAssumption DEF Records
<1>3. r.src = p /\ r.seq = count[p] + 1
  OBVIOUS
<1>4. r \notin ToSet(log)
  <2>1. \A i \in 1 .. Len(log) : log[i].seq <= count[log[i].src]
    BY <1>t DEF BP!BusInv, BP!HistoryInv, BP!Genuine, BP!Logged
  <2>2. ~(count[p] + 1 <= count[p])
    BY <1>t
  <2>3. \A i \in 1 .. Len(log) : log[i] # r
    BY <1>3, <2>1, <2>2
  <2> HIDE DEF r
  <2> QED
    BY <1>t, <2>3, LenProperties DEF ToSet
<1> HIDE DEF r
<1>5. ToSet(log') = ToSet(log) \cup {r}
  <2>1. /\ Len(log) \in Nat /\ DOMAIN log = 1 .. Len(log)
        /\ log' \in Seq(Records) /\ Len(log') = Len(log) + 1
        /\ \A i \in 1 .. Len(log) : log'[i] = log[i]
        /\ log'[Len(log) + 1] = r
    BY <1>t, <1>1, <1>2, AppendProperties, LenProperties
  <2>2. DOMAIN log' = 1 .. Len(log) + 1
    BY <2>1, LenProperties
  <2>3. 1 .. Len(log) + 1 = (1 .. Len(log)) \cup {Len(log) + 1}
    BY <2>1
  <2> QED
    BY <2>1, <2>2, <2>3 DEF ToSet
<1>6. Pipeline!Items = Records
  BY DEF Pipeline!Items, Records
<1>7. Published' = Published \cup {r} /\ r \in Pipeline!Items \ Published
  BY <1>2, <1>4, <1>5, <1>6 DEF Published
<1>8. UNCHANGED <<stored, Lost>>
  BY <1>1 DEF Lost
<1> QED
  BY <1>7, <1>8 DEF Pipeline!Offer

\* What is stored, batched or failed was handed to the writer, hence published
\* and not dropped.
LEMMA Sources ==
  ASSUME BatchInv
  PROVE  /\ ToSet(stored) \cup ToSet(buf) \cup failed \subseteq Published \ dropped[Writer]
         /\ dropped[Writer] \subseteq Published
<1>t. /\ Process /\ BP!BusInv /\ Batching /\ BP!Genuine
      /\ Got \in Nat /\ Got <= Len(sent[Writer]) /\ Len(sent[Writer]) \in Nat
      /\ DOMAIN buf = 1 .. Len(buf) /\ DOMAIN stored = 1 .. Len(stored)
  BY Lengths, LenProperties DEF BatchInv, BP!BusInv, BP!HistoryInv
<1>1. BP!Logged = Published
  <2>1. DOMAIN log = 1 .. Len(log)
    BY <1>t, BusTyped, LenProperties DEF B!TypeOK
  <2> QED
    BY <2>1 DEF BP!Logged, Published, ToSet
<1>2. /\ BP!Handed(Writer) \subseteq Published \ dropped[Writer]
      /\ dropped[Writer] \subseteq Published
  BY <1>t, <1>1, Members DEF BP!Genuine
<1>3. \A k \in 1 .. Got : sent[Writer][k] \in BP!Handed(Writer)
  BY <1>t DEF BP!Handed
<1>4. /\ \A k \in 1 .. Settled : k \in 1 .. Got
      /\ \A i \in 1 .. Len(buf) : Settled + i \in 1 .. Got
  BY <1>t, FlushSettles
<1> HIDE DEF Got, Settled
<1>5. \A i \in 1 .. Len(buf) : buf[i] \in BP!Handed(Writer)
  BY <1>t, <1>3, <1>4 DEF Batching
<1>6. \A i \in 1 .. Len(stored) : stored[i] \in BP!Handed(Writer)
  BY <1>t, <1>3, <1>4 DEF Batching
<1>7. failed \subseteq BP!Handed(Writer)
  BY <1>t, <1>3, <1>4, SMTT(30) DEF Batching
<1>8. ToSet(stored) \cup ToSet(buf) \cup failed \subseteq BP!Handed(Writer)
  BY <1>t, <1>5, <1>6, <1>7 DEF ToSet
<1> QED
  BY <1>2, <1>8

LEMMA SourcesNext ==
  BatchInv' => (ToSet(stored) \cup ToSet(buf) \cup failed \subseteq Published \ dropped[Writer]
                 /\ dropped[Writer] \subseteq Published)'
<1>1. BatchInv => (ToSet(stored) \cup ToSet(buf) \cup failed \subseteq Published \ dropped[Writer]
                    /\ dropped[Writer] \subseteq Published)
  BY Sources
<1> QED
  BY <1>1, PTL

LEMMA CommitPersists ==
  ASSUME BatchInv, BatchInv', FlushCommits
  PROVE  Pipeline!Persist
<1>t. Process /\ BP!BusInv /\ Batching /\ Places
  BY DEF BatchInv, Process
<1>1. stored' = stored \o buf /\ UNCHANGED <<log, failed, dropped>> /\ buf # <<>>
  BY <1>t DEF FlushCommits, busVars, Places, Batched
<1>2. /\ stored \in Seq(Records) /\ buf \in Seq(Records)
      /\ Len(stored) \in Nat /\ Len(buf) \in Nat /\ Len(buf) >= 1
  BY <1>t, <1>1, Lengths, EmptySeq
<1>3. /\ stored' \in Seq(Records) /\ Len(stored') = Len(stored) + Len(buf)
      /\ \A i \in 1 .. Len(stored) + Len(buf) :
           stored'[i] = IF i <= Len(stored) THEN stored[i] ELSE buf[i - Len(stored)]
  BY <1>1, <1>2, ConcatProperties
<1> DEFINE batch == SubSeq(stored', Len(stored) + 1, Len(stored'))
<1>4. batch = buf
  <2>1. \A i \in Len(stored) + 1 .. Len(stored') : stored'[i] \in Records
    BY <1>2, <1>3, ElementOfSeq
  <2>2. /\ batch \in Seq(Records)
        /\ Len(batch) = IF Len(stored) + 1 <= Len(stored')
                        THEN Len(stored') - (Len(stored) + 1) + 1 ELSE 0
        /\ \A i \in 1 .. Len(stored') - (Len(stored) + 1) + 1 :
             batch[i] = stored'[Len(stored) + 1 + i - 1]
    BY <1>2, <1>3, <2>1, SubSeqProperties
  <2>3. Len(batch) = Len(buf) /\ Len(stored') - (Len(stored) + 1) + 1 = Len(buf)
    BY <1>2, <1>3, <2>2
  <2>4. ASSUME NEW i \in 1 .. Len(buf) PROVE batch[i] = buf[i]
    <3>1. /\ Len(stored) + 1 + i - 1 = Len(stored) + i
          /\ Len(stored) + i \in 1 .. Len(stored) + Len(buf)
          /\ ~(Len(stored) + i <= Len(stored)) /\ Len(stored) + i - Len(stored) = i
      BY <1>2
    <3> QED
      BY <1>3, <2>2, <2>3, <3>1
  <2> QED
    BY <1>2, <2>2, <2>3, <2>4, SeqEqual
<1> HIDE DEF batch
<1>5. Pipeline!IsStrictPrefix(stored, stored')
  <2>1. Len(stored) <= Len(stored') /\ stored # stored'
    BY <1>2, <1>3
  <2>2. SubSeq(stored, 1, Len(stored)) = SubSeq(stored', 1, Len(stored))
    <3>1. SubSeq(stored, 1, Len(stored)) = stored
      BY <1>2, SubSeqFull
    <3>2. CASE Len(stored) = 0
      <4>1. 1 \in Int /\ Len(stored) \in Int /\ Len(stored) < 1
        BY <3>2
      <4> QED
        BY <4>1, SubSeqEmpty
    <3>3. CASE Len(stored) # 0
      <4>1. 1 \in 1 .. Len(stored) /\ Len(stored) \in 1 .. Len(stored)
        BY <1>2, <3>3
      <4> QED
        BY <1>1, <1>2, <4>1, SubSeqOfConcat1
    <3> QED
      BY <3>2, <3>3
  <2> QED
    BY <2>1, <2>2 DEF Pipeline!IsStrictPrefix, Pipeline!IsPrefix
<1>6. Pipeline!IsInjective(batch)
  BY <1>t, <1>2, <1>4, BatchApart, LenProperties DEF Pipeline!IsInjective
<1>7. Pipeline!ToSet(batch) = ToSet(buf) /\ Pipeline!ToSet(stored) = ToSet(stored)
  BY <1>4 DEF Pipeline!ToSet, ToSet
<1>8. ToSet(buf) \subseteq Published \ (ToSet(stored) \cup Lost)
  BY <1>t, BatchApart, Sources DEF Lost
<1>9. StoredInOrder'
  BY DEF BatchInv
<1>10. UNCHANGED <<Published, Lost>>
  BY <1>1 DEF Published, Lost
<1> QED
  BY <1>5, <1>6, <1>7, <1>8, <1>9, <1>10
  DEF batch, Pipeline!Persist, StoredInOrder

\* A step that gives records up, unless they were lost before.
LEMMA Loses ==
  ASSUME BatchInv, BatchInv', UNCHANGED <<log, stored>>,
         failed \subseteq failed', dropped[Writer] \subseteq dropped'[Writer]
  PROVE  [Pipeline!Lose]_(Pipeline!logVars)
<1>1. ToSet(stored)' \cap failed' = {} /\ ToSet(stored)' = ToSet(stored)
  BY DEF BatchInv, Batching
<1>2. Lost' \subseteq Published \ ToSet(stored)
  BY <1>1, SourcesNext DEF Lost, Published
<1>3. Lost \subseteq Lost'
  BY DEF Lost
<1>4. Published' = Published
  BY DEF Published
<1>5. Pipeline!ToSet(stored) = ToSet(stored)
  BY DEF Pipeline!ToSet, ToSet
<1> QED
  BY <1>2, <1>3, <1>4, <1>5 DEF Pipeline!Lose, Pipeline!logVars

LEMMA RefinementStep == BatchInv /\ [Next]_vars => [Pipeline!Next]_(Pipeline!logVars)
<1> SUFFICES ASSUME BatchInv, [Next]_vars PROVE [Pipeline!Next]_(Pipeline!logVars)
  OBVIOUS
<1>n. BatchInv'
  BY BatchInvStep
<1>l. [Pipeline!Lose]_(Pipeline!logVars) => [Pipeline!Next]_(Pipeline!logVars)
  BY DEF Pipeline!Next
<1>s. UNCHANGED <<log, stored, failed, dropped>> => UNCHANGED Pipeline!logVars
  BY DEF Pipeline!logVars, Published, Lost
<1>1. ASSUME NEW p \in Connectors, ConnectorPublish(p) PROVE Pipeline!Next
  BY <1>1, PublishOffers, Members DEF ConnectorPublish, procVars, Pipeline!Next
<1>8. ASSUME NEW h \in Requests, RequestPublish(h) PROVE Pipeline!Next
  BY <1>8, PublishOffers, Members DEF RequestPublish, Pipeline!Next
<1>9. ASSUME NEW h \in Requests, RequestArrives(h) \/ RequestEnds(h)
      PROVE  UNCHANGED <<log, stored, failed, dropped>>
  BY <1>9 DEF RequestArrives, RequestEnds, busVars
<1>10. ASSUME NEW s \in StreamSubs, StreamSubscribe(s) \/ StreamTake(s) \/ StreamClose(s)
       PROVE  UNCHANGED <<log, stored, failed, dropped>>
  BY <1>10 DEF StreamSubscribe, StreamTake, StreamClose, B!Subscribe, B!Receive, B!Close,
     B!histVars, procVars
<1>2. CASE FlushCommits
  BY <1>n, <1>2, CommitPersists DEF Pipeline!Next
<1>3. CASE FlushFails
  <2>1. UNCHANGED <<log, stored, dropped>> /\ failed \subseteq failed'
    BY <1>3 DEF FlushFails, busVars
  <2> QED
    BY <1>n, <1>l, <2>1, Loses
<1>4. ASSUME NEW p \in Publishers, PublisherDelivers(p)
      PROVE  [Pipeline!Next]_(Pipeline!logVars)
  <2>1. UNCHANGED <<log, stored, failed>>
    BY <1>4 DEF PublisherDelivers, B!Deliver, B!FilterOut, B!Send, B!Drop, B!SendOnClosed,
       B!histVars, procVars
  <2>2. dropped \in [Subscribers -> SUBSET Records]
    BY BusTyped DEF BatchInv, B!TypeOK, B!Records, Records
  <2>3. dropped[Writer] \subseteq dropped'[Writer]
    BY <1>4, <2>2, Members DEF PublisherDelivers, B!Deliver, B!FilterOut, B!Send, B!Drop,
       B!SendOnClosed, B!histVars
  <2> QED
    BY <1>n, <1>l, <2>1, <2>3, Loses
<1>5. ASSUME NEW p \in Connectors, ConnectorExit(p) \/ StartConnector(p)
      PROVE  UNCHANGED <<log, stored, failed, dropped>>
  BY <1>5 DEF ConnectorExit, StartConnector, busVars
<1>6. ASSUME WriterTake \/ WriterTick \/ WriterCancelled \/ WriterClose \/ EngineStep
      PROVE  UNCHANGED <<log, stored, failed, dropped>>
  BY <1>6 DEF WriterTake, WriterTick, WriterCancelled, WriterClose, EngineStep,
     EngineSubscribe, EngineTake, EngineCancelled, EngineClose, B!Subscribe, B!Receive,
     B!Close, B!histVars, busVars, procVars
<1>7. ASSUME StartWriter \/ SpawnEngine \/ Serve \/ Signal \/ Drained \/ CancelRoot
               \/ WaitForWriter \/ CloseStore \/ UNCHANGED vars
      PROVE  UNCHANGED <<log, stored, failed, dropped>>
  BY <1>7 DEF StartWriter, SpawnEngine, Serve, Signal, Drained, CancelRoot, WaitForWriter,
     CloseStore, B!Subscribe, vars, busVars, procVars
<1> QED
  BY <1>s, <1>1, <1>2, <1>3, <1>4, <1>5, <1>6, <1>7, <1>8, <1>9, <1>10 DEF Next, MainStep, WriterStep

\* The path from Publish to the events table is at-most-once storage
\* (RecordLog): a record becomes durable at most once, in a batch that is
\* stored whole and in publishing order, and what is lost stays lost (bus.go
\* Publish, writer.go flush, duckdb.go Write), whatever the shutdown does.
THEOREM RefinesRecordLog == Spec => ImplementsRecordLog
<1>1. Init => Pipeline!Init
  <2> SUFFICES ASSUME Init PROVE Pipeline!Init
    OBVIOUS
  <2>1. log = <<>> /\ stored = <<>> /\ failed = {} /\ dropped[Writer] = {}
    BY Members DEF Init, B!Init
  <2>2. DOMAIN log = 1 .. 0
    BY <2>1, EmptySeq, LenProperties
  <2>3. Published = {} /\ Lost = {}
    BY <2>1, <2>2 DEF Published, Lost, ToSet
  <2> QED
    BY <2>1, <2>3 DEF Pipeline!Init
<1> QED
  BY <1>1, RefinementStep, BatchInvariant, PTL DEF Spec, ImplementsRecordLog, Pipeline!Spec

=============================================================================
