------------------------------- MODULE Ingest -------------------------------
(***************************************************************************)
(* The server process from start-up to exit (cmd/sunny/main.go): main      *)
(* opens the store, starts the batching storage writer (storage/writer.go) *)
(* and the alert engine on the bus, starts the connectors, and on a signal *)
(* drains the HTTP server, stops the connectors, cancels the root context, *)
(* waits for writer and engine, each with a timeout, and closes the store. *)
(*                                                                         *)
(* The bus is module Bus.  Connectors publish, and so do the requests that *)
(* the HTTP server hands to push connectors; its WebSocket streams are     *)
(* subscribers that come and go.  A Stop that times out is a return of     *)
(* StopAll while some connector still runs, a Shutdown that times out its  *)
(* return while some request does.                                         *)
(***************************************************************************)
EXTENDS Integers, Sequences, FiniteSets, SequencesExt

CONSTANTS
  Connectors,   \* the configured connector instances
  Requests,     \* connections that bring requests for push connectors
  Writer,       \* the writer's subscription
  Engine,       \* the alert engine's subscription
  StreamSubs,   \* subscriptions of WebSocket streams
  RingArg, BufferArg, MaxPublish, MaxLog,   \* as in Bus
  BatchArg,     \* WriterConfig.BatchSize
  MaxVisits     \* bound: requests and streams together

VARIABLES subs, closed, ring, filter, ch, dropped, pending, count,
          log, since, sent, panicked         \* the bus

busVars == <<subs, closed, ring, filter, ch, dropped, pending, count,
             log, since, sent, panicked>>

\* Requests publish in goroutines of the HTTP server.
Publishers == Connectors \cup Requests
Subscribers == {Writer, Engine} \cup StreamSubs

Records == [src : Publishers, seq : 1 .. MaxPublish]

B == INSTANCE Bus WITH Filters <- {Records}

ASSUME IngestAssumption ==
  /\ Writer # Engine /\ {Writer, Engine} \cap StreamSubs = {}
  /\ Connectors \cap Requests = {}
  /\ RingArg \in Int /\ BufferArg \in Int /\ BatchArg \in Int
  /\ MaxPublish \in Nat /\ MaxLog \in Nat /\ MaxVisits \in Nat

\* NewWriter replaces a non-positive batch size by the default.
BatchSize == IF BatchArg <= 0 THEN 256 ELSE BatchArg

VARIABLES
  main,      \* where main() is
  timedOut,  \* a wait of the shutdown sequence ended by its timeout
  started,   \* connectors whose supervisor runs
  exited,    \* connectors whose supervisor has returned
  active,    \* connections with a request in its handler
  served,    \* those of them whose handler has called Publish
  visits,    \* number of requests and streams so far
  writer,    \* "none", "loop", "flush", "lastflush", "closing" or "done"
  buf,       \* the writer's batch
  stored,    \* the events table, in insertion order
  failed,    \* records of batches whose Write failed
  written,   \* Writer.written
  engine,    \* "none", "loading", "loop", "closing" or "done"
  storeOpen  \* main has not closed the store

httpVars == <<active, served, visits>>
procVars == <<main, timedOut, started, exited, httpVars, writer, buf, stored, failed,
              written, engine, storeOpen>>
vars == <<busVars, procVars>>

Init ==
  /\ B!Init
  /\ main = "boot" /\ timedOut = FALSE
  /\ started = {} /\ exited = {} 
  /\ active = {} /\ served = {} /\ visits = 0
  /\ writer = "none" /\ buf = <<>>
  /\ stored = <<>> /\ failed = {} /\ written = 0
  /\ engine = "none" /\ storeOpen = TRUE

\* cancelRoot has been called.
RootCancelled == main \in {"cancelled", "closing", "closed"}

-----------------------------------------------------------------------------
(***************************************************************************)
(* main: start-up                                                          *)
(***************************************************************************)

\* storage.NewWriter subscribes before it returns.
StartWriter ==
  /\ main = "boot"
  /\ B!Subscribe(Writer, Records, FALSE)
  /\ writer' = "loop"
  /\ main' = "writer"
  /\ UNCHANGED <<timedOut, started, exited, httpVars, buf, stored, failed, written,
                 engine, storeOpen>>

\* go alertEngine.Run: the goroutine loads the rules before it subscribes.
SpawnEngine ==
  /\ main = "writer"
  /\ engine' = "loading"
  /\ main' = "starting"
  /\ UNCHANGED <<busVars, timedOut, started, exited, httpVars, writer, buf, stored,
                 failed, written, storeOpen>>

\* rt.Start for one configured instance; the loop follows the config's order,
\* which is arbitrary here.
StartConnector(p) ==
  /\ main = "starting" /\ p \notin started
  /\ started' = started \cup {p}
  /\ UNCHANGED <<busVars, main, timedOut, exited, httpVars, writer, buf, stored,
                 failed, written, engine, storeOpen>>

\* The last rt.Start has returned; the HTTP server listens.
Serve ==
  /\ main = "starting" /\ started = Connectors
  /\ main' = "serving"
  /\ UNCHANGED <<busVars, timedOut, started, exited, httpVars, writer, buf, stored,
                 failed, written, engine, storeOpen>>

(***************************************************************************)
(* Connectors and requests                                                 *)
(***************************************************************************)
Running(p) == p \in (started \ exited) \cup active

ConnectorPublish(p) ==
  /\ p \in started \ exited
  /\ B!PublishLock(p)
  /\ UNCHANGED procVars

PublisherDelivers(p) ==
  /\ \E s \in Subscribers : B!Deliver(p, s)
  /\ UNCHANGED procVars

\* Run returns, on its own or because its context is cancelled.
ConnectorExit(p) ==
  /\ p \in started \ exited /\ ~B!Publishing(p)
  /\ exited' = exited \cup {p}
  /\ UNCHANGED <<busVars, main, timedOut, started, httpVars, writer, buf, stored,
                 failed, written, engine, storeOpen>>

\* A request reaches the handler of a push connector; the listener is open
\* until Shutdown closes it.
RequestArrives(h) ==
  /\ main = "serving" /\ h \notin active
  /\ visits < MaxVisits
  /\ visits' = visits + 1
  /\ active' = active \cup {h}
  /\ UNCHANGED <<busVars, main, timedOut, started, exited, served, writer, buf, stored,
                 failed, written, engine, storeOpen>>

\* The handler publishes the record the request carries.
RequestPublish(h) ==
  /\ h \in active \ served
  /\ B!PublishLock(h)
  /\ served' = served \cup {h}
  /\ UNCHANGED <<main, timedOut, started, exited, active, visits, writer, buf, stored, failed,
                 written, engine, storeOpen>>

\* The handler returns: the record is accepted, or was refused before Publish,
\* or Publish panicked and the server recovered.
RequestEnds(h) ==
  /\ h \in active /\ ~B!Publishing(h)
  /\ active' = active \ {h} /\ served' = served \ {h}
  /\ UNCHANGED <<busVars, main, timedOut, started, exited, visits, writer, buf, stored, failed,
                 written, engine, storeOpen>>

(***************************************************************************)
(* WebSocket streams, without the filter by connector                      *)
(***************************************************************************)

\* The handler has taken its connection over from the HTTP server, which does
\* not wait for it any more; so it may come to this at any later time.
StreamSubscribe(s) ==
  /\ main \notin {"boot", "writer", "starting"}
  /\ \E replay \in BOOLEAN : B!Subscribe(s, Records, replay)
  /\ visits < MaxVisits
  /\ visits' = visits + 1
  /\ UNCHANGED <<main, timedOut, started, exited, active, served, writer, buf, stored,
                 failed, written, engine, storeOpen>>

StreamTake(s) ==
  /\ s \in subs
  /\ B!Receive(s)
  /\ UNCHANGED procVars

\* The client is gone, slow or out of time: the deferred sub.Close.
StreamClose(s) ==
  /\ B!Close(s)
  /\ UNCHANGED procVars

-----------------------------------------------------------------------------
(***************************************************************************)
(* Writer.run                                                              *)
(***************************************************************************)

\* A loop that forgets the batch-size test.
WriterTakeUnflushed ==
  /\ writer = "loop"
  /\ B!Receive(Writer)
  /\ buf' = Append(buf, Head(ch[Writer]))
  /\ writer' = "loop"
  /\ UNCHANGED <<main, timedOut, started, exited, httpVars, stored, failed, written,
                 engine, storeOpen>>

\* case rec := <-sub.C(): append, flush when the batch is full.
WriterTake ==
  /\ writer = "loop"
  /\ B!Receive(Writer)
  /\ buf' = Append(buf, Head(ch[Writer]))
  /\ writer' = IF Len(buf') >= BatchSize THEN "flush" ELSE "loop"
  /\ UNCHANGED <<main, timedOut, started, exited, httpVars, stored, failed, written,
                 engine, storeOpen>>

\* A loop without the interval case.
WriterTickNever == FALSE /\ UNCHANGED vars

\* case <-ticker.C: flush returns at once on an empty batch.
WriterTick ==
  /\ writer = "loop" /\ buf # <<>>
  /\ writer' = "flush"
  /\ UNCHANGED <<busVars, main, timedOut, started, exited, httpVars, buf, stored,
                 failed, written, engine, storeOpen>>

\* A cancellation that returns without the last flush.
WriterCancelledNoFlush ==
  /\ writer = "loop" /\ RootCancelled
  /\ writer' = "closing" /\ buf' = <<>>
  /\ UNCHANGED <<busVars, main, timedOut, started, exited, httpVars, stored, failed,
                 written, engine, storeOpen>>

\* A cancellation that breaks out of the select instead of returning.
WriterCancelledBreaks ==
  /\ writer = "loop" /\ RootCancelled
  /\ writer' = IF buf = <<>> THEN "loop" ELSE "flush"
  /\ UNCHANGED <<busVars, main, timedOut, started, exited, httpVars, buf, stored,
                 failed, written, engine, storeOpen>>

\* case <-ctx.Done(): a last flush, whatever the channel still holds; Go picks
\* at random among the cases of the select that are ready.
WriterCancelled ==
  /\ writer = "loop" /\ RootCancelled
  /\ writer' = IF buf = <<>> THEN "closing" ELSE "lastflush"
  /\ UNCHANGED <<busVars, main, timedOut, started, exited, httpVars, buf, stored,
                 failed, written, engine, storeOpen>>

Flushing == writer \in {"flush", "lastflush"}
AfterFlush == IF writer = "flush" THEN "loop" ELSE "closing"

\* A flush that keeps the batch after it has written it.
FlushKeepsBatch ==
  /\ Flushing /\ storeOpen
  /\ stored' = stored \o buf
  /\ written' = written + Len(buf)
  /\ writer' = AfterFlush
  /\ UNCHANGED <<busVars, main, timedOut, started, exited, httpVars, failed, engine,
                 storeOpen, buf>>

\* flush: Storage.Write commits the batch in one transaction.
FlushCommits ==
  /\ Flushing /\ storeOpen
  /\ stored' = stored \o buf
  /\ written' = written + Len(buf)
  /\ buf' = <<>>
  /\ writer' = AfterFlush
  /\ UNCHANGED <<busVars, main, timedOut, started, exited, httpVars, failed, engine,
                 storeOpen>>

\* A failed transaction that leaves its first insert behind.
FlushFailsPartly ==
  /\ Flushing
  /\ stored' = Append(stored, Head(buf))
  /\ failed' = failed \cup ToSet(buf)
  /\ buf' = <<>>
  /\ writer' = AfterFlush
  /\ UNCHANGED <<busVars, main, timedOut, started, exited, httpVars, written, engine,
                 storeOpen>>

\* flush: Write fails or times out; the transaction rolls back and the batch
\* is dropped.
FlushFails ==
  /\ Flushing
  /\ failed' = failed \cup ToSet(buf)
  /\ buf' = <<>>
  /\ writer' = AfterFlush
  /\ UNCHANGED <<busVars, main, timedOut, started, exited, httpVars, stored, written,
                 engine, storeOpen>>

\* The deferred sub.Close, then close(done).
WriterClose ==
  /\ writer = "closing"
  /\ B!Close(Writer)
  /\ writer' = "done"
  /\ UNCHANGED <<main, timedOut, started, exited, httpVars, buf, stored, failed,
                 written, engine, storeOpen>>

WriterStep ==
  \/ WriterTake \/ WriterTick \/ WriterCancelled
  \/ FlushCommits \/ FlushFails \/ WriterClose

-----------------------------------------------------------------------------
(***************************************************************************)
(* The alert engine's goroutine, as far as the bus sees it                 *)
(***************************************************************************)

\* reloadRules has returned (a failure is only logged); Subscribe.
EngineSubscribe ==
  /\ engine = "loading"
  /\ B!Subscribe(Engine, Records, FALSE)
  /\ engine' = "loop"
  /\ UNCHANGED <<main, timedOut, started, exited, httpVars, writer, buf, stored,
                 failed, written, storeOpen>>

EngineTake ==
  /\ engine = "loop"
  /\ B!Receive(Engine)
  /\ UNCHANGED procVars

EngineCancelled ==
  /\ engine = "loop" /\ RootCancelled
  /\ engine' = "closing"
  /\ UNCHANGED <<busVars, main, timedOut, started, exited, httpVars, writer, buf,
                 stored, failed, written, storeOpen>>

EngineClose ==
  /\ engine = "closing"
  /\ B!Close(Engine)
  /\ engine' = "done"
  /\ UNCHANGED <<main, timedOut, started, exited, httpVars, writer, buf, stored,
                 failed, written, storeOpen>>

EngineStep == EngineSubscribe \/ EngineTake \/ EngineCancelled \/ EngineClose

-----------------------------------------------------------------------------
(***************************************************************************)
(* main: shutdown                                                          *)
(***************************************************************************)

\* A signal arrives; srv.Shutdown closes the listener and waits for the
\* requests under way.
Signal ==
  /\ main = "serving"
  /\ main' = "draining"
  /\ UNCHANGED <<busVars, timedOut, started, exited, httpVars, writer, buf, stored,
                 failed, written, engine, storeOpen>>

\* Shutdown returns, with every request answered or after its ten seconds;
\* rt.StopAll begins.
Drained ==
  /\ main = "draining"
  /\ main' = "stopping"
  /\ timedOut' = (timedOut \/ active # {})
  /\ UNCHANGED <<busVars, started, exited, httpVars, writer, buf, stored, failed,
                 written, engine, storeOpen>>

\* A shutdown that cancels the root context without stopping connectors.
CancelFirst ==
  /\ main = "stopping"
  /\ main' = "cancelled"
  /\ UNCHANGED <<busVars, timedOut, started, exited, httpVars, writer, buf, stored,
                 failed, written, engine, storeOpen>>

\* StopAll returns, all connectors gone or some wait timed out; cancelRoot.
CancelRoot ==
  /\ main = "stopping"
  /\ main' = "cancelled"
  /\ timedOut' = (timedOut \/ exited # Connectors)
  /\ UNCHANGED <<busVars, started, exited, httpVars, writer, buf, stored, failed,
                 written, engine, storeOpen>>

\* main stops waiting for writerDone.
WaitForWriter ==
  /\ main = "cancelled"
  /\ main' = "closing"
  /\ timedOut' = (timedOut \/ writer # "done")
  /\ UNCHANGED <<busVars, started, exited, httpVars, writer, buf, stored, failed,
                 written, engine, storeOpen>>

\* main stops waiting for alertDone; the deferred store.Close runs.
CloseStore ==
  /\ main = "closing"
  /\ main' = "closed"
  /\ timedOut' = (timedOut \/ engine # "done")
  /\ storeOpen' = FALSE
  /\ UNCHANGED <<busVars, started, exited, httpVars, writer, buf, stored, failed,
                 written, engine>>

MainStep ==
  \/ StartWriter \/ SpawnEngine \/ \E p \in Connectors : StartConnector(p)
  \/ Serve \/ Signal \/ Drained \/ CancelRoot \/ WaitForWriter \/ CloseStore

Next ==
  \/ MainStep \/ WriterStep \/ EngineStep
  \/ \E p \in Connectors : ConnectorPublish(p) \/ ConnectorExit(p)
  \/ \E h \in Requests : RequestArrives(h) \/ RequestPublish(h) \/ RequestEnds(h)
  \/ \E p \in Publishers : PublisherDelivers(p)
  \/ \E s \in StreamSubs : StreamSubscribe(s) \/ StreamTake(s) \/ StreamClose(s)

\* The writer's goroutine is scheduled as long as it has something to do; its
\* ticker fires again and again, and Write returns within its ten seconds.
\* Connectors, requests, streams, the engine and the signal owe nothing.
Fairness == WF_vars(WriterTick) /\ WF_vars(WriterStep)

Spec == Init /\ [][Next]_vars /\ Fairness

-----------------------------------------------------------------------------
(***************************************************************************)
(* Properties                                                              *)
(***************************************************************************)
TypeOK ==
  /\ B!TypeOK
  /\ main \in {"boot", "writer", "starting", "serving", "draining", "stopping",
               "cancelled", "closing", "closed"}
  /\ timedOut \in BOOLEAN /\ storeOpen \in BOOLEAN
  /\ started \subseteq Connectors /\ exited \subseteq started
  /\ active \subseteq Requests /\ served \subseteq active /\ visits \in Nat
  /\ writer \in {"none", "loop", "flush", "lastflush", "closing", "done"}
  /\ engine \in {"none", "loading", "loop", "closing", "done"}
  /\ buf \in Seq(Records)
  /\ Len(buf) < BatchSize \/ (writer = "flush" /\ Len(buf) = BatchSize)
  /\ stored \in Seq(Records) /\ failed \subseteq Records /\ written \in Nat

\* What the writer has received, in order.
Taken == SubSeq(sent[Writer], 1, Len(sent[Writer]) - Len(ch[Writer]))

\* Everything the writer ever received is stored, in its batch, or in a batch
\* whose Write failed, and in only one of them; the counter Written() is the
\* number of records stored (writer.go flush).
BatchesPartition ==
  /\ ToSet(Taken) = ToSet(stored) \cup ToSet(buf) \cup failed
  /\ Len(stored) + Len(buf) + Cardinality(failed) = Len(Taken)
  /\ written = Len(stored)

\* End to end, a published record is stored or its loss has a cause: dropped
\* and counted by the bus, in a failed batch, left in the channel of a writer
\* that has stopped, or carried by a Publish that panicked; until then it is
\* in flight, queued or batched.  This holds while the writer is subscribed,
\* and to the end of the process when no wait of the shutdown timed out
\* (writer.go run, main.go after <-stop).
EveryLossHasACause ==
  Writer \in subs \/ ~timedOut => \A i \in 1 .. Len(log) :
    \/ log[i] \in ToSet(stored) \cup ToSet(buf) \cup failed
    \/ log[i] \in ToSet(ch[Writer]) \cup dropped[Writer] \cup panicked
    \/ B!InFlight(log[i], Writer)

\* If no wait of the shutdown timed out (srv.Shutdown, StopAll, writer,
\* engine), then no Publish meets a channel that the shutdown has closed, none
\* is under way once the root context is cancelled, and by the time the store
\* is closed nobody uses it (main.go after <-stop).  Streams are not part of
\* the order: one that closes can panic a Publish at any time.
OrderlyShutdown ==
  ~timedOut =>
    /\ \A p \in Publishers : pending[p] \cap closed \subseteq StreamSubs
    /\ RootCancelled => \A p \in Publishers : ~B!Publishing(p)
    /\ ~storeOpen => /\ writer = "done" /\ engine = "done"
                     /\ exited = Connectors /\ active = {}

\* What reaches the events table is what module RecordLog promises.
Published == ToSet(log)
Lost == failed \cup dropped[Writer]
Pipeline == INSTANCE RecordLog WITH Sources <- Publishers, MaxSeq <- MaxPublish,
                                    offered <- Published, durable <- stored,
                                    gone <- Lost
ImplementsRecordLog == Pipeline!Spec

\* A batch never waits for more traffic: the ticker flushes it, unless the
\* process ends first (writer.go run; main.go returns after closing the store).
BatchFlushed == (buf # <<>>) ~> (buf = <<>> \/ main = "closed")

\* Once the root context is cancelled the writer unsubscribes and ends, unless
\* the process ends first (writer.go run).
WriterStops == RootCancelled ~> (writer = "done" \/ main = "closed")

\* "records published after NewWriter returns are guaranteed to reach the
\* writer (modulo subscription buffer overflow)" (writer.go NewWriter): in an
\* orderly shutdown nothing is left in the channel of a writer that is done.
PublishedReachWriter ==
  (writer = "done" /\ ~timedOut) => ch[Writer] = <<>>

\* "Alert engine subscribes before connectors start so we don't miss early
\* records" (main.go): nothing was published before the engine subscribed.
EngineSeesEarlyRecords == Engine \in subs => since[Engine] = 0

=============================================================================
