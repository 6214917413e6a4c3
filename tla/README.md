# A verification project for Sunny

Sunny is a single Go process that runs *connectors*, fans their records out over an in-process bus, stores
them in batches, evaluates alert rules and serves an HTTP API. This directory holds TLA+ models of its
parts that keep state, the TLC configurations that check them on small instances, and TLAPS proofs of every safety
property the passing runs check.
Paths below are relative to `src/`; `srv` abbreviates `apps/server/internal`.

## 1. Inventory

| Component | State it keeps | Operations | Talks to |
|---|---|---|---|
| Record bus (`srv/bus`) | map of subscriptions, ring of recent records, one channel and drop counter per subscription | `Publish`, `Subscribe`, `Close`, `Recent` | called by every other part |
| Storage writer (`srv/storage/writer.go`) | its subscription, the batch, counters | `run`: take, flush by size, by ticker, at shutdown | bus, storage |
| `main` (`apps/server/cmd/sunny`) | root context, the done channels | start-up order, shutdown sequence | everything |
| Connector runtime (`srv/connectors/runtime.go`) | map of instances, map of push handlers, status per instance | `Start`, `Stop`, `StopAll`, `supervise`, `runOnce` | connectors, HTTP |
| Runtime context (`context.go`) | checkpoints, in memory without a store | `Publish`, `Checkpoint`, `LoadCheckpoint` | bus, storage |
| Alert engine (`srv/alerts/engine.go`) | cached rules, dedupe map | `Run`: load, reload, prune, evaluate | bus, storage, dispatcher |
| Dispatcher (`srv/alerts/notify.go`) | metrics; one goroutine per alert and notifier | `Dispatch`, `deliverWithRetry` | notifiers, dead-letter store |
| Dead-letter stores (`srv/alerts/deadletter.go`) | a bounded slice, or a file of JSON lines | insert, list | dispatcher, HTTP |
| Pull connectors (`connectors/*`) | watermark or set of seen ids | poll, publish, checkpoint | runtime context, remote feeds |
| Push and stream connectors (`webhook`, `mqtt`, `postgres`) | a connection | hand over to `Publish`, reconnect | runtime context |
| Storage (`srv/storage`) | DuckDB tables: events, checkpoints, rules, alerts | one transaction per write, queries | writer, engine, connectors, HTTP |
| Object store, Iceberg metadata, Parquet (`srv/storage/*`) | files, table metadata, a row-group builder | put, list, commit, append | none yet: not wired into the server |
| HTTP API (`srv/httpapi`) | count of open streams, token buckets | routes, WebSocket stream | bus, runtime, storage |
| Auth (`srv/auth`) | password hash, key, tokens, JWKS cache | login, validate, OIDC flow | HTTP |
| CLI (`packages/cli`), web UI (`apps/web`) | none of their own, but the reconnecting live stream | requests | HTTP |

**What is hard.** Each subscription channel is shared by a goroutine that reads it, any number of
publishers and a `Close`; `Publish` leaves its lock before it sends. Shutdown is a sequence of waits that may
each time out while the others go on. `Start` and `Stop` release the runtime's lock while they wait or build a
handler. Deliveries race their cancellation. Connectors publish first and save their checkpoint afterwards, and the
process may stop in between. A dead letter may be half a line. A login spans two requests, a cookie and a provider
that changes its key. The page reconnects to a server that replays.
`PROJECT.json` lists these hazards with their lines and the properties that cover them.

**What makes the parts correct.**

- Bus: per-publisher order and at-most-once delivery per subscription, no uncounted loss, a publisher never waits.
- Writer and `main`: at-most-once storage in whole batches; every loss has a known cause; an orderly shutdown closes
  no channel under a `Publish` and no store under a user (a stream that ends may still close its own).
- Runtime: one supervisor per id, always visible; a stop is final; `Stop` returns.
- Alerts: one alert per rule, source and window; every delivery gets one fate; every `Dispatch` returns or
  ends with the process.
- Pull connectors: within a life nothing is published twice, but for three stated cases of `noaaweather`; a later life
  repeats only what no checkpoint covered; what is passed over for good lies behind something published.
- Push and stream connectors: a message on a subscribed topic is lost only with a connection, and with none if
  mqtt keeps a session at a QoS above 0; every topic is subscribed again after a reconnect.
- Dead letters: an accepted row is lost only to a torn write or to the ring's limit.
- Object store, Parquet, metadata: readers see whole objects, no row vanishes unreported, no commit spoils another's.
- Streams, limiter, logins, page: the cap holds and is given back, an address gets what the textbook bucket gives,
  refusals have causes, withdrawn keys expire, the page has one socket.

## 2. Modules

| Module | Models | State ↔ code |
|---|---|---|
| `Bus` | `bus.go`, `subscription.go` | `subs`, `closed`, `ring`, `ch`, `dropped` are the fields; `pending[p]` is the rest of the copy of the map a `Publish` of `p` iterates. `PublishLock` is the critical section; `FilterOut`, `Send`, `Drop`, `SendOnClosed` are the outcomes of one iteration; `Subscribe` and `Close` are single critical sections. `log`, `since`, `sent`, `panicked` are history |
| `RecordLog` | abstract: at-most-once storage of published records | |
| `Ingest` | `main.go`, `writer.go`, the engine's and the streams' subscriptions, requests to push connectors; contains a `Bus` by `INSTANCE` | `main` is the position in `main()`; `active`, `served` the requests in a handler and those that have published; `writer`, `buf` the writer goroutine; `stored`, `failed` what the transactions did; `timedOut` whether one of the four shutdown waits (`srv.Shutdown`, `StopAll`, writer, engine) gave up |
| `Runtime` | `runtime.go` | `instances`, `pushHandlers`, status fields per numbered instance object; `sup` is the supervisor's position, `stop[c][id]` that of a `Stop` of `id` by caller `c`, or by the goroutine `StopAll` runs for it |
| `Dispatcher` | `notify.go` | `job`, `attempt` per alert and notifier; `delivered`, `deadLet` as sets, whose sizes are the metrics |
| `DeadLetters` | `deadletter.go`; extends `Dispatcher`, whose dead-lettering step it spells out | `rows`, `tail` are the file's lines, whole and unfinished; `entries` the ring; `acked`, `torn` history |
| `AlertEngine` | `engine.go`; contains a `Dispatcher` | `dedupe` holds ticks; `todo` is the rest of `evaluate`'s loop; `raised` (key, time noted, whether `InsertAlert` succeeded), `suppressed` are history; `ProcessEnds` takes the `Dispatch` goroutines along |
| `Poller` | the five pull connectors, `sdkhttp`, the runtime context's checkpoints | `kind` says which connector; `pc` is the position in `Run` and `poll`; `last`, `next` the watermark or map before and during a poll; `cp` the saved checkpoint; `copies`, `ever`, `missed` history |
| `Listener` | `mqtt`, `postgres`, `webhook` | `at` is the position in `Run`; `session`, `qos` mqtt's options in effect; `up`, `subs`, `queue` the connection as broker or database sees it; `failed` the topics whose subscription failed |
| `Connectors` | composes `Poller` and `Listener` | |
| `RateLimit` | `ratelimit.go` | `buckets`, `calls` are the fields, with ages for times; `credit` is the textbook bucket |
| `Streams` | `stream` in `httpapi/connectors.go`, the router's timeout | `handler[c]` is the position in the handler, with its deferred calls; `streamCount` the counter |
| `Sessions` | `auth.go`, `oidc.go`, `oidc_handler.go` | `session`, `flow` are the browser's cookies; `tab[t]` a round trip, through the steps of `CallbackHandler` and `publicKey`; `cache`, `fetched` the provider's keys as the server has them |
| `LiveStream` | `useLiveStream.ts`, with the server as its client sees it | `sock[e]`, `due`, `frame` are the closure of effect `e`; `size`, `wanted`, `replay` the hook's options, chosen anew whenever the effect is run again; `buf`, `shown`, `connected` refs and state; `overflow`, `others`, `missed` history of what was not received |
| `Http` | composes `Sessions`, `RateLimit`, `Streams`, `LiveStream` | |
| `ObjectStore` | `object/local.go` | `put[p]` is the position in `Put`; `temps`, `entry` the directory; `synced`, `past` what a crash may leave of data and names |
| `RowGroups` | `parquet/writer.go` | `bldr`, `pendingRows`, `writing` are the fields; `groups`, `footer` the file |
| `Snapshots` | `iceberg/snapshot.go` | metadata is a struct whose list is an array on the heap (`arrays`) and a length; the catalog is external |
| `Storage` | composes `Ingest`, `ObjectStore`, `RowGroups`, `Snapshots` | |
| `BusProofs`, `IngestProofs`, `StorageProofs` | theorems about `Bus`, `Ingest`, `Storage` | `IngestProofs` contains `BusProofs` by `INSTANCE` |
| `RuntimeProofs`, `DispatcherProofs`, `AlertEngineProofs` | theorems about `Runtime`, `DeadLetters`, `AlertEngine` | |
| `ConnectorsProofs`, `HttpProofs` | theorems about `Connectors`, `Http` | |

An operator named like another one with a suffix (`RingAppendLate`, `StopTimeoutUnlists`, ...) is a variant with
a plausible slip; each shows that some property would notice. They are no part of any specification.

`Connectors`, `Http` and `Storage` compose parts that share no state, or only the bus and the store under keys of
their own. A property of one part that fails in an interleaving of all fails in the behaviour of that part alone, so
in each behaviour one part moves and the others rest; the state spaces add up instead of multiplying. Where parts do
interact they are composed in full: `Ingest` over `Bus`, `AlertEngine` over `Dispatcher`, `DeadLetters` over
`Dispatcher`.

Data is abstract throughout: a record is a publisher and a number, a filter a set of records, a rule's matching a
constant relation, time a small number of ticks. `Bus` takes the numbers of sends a publisher has still to make in any
order because Go's map iteration has none. An item of a feed is a site, a time, a level and whether it parses; each
connector's key is modelled as it sorts, text included: `nasafirms` compares times without leading zeros as text. The
feed may list an item again after it has retired it, as a stale copy does; one response lists no item and no alert
twice. The hook's connector is the set of records its filter lets through. A line of the dead-letter file is the
sequence of rows, whole or cut, written to it.

## 3. Runs

| Run | Question | Bounds, and why they suffice |
|---|---|---|
| `bus` | order, at-most-once, no silent loss, `Recent`, `Publish` returns | 2 publishers × 2 subscriptions, ring 2, channels 1, 3 records: eviction, overflow, replays that do not fit, and overlaps of all calls occur |
| `ingest` | batches partition what the writer took; every loss has a cause; orderly shutdown; `RecordLog` is implemented; flush and stop; objects, rows and metadata are sound | a connector, a request and a stream, of the last two one per behaviour, 2 records, channels 1, batch 2: overflow, flush by size, ticker and shutdown, failed writes, a stream closing under a `Publish`, every timeout; 2 bodies of 2 pieces, 2 keys, a crash; 5 rows in groups of 2, so that groups fail before, between and after others; 2 committers, 4 commits |
| `runtime` | one listed supervisor per id, final stop, the cap of the backoff, `Stop` returns | 2 ids (one push), 2 callers, 2 instance objects, 3 restarts: an id is restarted after a stop; the delay passes 1, 2 and the cap 3 |
| `dispatcher` | one fate per delivery, attempts exhausted, `Dispatch` returns, accepted dead letters are listed | 3 alerts × 1 notifier × 2 attempts, 2 faults of the store or restarts, a ring of 1: three rows are the fewest with one torn, one glued to it and one whole (notifiers never interact but through the store) |
| `connectors` | no repetition in a life, repetition and skips only for a cause, the watermark never goes back, messages lost only with a connection, topics subscribed again, a cancelled `Run` returns | 5 kinds over 3 to 5 items of 2 sites, of which the feed lists 2, each as often as it likes, 2 lives, 1 retry, a map trimmed at 1; 3 kinds of listeners over 2 topics and 2 messages, with and without a session, at QoS 0 and above. Two items are enough for one to overtake the other, two lives for a checkpoint to be read |
| `http` | logins, limiter, streams, the live view | 2 tabs, 2 keys, 2 lives, clock to 2 with every limit at 1: each limit can be met and passed; 2 addresses, 2 requests a minute of 3 ticks, a collection every 3 calls; 3 clients for 2 places; 3 sockets over 2 effects, each with all 3 records or 2 of them, 1 or 2 shown, with or without replay; ring 2 over channels of 1, so that replays do not fit and gaps occur |
| `alerts` | alerts a window apart, no unfounded suppression, alerts settle, the engine ends | 2 rules, 2 alerts, window 2 of 2 ticks, the clock moving within an evaluation, inserts that fail, the end of the process anywhere; one delivery attempt (retries are `dispatcher`'s) |
| `bus_close` | refutes "After Close, publishing must not panic" (`bus_test.go:132`) | as `bus` |
| `drain` | refutes "guaranteed to reach the writer" (`writer.go:46`) | 2 connectors, no requests and no streams |
| `early` | refutes "subscribes before connectors start" (`main.go:87`) | as `drain` |
| `dispatch_cancel` | refutes "succeeded or been dead-lettered" (`notify.go:118`) | 2 alerts × 2 notifiers × 2 attempts, a store without faults |
| `push_handlers` | refutes "or nil if the instance ... doesn't exist" (`runtime.go:137`) | as `runtime` |

What the last five show is in `findings` of `PROJECT.json`. Further remarks that are not counted as findings:
`WriterConfig.SubscribeQueue` is read nowhere (the bus's 64 applies), the comment of `Writer` names a `Dropped()`
it does not have, `StateFailed` is tested by `/readyz` but never set, an instance that ended by itself can never be
started again under its id, and an error wrapping `context.DeadlineExceeded` ends an instance instead of
restarting it.

Remarks from the later modules, which the properties state as exceptions or do not touch:

- `usgswater` keeps one watermark over site, variable and time, so a new reading of a smaller site is passed over once
  a larger site was published; `nasafirms` compares "930" and "1200" as text; `noaaweather` passes over an alert
  revised under its old id and sent time. `SkippedOnlyBehind` is worded to allow exactly this. A revised earthquake
  with the same time is never published again; `openaq` loses what its limit cuts off and readings that tie with the
  watermark.
- `noaaweather` compares an alert with the last version published only. A stale response that lists an older version
  again makes it publish that one again, and the newer one after it: `NoRepeatInALife` says so.
- `noaaweather` trims "at 5000" by a loop that stops half way, so the map exceeds 5000 when a poll brings enough.
- `nasafirms` says it will check for its key periodically and instead waits for its context.
- `mqtt` does not retry a subscription that failed until the connection is lost. "QoS ... Default 1 (at least once)"
  (`mqtt/connector.go:36`, and the schema): `applyDefaults` leaves an absent `qos` at 0, so that even a kept session
  loses messages with its connection. A sender's QoS of 0 has the same effect; `qos` stands for the lower of the two.
- If `InsertAlert` fails, the alert is dispatched all the same and its repeats are suppressed for a window, though the
  table lacks it. `main` waits for the engine but for no `Dispatch`: deliveries under way end with the process, without
  a dead letter.
- A WebSocket stream that ends closes its channel like any other subscription and can panic a `Publish` at any time,
  in an orderly shutdown too; the record may then miss the writer (`EveryLossHasACause` names the cause) and the
  engine. The streams of `Ingest` have no filter by connector, which could only spare them records.
- "Crash-safe (each row is one fsynced line)" (`deadletter.go`): a torn line also swallows the next accepted row.
- A ring of 256 replayed into a channel of 64 keeps its *oldest* 64 records: a page that reconnects under load gets
  old records and then a gap. `GapsHaveCause` counts these as overflow.
- After a change of options the hook keeps the records of the old connector, may have cancelled the frame that would
  have shown the last of them, trims to a lower `bufferSize` only with the next record, and shows "disconnected" if
  the old socket's close event comes late. Its buffer is trimmed in an animation frame only, which a hidden tab does
  not get.
- A stream ends after the router's 30 seconds, whatever "holds the connection open" says, and a `Ping` without a
  reader waits until then. Every limiter exists twice, as the routes are mounted twice; `Retry-After` is truncated to
  whole seconds.
- A completed login clears the flow cookie of a later one in another tab. Without discovery at start-up there is no
  OpenID login until the next restart.
- `List` of the object store yields the temporary file of a `Put` under way, or one that a crash has left, as an
  object; the directory is never synced, so a crash may undo a `Put` that returned nil.
- A failed row group loses its rows (that the Parquet library's file writer takes further groups after a failed
  `Write` is assumed, as nothing in `writer.go` shows or forbids it), and a `Close` whose last row group fails writes
  no footer, which costs the file.

`CHECK_DEADLOCK FALSE` is set everywhere: every model really stops when its bounded input is used up or the process
has ended. `MaxPublish`, `MaxLog`, `MaxVisits`, `MaxInst`, `MaxRestarts`, `MaxAlerts`, `MaxFaults`, `MaxTime`,
`MaxPosts`, `MaxLives`, `MaxMessages`, `MaxKeys`, `Backlog`, `MaxRecords`, `MaxEffects`, `MaxSockets`, `MaxCrashes`,
`MaxRows` and `MaxArrays` are bounds of the models and stand in the guard of the actions they bound.

`MCRuntime.cfg` sets `OverlappingStops = FALSE`: the server calls `StopAll` once and nothing else calls `Stop`.
With `TRUE`, `ListedWhileLive` fails: of two Stops of an id, the second unlists a successor started in between.

## 4. Fairness

- `Bus`: a `Publish` past its critical section is a runnable goroutine whose sends never wait. Nothing is assumed
  of subscribers, so `PublishReturns` holds for subscribers that never read.
- `Ingest`: the writer's goroutine runs, its ticker fires again and again, and `Write` returns because it has a
  ten-second context. Connectors, requests, streams, engine and signal owe nothing. The process may end first,
  which the two liveness properties allow.
- `Runtime`: supervisors and `Stop` run, timers fire, and a `Run` whose context is cancelled returns, which
  `sdk.Connector` demands of every connector. A `Run` that is not cancelled may go on for ever.
- `Dispatcher`, `AlertEngine`: `Deliver` returns, since its HTTP client has a timeout; timers fire. The engine's
  `select` chooses at random among ready cases, hence strong fairness for its `ctx.Done` case; the writer's needs no
  more than weak fairness here because its input is bounded. The end of the process is owed by nobody and excuses
  deliveries.
- `DeadLetters`: as `Dispatcher`, for every delivery while its process lives.
- `Poller`: a request has a timeout and timers fire, hence weak fairness of `Run`; `select` chooses at random between
  its ticker and its context, hence strong fairness for returning.
- `Listener`: the same for its own steps, and the other side accepts a connection that is tried again and again, and
  a subscription on ever new connections (strong fairness of `Dials` and `SubscribesTo`). Nothing says that
  connections stay up: `Rejoins` only asks to be connected again and again.
- `Streams`: time passes, a handler runs, and what its context's end makes it do happens; a client need never read
  and a broken connection need never be noticed.
- `RateLimit`, `Sessions`, `LiveStream`, `ObjectStore`, `RowGroups`, `Snapshots`: safety only, no fairness.

## 5. Proofs

Every invariant and every action property of the passing runs, and the refinement of `RecordLog`, is a theorem about
the specification its run checks. The theorems hold for every value of the constants that the modules' named
assumptions allow: sizes, limits and time-outs of any value (non-positive arguments included, where the code clamps
them), any bounds, any sets of publishers, ids, notifiers, tabs or clients. The assumptions that say more than that a
number is a number:

- `RuntimeAssumption`: there is an id, push ids are ids, `BaseDelay <= MaxDelay`.
- `AlertEngineAssumption`: finitely many rules. `RateLimitAssumption`: `GcAge >= Minute` (five and one minutes in the
  code; with less, collecting an idle bucket would give tokens away). `LiveStreamAssumption`, `SessionsAssumption`,
  `PollerAssumption`: at least one effect, one key, one life; buffer sizes and the records of a filter are numbers.
- `PollerAssumption`: items and configurations are records with fields of the right kinds, a site is one digit and a
  time is at most 2359, which is what the text keys of `nasafirms` depend on; the trim keeps at most what the map may
  hold.
- `ListedInvariant` alone has a hypothesis, `~OverlappingStops` (see section 3); the theorem is false without it.

| Theorem | States | Why it is not inductive as it stands, and what is added |
|---|---|---|
| `BusProofs!TypeCorrect` | `TypeOK` | one lemma per operator used: what `Subscribe` replays is an increasing selection of the ring that fits the channel (`ReplayShape`) |
| `BusProofs!OrderPreserved` | `InOrderAtMostOnce` | a channel in order does not say that what is still to be sent is newer: the ring and `sent` hold only records up to each publisher's `count`, a publisher with `s` pending has not put its record into `sent[s]`, the ring is in order |
| `BusProofs!LossesCounted` | `NoSilentLoss` | each record of the log since a subscription is related to its publisher: older ones are settled, the current one is settled or in flight (`PublishAccounts`, `DeliverAccounts`) |
| `BusProofs!RecentCorrect` | `RecentIsLatest` | inductive with the types |
| `RuntimeProofs!TypeCorrect` | `TypeOK` | a crash that is waited out was within the bound |
| `RuntimeProofs!StoppedFinal` | `StoppedIsFinal` | "stopped" is set only on the way out; an object under construction has no supervisor |
| `RuntimeProofs!ListedInvariant` | `ListedWhileLive` | `ListInv`: an id's entry names a made object of that id, a `Start` building a handler holds its id's entry, what a `Stop` is about to unlist is the object it looked up once that has ended, and there is one stopper |
| `IngestProofs!TypeCorrect` | `TypeOK` | places of `main`, writer and engine determine who is subscribed; a request that has published is active |
| `IngestProofs!ShutdownInOrder` | `OrderlyShutdown` | `Process`: without a timeout the place of `main` says who has ended (`Cancelling`), writer and engine close their channels only after the cancellation (`Subscribed`), and a publisher in `Publish` is a running connector or a request in its handler (`PublishersRun`) |
| `IngestProofs!BatchesAddUp` | `BatchesPartition` | what was received is what was sent to the writer less what is in its channel; the batch is the end of it; `stored` and `failed` partition the rest, in order |
| `IngestProofs!LossesExplained` | `EveryLossHasACause` | uses the bus's own invariant through `INSTANCE BusProofs`: a record of the log is received, queued, in flight, dropped or older than the subscription |
| `IngestProofs!RefinesRecordLog` | `ImplementsRecordLog` | initial states map to initial states, and each action to a step or a stutter: a flush to `Store` of a whole batch, anything else to `Publish`, `Lose` or nothing |
| `StorageProofs!LakeIsSound` | `LakeSound` | a file that was ever under a key is whole and durable (`Durable`); a `Put` about to rename has synced its data (`UnderWay`); the rows of groups and builder together are in order (`RowsInv`); metadata held by a committer lists a prefix of what was accepted (`TableInv`) |
| `DispatcherProofs!TypeCorrect`, `EveryDeliveryHasOneFate` | `TypeOK`, `OneFate` | `FateOf` per delivery: what is counted has returned, what is on its way to the dead letters has a reason |
| `DispatcherProofs!AcceptedRowsKept` | `LossesAccounted` | what the file has lost is bounded by torn writes, a piece at the tail counted; what the ring has lost by its limit |
| `AlertEngineProofs!TypeCorrect` | `TypeOK` | the alerts reserved by a `Receive` cover the evaluation under way |
| `AlertEngineProofs!RepeatsAreSpaced`, `SuppressionHasCause` | `AlertsSpaced`, `SuppressedByAlert` | an alert younger than the window is in the dedupe map (`Noted`), and what the map holds is the time of an alert of its key (`Origin`) |
| `ConnectorsProofs!TypeCorrect` | `TypeOK` | defaults and minima make every ticker period positive |
| `ConnectorsProofs!NothingRepeats`, `SkipsAreBehind` | `NoRepeatInALife`, `SkippedOnlyBehind` | `PollInv`: what was published in this life is covered by the memory polls compare with, or was replaced there by another version or trimmed, which resets its count (`Once`); memory and checkpoint hold only what was published (`Memory`), and in a life that could load it the memory is not behind the checkpoint (`Known`). Needs that `FiresKey`, text and all, is a natural number and orders items |
| `ConnectorsProofs!RepeatsAreUnsaved`, `WatermarkNeverFalls` | `RepeatMeansUnsaved`, `CheckpointAdvances` | action properties, from `PollInv` and a case per step of `Run` |
| `ConnectorsProofs!MessagesAccounted` | `LostOnlyWithConnection` | a message is in one of four places through every step of library and broker, redelivery included; a session at a QoS above 0 takes no step that loses; while `postgres` listens, every channel is subscribed to or still to be |
| `HttpProofs!LimitIsExact` | `LimitExact` | the level of a bucket is the textbook credit; a refill is linear up to the brim (`RefillTick`), and an age past the collection limit means a full bucket (`OldIsFull`) |
| `HttpProofs!StreamsAreCounted` | `StreamsCounted` | the counter is the cardinality of the handlers that hold it |
| `HttpProofs!LoginsAreSound` | `LoginsSound` | when a key was fetched and withdrawn (`Keys`), what the cookies of a life say (`Cookies`), and why each round trip stands where it does (`Trip`) |
| `HttpProofs!LiveViewIsSound` | `LiveViewSound` | what a channel brings is new to its socket (`Channel`), a socket without a channel has brought nothing (`Unread`), and every record published is received, overflowed, kept back by a filter, older than a subscription could give, or still in the channel (`Gaps`) |

TLC finds each strengthened invariant true on the instance of the component's run (a module that extends the `MC` module
and the proof module, with the strengthening as the INVARIANT). Two weaknesses of the models came to light in the
attempt. `SkippedOnlyBehind` excluded `noaaweather`, which does pass over a revised alert under its old sent time: it
now says so, and `MCConnectors` has such an alert. `WebhookAnswers` removed a request by its value, which is no
statement about the requests beside it: it removes one place of the queue.

Only model-checked, since liveness under fairness and `ENABLED` are beyond the prover: `PublishReturns`,
`BatchFlushed`, `WriterStops`, `CancelledEnds`, `StopReturns`, `DispatchReturns`, `AlertsSettle`, `EngineStops`,
`Rejoins`, `CancelledReturns` and `StreamEnds`; and that the five refuted statements fail, which takes a behaviour
and not a proof. `Connectors`, `Http` and `Storage` are proved as composed: each part has its invariant, and the
others rest while it moves.

## 6. Not modelled

See `components` in `PROJECT.json`. Read-only handlers, the query and export endpoints, configuration parsing,
rendering and deployment files have no behaviour of the kind a state machine could get wrong; rules and alerts are
created and changed by single statements whose atomicity is the database's. The command-line client is sequential.
A start-up error makes `main` exit before any of the behaviour modelled. What the notified party saw, what feeds,
brokers, databases, browsers and OpenID providers do, and the SQL are external. Cryptography is abstract: a cookie
says which life of the server signed it. Partition transforms and schemas of the table format are pure tables.

The lake (object store, Parquet, metadata) has no caller in the server yet; its modules model the operations against
any caller, and `Snapshots` the compare-and-swap that the comment of `Commit` expects of one. Keys are those of one
directory, listed whole, so the prefix logic of `List` over a tree is left out.

## 7. Plan

1. The refinement of more of `Ingest` and `Listener` by abstract specifications like `RecordLog`, with their proofs:
   a per-subscription queue for `Bus`, a lossy link for `Listener`.
2. What the liveness properties rest on and can be proved: that no step makes a finished `Stop`, `Dispatch` or
   handler unfinished, and the measures that fall with each fair step.
3. The client's `migrate`, and the CRUD of alert rules against the engine's reload.
