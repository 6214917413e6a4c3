------------------------------ MODULE Streams ------------------------------
(***************************************************************************)
(* The WebSocket endpoint that tails the bus (internal/httpapi/            *)
(* connectors.go stream), under the request timeout of the router          *)
(* (router.go NewRouter).                                                  *)
(*                                                                         *)
(* A handler counts itself before it compares with the cap, so a request   *)
(* on its way to a refusal is counted too.  The deferred calls run in the  *)
(* reverse order: the subscription is closed, then the connection, which   *)
(* may wait for the peer, and the count is given back last.                *)
(*                                                                         *)
(* The WebSocket library is external.  A Ping is answered only through a   *)
(* reader, and the handler has none: it waits until its context ends.      *)
(***************************************************************************)
EXTENDS Integers, FiniteSets

CONSTANTS
  Clients,    \* requests under way at a time
  MaxStreams, \* MaxStreamConnections
  PingEvery,  \* the ping ticker's period, in ticks
  Timeout,    \* the router's request timeout, in ticks
  Backlog     \* bound: records in the channel of a subscription

ASSUME StreamsAssumption ==
  /\ MaxStreams \in Nat /\ Backlog \in Nat
  /\ PingEvery \in Nat \ {0} /\ Timeout \in Nat \ {0}

VARIABLES
  handler,     \* where the handler of a client is
  age,         \* ticks since its request came in
  streamCount, \* streamCount
  subscribed,  \* clients with a subscription on the bus
  backlog      \* records in its channel

streamVars == <<handler, age, streamCount, subscribed, backlog>>

\* The places of a handler that has a connection, that has passed the cap,
\* that is counted.
Upgraded == {"loop", "writing", "pinging", "closing"}
Passed == Upgraded \cup {"accepting", "leaving"}
Counted == Passed \cup {"refusing"}

StreamsInit ==
  /\ handler = [c \in Clients |-> "idle"]
  /\ age = [c \in Clients |-> 0]
  /\ streamCount = 0
  /\ subscribed = {}
  /\ backlog = [c \in Clients |-> 0]

Expired(c) == age[c] >= Timeout

Go(c, place) == handler' = [handler EXCEPT ![c] = place]

-----------------------------------------------------------------------------
\* A request: counted first, then compared with the cap.
Enter(c) ==
  /\ handler[c] = "idle"
  /\ streamCount' = streamCount + 1
  /\ age' = [age EXCEPT ![c] = 0]
  /\ Go(c, IF streamCount + 1 > MaxStreams THEN "refusing" ELSE "accepting")
  /\ UNCHANGED <<subscribed, backlog>>

\* A refusal that leaves its request counted.
RefuseCounted(c) ==
  /\ handler[c] = "refusing"
  /\ Go(c, "idle")
  /\ UNCHANGED <<age, streamCount, subscribed, backlog>>

\* Over the cap: 503.
Refuse(c) ==
  /\ handler[c] = "refusing"
  /\ streamCount' = streamCount - 1
  /\ Go(c, "idle")
  /\ UNCHANGED <<age, subscribed, backlog>>

\* The upgrade fails, or the subscription is made, with the replay in it.
Accept(c) ==
  /\ handler[c] = "accepting"
  /\ UNCHANGED <<age, streamCount>>
  /\ \/ Go(c, "leaving") /\ UNCHANGED <<subscribed, backlog>>
     \/ /\ Go(c, "loop")
        /\ subscribed' = subscribed \cup {c}
        /\ \E n \in 0 .. Backlog : backlog' = [backlog EXCEPT ![c] = n]

\* The select of the loop: its context has ended, ...
ContextDone(c) ==
  /\ handler[c] = "loop" /\ Expired(c)
  /\ Go(c, "closing")
  /\ UNCHANGED <<age, streamCount, subscribed, backlog>>

\* ... or the ticker has fired, ...
PingDue(c) ==
  /\ handler[c] = "loop" /\ age[c] >= PingEvery
  /\ Go(c, "pinging")
  /\ UNCHANGED <<age, streamCount, subscribed, backlog>>

\* ... or there is a record.  Its write waits for a slow client.
TakeRecord(c) ==
  /\ handler[c] = "loop" /\ backlog[c] > 0
  /\ backlog' = [backlog EXCEPT ![c] = @ - 1]
  /\ Go(c, "writing")
  /\ UNCHANGED <<age, streamCount, subscribed>>

Written(c) ==
  /\ handler[c] = "writing"
  /\ Go(c, "loop")
  /\ UNCHANGED <<age, streamCount, subscribed, backlog>>

\* A ping that does not watch the context.
WaitEndsNever(c) ==
  /\ handler[c] = "writing"
  /\ Expired(c)
  /\ Go(c, "closing")
  /\ UNCHANGED <<age, streamCount, subscribed, backlog>>

\* A write or a ping ends with its context, in an error.
WaitEnds(c) ==
  /\ handler[c] \in {"writing", "pinging"}
  /\ Expired(c)
  /\ Go(c, "closing")
  /\ UNCHANGED <<age, streamCount, subscribed, backlog>>

\* The connection breaks under a write or a ping.
PeerGone(c) ==
  /\ handler[c] \in {"writing", "pinging"}
  /\ Go(c, "closing")
  /\ UNCHANGED <<age, streamCount, subscribed, backlog>>

\* The deferred calls: first sub.Close and conn.Close, ...
Unsubscribe(c) ==
  /\ handler[c] = "closing"
  /\ subscribed' = subscribed \ {c}
  /\ backlog' = [backlog EXCEPT ![c] = 0]
  /\ Go(c, "leaving")
  /\ UNCHANGED <<age, streamCount>>

\* ... last the count.
Leave(c) ==
  /\ handler[c] = "leaving"
  /\ streamCount' = streamCount - 1
  /\ Go(c, "idle")
  /\ UNCHANGED <<age, subscribed, backlog>>

\* The bus sends a record to every subscription with room for it.
Publish ==
  /\ \E c \in subscribed : backlog[c] < Backlog
  /\ backlog' = [c \in Clients |->
                   IF c \in subscribed /\ backlog[c] < Backlog
                   THEN backlog[c] + 1 ELSE backlog[c]]
  /\ UNCHANGED <<handler, age, streamCount, subscribed>>

\* Time passes for the requests under way.
StreamsTick ==
  /\ \E c \in Clients : handler[c] # "idle" /\ ~Expired(c)
  /\ age' = [c \in Clients |-> IF handler[c] = "idle" \/ Expired(c)
                               THEN age[c] ELSE age[c] + 1]
  /\ UNCHANGED <<handler, streamCount, subscribed, backlog>>

\* What a handler does unasked.  It may wait for a client for ever to read
\* (Written) and for a broken connection to be noticed (PeerGone).
Work(c) ==
  Refuse(c) \/ Accept(c) \/ PingDue(c) \/ TakeRecord(c) \/ Unsubscribe(c) \/ Leave(c)

\* What the end of its context makes it do.
Expire(c) == ContextDone(c) \/ WaitEnds(c)

StreamsNext ==
  \/ StreamsTick \/ Publish
  \/ \E c \in Clients :
       Enter(c) \/ Work(c) \/ Expire(c) \/ Written(c) \/ PeerGone(c)

\* Handlers run, time passes, and an expired context is not passed over for
\* ever: select picks at random, a write and a ping watch the context.
StreamsFairness ==
  /\ WF_streamVars(StreamsTick)
  /\ \A c \in Clients : WF_streamVars(Work(c)) /\ WF_streamVars(Expire(c))

StreamsSpec == StreamsInit /\ [][StreamsNext]_streamVars /\ StreamsFairness

-----------------------------------------------------------------------------
\* The counter is the number of handlers that have counted themselves and not
\* given the count back, so it returns to zero; no more than the cap of them
\* pass it, though refused requests come and go meanwhile; and a subscription
\* never outlives the handler that reads it (connectors.go stream).
StreamsCounted ==
  /\ streamCount = Cardinality({c \in Clients : handler[c] \in Counted})
  /\ Cardinality({c \in Clients : handler[c] \in Passed}) <= MaxStreams
  /\ subscribed = {c \in Clients : handler[c] \in Upgraded}

\* A stream ends: with its context if not before, whatever its client reads and
\* however many records there are (connectors.go stream, router.go Timeout).
StreamEnds == \A c \in Clients : handler[c] # "idle" ~> handler[c] = "idle"

=============================================================================
