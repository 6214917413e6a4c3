-------------------------------- MODULE Bus --------------------------------
(***************************************************************************)
(* The in-process record bus of the server (internal/bus).                 *)
(*                                                                         *)
(* Publishers are goroutines that call Bus.Publish; Subscribers are the    *)
(* handles Bus.Subscribe can return, each used for one subscription.  A    *)
(* Publish has one critical section (ring append and copy of the           *)
(* subscription map) and then, outside the lock, one non-blocking send per *)
(* subscription of the copy, in no particular order: Go randomises map     *)
(* iteration.  Subscribe and Close are each one critical section.          *)
(***************************************************************************)
EXTENDS Integers, Sequences, FiniteSets

CONSTANTS
  Publishers,   \* goroutines that publish
  Subscribers,  \* subscription handles, one per Subscribe call
  RingArg,      \* New's ringSize argument
  BufferArg,    \* New's subBuffer argument
  MaxPublish,   \* bound: Publish calls of each publisher
  MaxLog,       \* bound: Publish calls of all publishers together
  Filters       \* the filters a subscriber may pass, as sets of records

\* The n-th record a publisher publishes.
Records == [src : Publishers, seq : 1 .. MaxPublish]

ASSUME BusAssumption ==
  /\ RingArg \in Int
  /\ BufferArg \in Int
  /\ MaxPublish \in Nat
  /\ MaxLog \in Nat
  /\ Filters \subseteq SUBSET Records

\* New clamps its arguments.
RingSize == IF RingArg < 0 THEN 0 ELSE RingArg
SubBuffer == IF BufferArg <= 0 THEN 64 ELSE BufferArg

VARIABLES
  subs,       \* registered subscriptions (the keys of Bus.subs)
  closed,     \* subscriptions whose channel Close has closed
  ring,       \* Bus.ring, newest last
  filter,     \* Subscription.Filter: the records it accepts
  ch,         \* Subscription.ch, the buffered channel
  dropped,    \* records counted by Subscription.dropped
  pending,    \* the part of its copy of subs a publisher has still to serve
  count,      \* number of Publish calls each publisher has begun
  log,        \* history: every published record, in critical-section order
  since,      \* history: length of log when the subscription was made
  sent,       \* history: everything ever put into the channel, in order
  panicked    \* history: records whose Publish panicked

busVars == <<subs, closed, ring, filter, ch, dropped, pending, count>>
histVars == <<log, since, sent, panicked>>
vars == <<busVars, histVars>>

-----------------------------------------------------------------------------
\* The record publisher p is delivering.
Current(p) == [src |-> p, seq |-> count[p]]

\* Whether Publish of p is past its critical section with sends left to do.
Publishing(p) == pending[p] # {}

Init ==
  /\ subs = {} /\ closed = {} /\ ring = <<>>
  /\ filter = [s \in Subscribers |-> {}]
  /\ ch = [s \in Subscribers |-> <<>>]
  /\ dropped = [s \in Subscribers |-> {}]
  /\ pending = [p \in Publishers |-> {}]
  /\ count = [p \in Publishers |-> 0]
  /\ log = <<>> /\ panicked = {}
  /\ since = [s \in Subscribers |-> 0]
  /\ sent = [s \in Subscribers |-> <<>>]

\* A plausible slip in the eviction test: the ring grows one too long.
RingAppendLate(r) ==
  IF RingSize = 0 THEN ring
  ELSE Append(IF Len(ring) > RingSize THEN Tail(ring) ELSE ring, r)

\* The ring after r is appended: the oldest record leaves a full ring.
RingAppend(r) ==
  IF RingSize = 0 THEN ring
  ELSE Append(IF Len(ring) >= RingSize THEN Tail(ring) ELSE ring, r)

\* Publish, under the lock.
PublishLock(p) ==
  LET r == [src |-> p, seq |-> count[p] + 1] IN
  /\ ~Publishing(p)
  /\ count[p] < MaxPublish /\ Len(log) < MaxLog
  /\ count' = [count EXCEPT ![p] = @ + 1]
  /\ ring' = RingAppend(r)
  /\ pending' = [pending EXCEPT ![p] = subs]
  /\ log' = Append(log, r)
  /\ UNCHANGED <<subs, closed, filter, ch, dropped, since, sent, panicked>>

\* Publish, after the lock: the filter of s rejects the record.
FilterOut(p, s) ==
  /\ s \in pending[p]
  /\ Current(p) \notin filter[s]
  /\ pending' = [pending EXCEPT ![p] = @ \ {s}]
  /\ UNCHANGED <<subs, closed, ring, filter, ch, dropped, count, histVars>>

\* A send that does not look at the room left.
SendUnbounded(p, s) ==
  /\ s \in pending[p] /\ s \notin closed
  /\ Current(p) \in filter[s]
  /\ pending' = [pending EXCEPT ![p] = @ \ {s}]
  /\ ch' = [ch EXCEPT ![s] = Append(@, Current(p))]
  /\ sent' = [sent EXCEPT ![s] = Append(@, Current(p))]
  /\ UNCHANGED <<subs, closed, ring, filter, dropped, count, log, since, panicked>>

\* The send case of the select: the channel has room.
Send(p, s) ==
  /\ s \in pending[p] /\ s \notin closed
  /\ Current(p) \in filter[s]
  /\ Len(ch[s]) < SubBuffer
  /\ pending' = [pending EXCEPT ![p] = @ \ {s}]
  /\ ch' = [ch EXCEPT ![s] = Append(@, Current(p))]
  /\ sent' = [sent EXCEPT ![s] = Append(@, Current(p))]
  /\ UNCHANGED <<subs, closed, ring, filter, dropped, count, log, since, panicked>>

\* A drop that forgets dropped.Add.
DropUncounted(p, s) ==
  /\ s \in pending[p] /\ s \notin closed
  /\ Current(p) \in filter[s]
  /\ Len(ch[s]) >= SubBuffer
  /\ pending' = [pending EXCEPT ![p] = @ \ {s}]
  /\ UNCHANGED <<subs, closed, ring, filter, ch, dropped, count, histVars>>

\* A send without a default case: the publisher waits for room.
DropNever(p, s) == FALSE /\ Current(p) \in filter[s] /\ UNCHANGED vars

\* The default case: the channel is full, the record is dropped and counted.
Drop(p, s) ==
  /\ s \in pending[p] /\ s \notin closed
  /\ Current(p) \in filter[s]
  /\ Len(ch[s]) >= SubBuffer
  /\ pending' = [pending EXCEPT ![p] = @ \ {s}]
  /\ dropped' = [dropped EXCEPT ![s] = @ \cup {Current(p)}]
  /\ UNCHANGED <<subs, closed, ring, filter, ch, count, histVars>>

\* The copy still holds s but Close has closed its channel meanwhile: a send
\* on a closed channel panics, select or not, and Publish never serves the
\* rest of its copy.  The caller recovers (runtime.go runOnce does for pull
\* connectors) and may publish again.
SendOnClosed(p, s) ==
  /\ s \in pending[p] /\ s \in closed
  /\ Current(p) \in filter[s]
  /\ pending' = [pending EXCEPT ![p] = {}]
  /\ panicked' = panicked \cup {Current(p)}
  /\ UNCHANGED <<subs, closed, ring, filter, ch, dropped, count, log, since, sent>>

\* One iteration of Publish's delivery loop.
Deliver(p, s) ==
  \/ FilterOut(p, s)
  \/ Send(p, s)
  \/ Drop(p, s)
  \/ SendOnClosed(p, s)

-----------------------------------------------------------------------------
\* The positions of the ring that Subscribe copies into a new channel: the
\* oldest matches, in ring order, as many as the channel holds.
ReplayPositions(f, replayRing) ==
  LET hits == IF replayRing THEN {i \in DOMAIN ring : ring[i] \in f} ELSE {}
      n == Cardinality(hits)
      k == IF n < SubBuffer THEN n ELSE SubBuffer
  IN {pos \in [1 .. k -> hits] :
        /\ \A i, j \in 1 .. k : i < j => pos[i] < pos[j]
        /\ \A h \in hits : \A i \in 1 .. k :
             h < pos[i] => \E j \in 1 .. k : pos[j] = h}

\* Registering in the copies publishers are iterating as well, as a Publish
\* that ranges over the map itself would.
SubscribeLive(s, f, replayRing) ==
  /\ s \notin subs \cup closed
  /\ subs' = subs \cup {s}
  /\ filter' = [filter EXCEPT ![s] = f]
  /\ since' = [since EXCEPT ![s] = Len(log)]
  /\ \E pos \in ReplayPositions(f, replayRing) :
       LET replay == [i \in DOMAIN pos |-> ring[pos[i]]] IN
       /\ ch' = [ch EXCEPT ![s] = replay]
       /\ sent' = [sent EXCEPT ![s] = replay]
  /\ pending' = [p \in Publishers |->
                   IF Publishing(p) THEN pending[p] \cup {s} ELSE {}]
  /\ UNCHANGED <<closed, ring, dropped, count, log, panicked>>

\* Subscribe, all of it under the lock.
Subscribe(s, f, replayRing) ==
  /\ s \notin subs \cup closed
  /\ subs' = subs \cup {s}
  /\ filter' = [filter EXCEPT ![s] = f]
  /\ since' = [since EXCEPT ![s] = Len(log)]
  /\ \E pos \in ReplayPositions(f, replayRing) :
       LET replay == [i \in DOMAIN pos |-> ring[pos[i]]] IN
       /\ ch' = [ch EXCEPT ![s] = replay]
       /\ sent' = [sent EXCEPT ![s] = replay]
  /\ UNCHANGED <<closed, ring, dropped, pending, count, log, panicked>>

\* Subscription.Close; a second call finds s unregistered and does nothing.
Close(s) ==
  /\ s \in subs
  /\ subs' = subs \ {s}
  /\ closed' = closed \cup {s}
  /\ UNCHANGED <<ring, filter, ch, dropped, pending, count, histVars>>

\* The subscriber receives from C(); a closed channel can still be drained.
Receive(s) ==
  /\ ch[s] # <<>>
  /\ ch' = [ch EXCEPT ![s] = Tail(@)]
  /\ UNCHANGED <<subs, closed, ring, filter, dropped, pending, count, histVars>>

\* Bus.Recent: a copy of the ring.
Recent == ring

Next ==
  \/ \E p \in Publishers : PublishLock(p)
  \/ \E p \in Publishers, s \in Subscribers : Deliver(p, s)
  \/ \E s \in Subscribers, f \in Filters, replayRing \in BOOLEAN :
       Subscribe(s, f, replayRing)
  \/ \E s \in Subscribers : Close(s) \/ Receive(s)

\* A publisher inside Publish is a runnable goroutine: the Go scheduler runs
\* it.  Nothing is assumed of subscribers, which may stop receiving for good.
Fairness ==
  \A p \in Publishers : WF_vars(\E s \in Subscribers : Deliver(p, s))

Spec == Init /\ [][Next]_vars /\ Fairness

-----------------------------------------------------------------------------
(***************************************************************************)
(* Properties                                                              *)
(***************************************************************************)

\* The type of every variable; channels never exceed their capacity, and no
\* subscription is both registered and closed.
TypeOK ==
  /\ subs \subseteq Subscribers
  /\ closed \subseteq Subscribers
  /\ subs \cap closed = {}
  /\ ring \in Seq(Records)
  /\ filter \in [Subscribers -> SUBSET Records]
  /\ ch \in [Subscribers -> Seq(Records)]
  /\ \A s \in Subscribers : Len(ch[s]) <= SubBuffer
  /\ dropped \in [Subscribers -> SUBSET Records]
  /\ pending \in [Publishers -> SUBSET Subscribers]
  /\ count \in [Publishers -> 0 .. MaxPublish]
  /\ log \in Seq(Records)
  /\ since \in [Subscribers -> Nat]
  /\ sent \in [Subscribers -> Seq(Records)]
  /\ panicked \subseteq Records

\* What a channel is handed, replay and live records together, never repeats
\* a record and keeps the publishing order of each publisher, whatever
\* Publish, Subscribe and Close calls overlap: the ring append and the copy
\* of the map share one critical section (bus.go Publish, Subscribe).
InOrderAtMostOnce ==
  \A s \in Subscribers : \A i, j \in 1 .. Len(sent[s]) :
    (i < j /\ sent[s][i].src = sent[s][j].src)
      => sent[s][i].seq < sent[s][j].seq

\* The records a subscription has been handed.
Handed(s) == {sent[s][i] : i \in 1 .. Len(sent[s])}

\* r is still to be delivered to s by the Publish that carries it.
InFlight(r, s) == r = Current(r.src) /\ s \in pending[r.src]

\* r is on its way to s, or was put into its channel, or was counted by its
\* Dropped(), and no two of these; or the Publish that carried it panicked.
Accounted(r, s) ==
  /\ r \in Handed(s) \/ r \in dropped[s] \/ InFlight(r, s) \/ r \in panicked
  /\ ~(r \in Handed(s) /\ r \in dropped[s])
  /\ InFlight(r, s) => r \notin Handed(s) \cup dropped[s]

\* A registered subscriber loses no record silently: every record published
\* since Subscribe that its filter accepts is accounted for, however Publish
\* calls overlap with its reads and with other subscriptions closing
\* (bus.go Publish, subscription.go Dropped).
NoSilentLoss ==
  \A s \in subs : \A i \in since[s] + 1 .. Len(log) :
    log[i] \in filter[s] => Accounted(log[i], s)

\* How many records Recent returns.
Kept == IF Len(log) < RingSize THEN Len(log) ELSE RingSize

\* Recent returns exactly the latest records, newest last, as many as the
\* ring retains, in the order of the critical sections (bus.go Recent).
RecentIsLatest ==
  /\ Len(Recent) = Kept
  /\ \A i \in 1 .. Kept : Recent[i] = log[Len(log) - Kept + i]

\* A Publish returns whatever its subscribers do: "Slow subscribers drop
\* records rather than block the publisher" (bus.go Publish).
PublishReturns ==
  \A p \in Publishers : Publishing(p) ~> ~Publishing(p)

\* "After Close, publishing must not panic" (bus_test.go,
\* TestBusUnsubscribedDoesNotReceive).
CloseNeverPanicsPublish == panicked = {}

=============================================================================
