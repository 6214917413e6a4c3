----------------------------- MODULE LiveStream -----------------------------
(***************************************************************************)
(* The browser's live view (apps/web/src/hooks/useLiveStream.ts): a React  *)
(* effect opens a socket on the stream endpoint, opens another one when it *)
(* closes, and shows the latest records in the next animation frame.  When *)
(* an option changes (connector, replay, bufferSize), and once more with   *)
(* the same options in StrictMode, the effect is torn down and run anew    *)
(* over the same buffer; its timer may still be due and its socket may     *)
(* still be closing.                                                       *)
(*                                                                         *)
(* Of the server there is what its client sees: a handler upgrades first   *)
(* and subscribes later, the subscription has a bounded channel and the    *)
(* filter of the page's connector, and with replay it starts with the ring *)
(* (httpapi/connectors.go stream, bus.go).  Records are numbered in the    *)
(* order of the ring, a choice of the connector is the set of records it   *)
(* lets through, and one on its way to the browser counts as still in the  *)
(* channel.                                                                *)
(***************************************************************************)
EXTENDS Integers, Sequences, FiniteSets

CONSTANTS
  Sizes,       \* the values of bufferSize
  Filters,     \* the choices of connector: the records each lets through
  RingSize,    \* the bus's ringSize
  Room,        \* the bus's subBuffer
  MaxRecords, MaxEffects, MaxSockets \* bounds

ASSUME LiveStreamAssumption ==
  /\ Sizes \subseteq Nat /\ Filters \subseteq SUBSET Nat
  /\ {RingSize, Room} \subseteq Nat
  /\ {MaxRecords, MaxSockets} \subseteq Nat /\ MaxEffects \in Nat \ {0}

Effects == 1 .. MaxEffects

VARIABLES
  size, wanted, replay, \* the options bufferSize, connector and replay
  effect,    \* the effect that runs or ran last
  mounted,   \* the component is on the page
  sock,      \* ws of each effect, as its events tell
  due,       \* effects whose timer will call connect
  frame,     \* rafId is set: a flush is scheduled
  buf,       \* buf.current, newest first: records, the sockets that
             \* brought them, and whether those asked for a replay
  shown,     \* the records state
  connected, \* the connected state
  published, \* records published
  chan,      \* the channel of the subscription behind each ws, at most one
  opened,    \* history: sockets made
  received,  \* history: records received
  overflow,  \* history: records that found the channel full
  others,    \* history: records the filter of a subscription kept back
  missed,    \* history: the last record a subscription came too late for
  stale      \* history: a flush was cancelled, or bufferSize lowered below
             \* what is there, and none has run since

clientVars == <<effect, mounted, sock, due, frame, buf, shown, connected, stale>>
options == <<size, wanted, replay>>
serverVars == <<published, chan, overflow, others, missed>>
liveVars == <<options, clientVars, serverVars, opened, received>>

LiveInit ==
  /\ size \in Sizes /\ wanted \in Filters /\ replay \in BOOLEAN
  /\ effect = 1 /\ mounted = TRUE
  /\ sock = [e \in Effects |-> IF e = 1 THEN "connecting" ELSE "none"]
  /\ due = {} /\ frame = FALSE /\ buf = <<>> /\ shown = <<>>
  /\ connected = FALSE
  /\ published = 0 /\ chan = [e \in Effects |-> {}]
  /\ opened = 1 /\ received = {} /\ overflow = {} /\ others = {}
  /\ missed = 0 /\ stale = FALSE

\* The flag of the closure of e.
Stopped(e) == e < effect \/ ~mounted

-----------------------------------------------------------------------------
\* ws.close() in the cleanup: no more messages, but still a close event.
WsClosed(e) ==
  [sock EXCEPT ![e] = IF @ \in {"connecting", "open"} THEN "closing" ELSE @]

\* The cleanup, which leaves a timer due.
Cleanup == frame' = FALSE /\ UNCHANGED <<buf, due>>

Unmount ==
  /\ mounted /\ mounted' = FALSE
  /\ sock' = WsClosed(effect)
  /\ Cleanup /\ stale' = (stale \/ frame)
  /\ UNCHANGED <<options, effect, shown, connected, serverVars, opened, received>>

\* Cleanup and effect again, in one commit, with the options of that render.
Rerun ==
  /\ mounted /\ effect < MaxEffects /\ opened < MaxSockets
  /\ effect' = effect + 1
  /\ sock' = [WsClosed(effect) EXCEPT ![effect + 1] = "connecting"]
  /\ opened' = opened + 1
  /\ size' \in Sizes /\ wanted' \in Filters /\ replay' \in BOOLEAN
  /\ Cleanup /\ stale' = (stale \/ frame \/ Len(buf) > size')
  /\ UNCHANGED <<mounted, shown, connected, serverVars, received>>

\* onopen.
OnOpen(e) ==
  /\ sock[e] = "connecting" /\ sock' = [sock EXCEPT ![e] = "open"]
  /\ connected' = TRUE
  /\ UNCHANGED <<options, effect, mounted, due, frame, buf, shown, stale,
                 serverVars, opened, received>>

\* onmessage.
OnMessage(e) ==
  /\ sock[e] = "open"
  /\ \E q \in chan[e] :
       /\ q # <<>>
       /\ chan' = [chan EXCEPT ![e] = {Tail(q)}]
       /\ buf' = <<[rec |-> Head(q), socket |-> opened, again |-> replay]>> \o buf
       /\ received' = received \cup {Head(q)}
  /\ frame' = TRUE
  /\ UNCHANGED <<options, effect, mounted, sock, due, shown, connected, stale,
                 published, overflow, others, missed, opened>>

\* onerror, and whatever else makes the browser close a socket: nothing more
\* is taken from its channel.
OnError(e) ==
  /\ sock[e] \in {"connecting", "open"} /\ sock' = WsClosed(e)
  /\ chan' = [chan EXCEPT ![e] = {}]
  /\ UNCHANGED <<options, effect, mounted, due, frame, buf, shown, connected,
                 stale, published, overflow, others, missed, opened, received>>

\* onclose: also for a socket that never opened, or that the server closed.
OnClose(e) ==
  /\ sock[e] # "none" /\ sock' = [sock EXCEPT ![e] = "none"]
  /\ connected' = FALSE
  /\ due' = IF Stopped(e) THEN due ELSE due \cup {e}
  /\ chan' = [chan EXCEPT ![e] = {}]
  /\ UNCHANGED <<options, effect, mounted, frame, buf, shown, stale, published,
                 overflow, others, missed, opened, received>>

\* A reconnection that does not ask whether its effect still runs.
ConnectAnyway(e) ==
  /\ e \in due /\ due' = due \ {e}
  /\ opened < MaxSockets /\ opened' = opened + 1
  /\ sock' = [sock EXCEPT ![e] = "connecting"]
  /\ UNCHANGED <<options, effect, mounted, frame, buf, shown, connected, stale,
                 serverVars, received>>

\* connect, when the timer of e fires.
Connect(e) ==
  /\ e \in due /\ due' = due \ {e}
  /\ IF Stopped(e) THEN UNCHANGED <<sock, opened>>
     ELSE /\ opened < MaxSockets /\ opened' = opened + 1
          /\ sock' = [sock EXCEPT ![e] = "connecting"]
  /\ UNCHANGED <<options, effect, mounted, frame, buf, shown, connected, stale,
                 serverVars, received>>

\* flush, in the next animation frame.
Flush ==
  /\ frame /\ frame' = FALSE /\ stale' = FALSE
  /\ buf' = SubSeq(buf, 1, IF Len(buf) > size THEN size ELSE Len(buf))
  /\ shown' = buf'
  /\ UNCHANGED <<options, effect, mounted, sock, due, connected, serverVars,
                 opened, received>>

-----------------------------------------------------------------------------
\* The ring holds the records after Oldest.
Oldest == IF published > RingSize THEN published - RingSize ELSE 0
Ring == Oldest + 1 .. published

\* Its wanted records in their order, the oldest that fit the channel.
Replays ==
  {q \in UNION {[1 .. n -> Ring \cap wanted] : n \in 0 .. Room} :
     /\ \A i, j \in DOMAIN q : i < j => q[i] < q[j]
     /\ \A r \in Ring \cap wanted :
          \/ \E i \in DOMAIN q : q[i] = r
          \/ Len(q) = Room /\ \A i \in DOMAIN q : q[i] < r}

\* The server subscribes, before or after the browser learns of the upgrade.
LiveSubscribe(e) ==
  /\ sock[e] \in {"connecting", "open"} /\ chan[e] = {}
  /\ \E q \in IF replay THEN Replays ELSE {<<>>} :
       /\ chan' = [chan EXCEPT ![e] = {q}]
       /\ overflow' = IF replay
                      THEN overflow \cup {r \in Ring \cap wanted : \A i \in DOMAIN q : q[i] # r}
                      ELSE overflow
  /\ others' = IF replay THEN others \cup (Ring \ wanted) ELSE others
  /\ missed' = IF ~replay THEN published
               ELSE IF Oldest > missed THEN Oldest ELSE missed
  /\ UNCHANGED <<options, clientVars, published, opened, received>>

\* A record for the subscription, if its filter accepts it, or one dropped
\* record more.
LivePublish ==
  /\ published < MaxRecords /\ published' = published + 1
  /\ LET new == published'
         full == \E q \in chan[effect] : Len(q) >= Room
     IN IF new \in wanted
        THEN /\ chan' = [chan EXCEPT ![effect] =
                           {IF Len(q) < Room THEN Append(q, new) ELSE q : q \in @}]
             /\ overflow' = IF full THEN overflow \cup {new} ELSE overflow
             /\ UNCHANGED others
        ELSE /\ others' = IF chan[effect] # {} THEN others \cup {new} ELSE others
             /\ UNCHANGED <<chan, overflow>>
  /\ UNCHANGED <<options, clientVars, missed, opened, received>>

LiveNext ==
  \/ Unmount \/ Rerun \/ Flush \/ LivePublish
  \/ \E e \in Effects :
       \/ OnOpen(e) \/ OnMessage(e) \/ OnError(e) \/ OnClose(e)
       \/ Connect(e) \/ LiveSubscribe(e)

LiveSpec == LiveInit /\ [][LiveNext]_liveVars

-----------------------------------------------------------------------------
\* Timers and close events of torn-down effects notwithstanding, the page has
\* one socket at most, none once the hook is unmounted, and no second one is
\* due while there is one (useLiveStream.ts connect, cleanup).
OneSocket ==
  /\ \A e \in Effects : sock[e] \in {"connecting", "open"} => ~Stopped(e)
  /\ \A e \in due : ~Stopped(e) => sock[e] = "none"

\* "connected" is shown only while a socket is open or its close event on its
\* way; it is missing while one is open only after the options have changed,
\* when the old socket's close came after the new one's open (onclose).
ConnectedMeansOpen ==
  /\ connected => \E e \in Effects : sock[e] \in {"open", "closing"}
  /\ mounted /\ sock[effect] = "open" /\ ~connected => effect > 1

\* Between frames the page shows the buffer, trimmed, unless a change of the
\* options cancelled the frame or lowered the size ("exposes the last N records
\* (newest first)").  A socket's records come in order, those of a later one
\* before; a record is there twice only when two sockets brought it, the later
\* by replay.
ViewFollows ==
  /\ ~frame /\ ~stale => shown = buf /\ Len(buf) <= size
  /\ \A i, j \in 1 .. Len(buf) : i < j =>
       /\ buf[i].socket >= buf[j].socket
       /\ buf[i].socket = buf[j].socket => buf[i].rec > buf[j].rec
       /\ buf[i].rec = buf[j].rec => buf[i].again

\* Whatever the options were and however they changed, nothing is lost before
\* the last record received but what came too early (before a subscription
\* without replay, or out of the ring when one with replay was made), what
\* another connector's filter kept back, and what found the channel full, be it
\* in the replay itself or among the live records after it (connectors.go
\* "send the ring buffer before live records", bus.go Publish, Subscribe).
GapsHaveCause ==
  \A s \in received : \A k \in 1 .. s :
    k \in received \cup overflow \cup others \/ k <= missed

\* The live view is sound: one socket, an honest state, every gap explained.
LiveViewSound == OneSocket /\ ConnectedMeansOpen /\ ViewFollows /\ GapsHaveCause

=============================================================================
