------------------------------ MODULE Listener ------------------------------
(***************************************************************************)
(* The stream connectors (connectors/mqtt, connectors/postgres): a         *)
(* connection, a subscription per configured topic or channel, and a hand- *)
(* over of every message to Publish; and the push connector (connectors/   *)
(* webhook), which is sent them as requests.  One machine, whose kind is   *)
(* chosen at the start.                                                    *)
(*                                                                         *)
(* postgres runs the loop itself: dial, LISTEN to every channel, forward   *)
(* until an error, close, pause, again.  mqtt leaves the connection to the *)
(* client library, which redials for ever and calls OnConnect, and only    *)
(* waits.  webhook only waits, too: its handler serves every request as it *)
(* comes, even after Run has returned.                                     *)
(*                                                                         *)
(* Broker and database are external: a message goes to who is subscribed   *)
(* when it is sent; an mqtt session that is not clean survives its         *)
(* connection at the broker, with the messages of a QoS above 0 that have  *)
(* not been acknowledged.  A message travels at the lower of the QoS of    *)
(* the subscription and of its sender: qos is that of all messages here.   *)
(***************************************************************************)
EXTENDS Integers, Sequences, SequencesExt, FiniteSets

CONSTANTS
  Topics,     \* Config.Topics, Config.Channels: a sequence
  MaxMessages \* bound: messages ever sent

\* What Connectors assumes of them.
ListenerConstants ==
  /\ Topics \in Seq(Range(Topics)) /\ Len(Topics) > 0
  /\ MaxMessages \in Nat

Mqtt == "mqtt"
Postgres == "postgres"
Webhook == "webhook"

VARIABLES
  source,  \* the kind
  session, \* mqtt: the session is not clean
  qos,     \* mqtt: 0, as when the configuration says nothing, or 1 for 1 and 2
  at,      \* where Run is
  stop,    \* the context of Run is cancelled
  up,      \* the connection is established
  todo,    \* topics not subscribed to yet on this connection
  subs,    \* what the broker or database sends to this client
  failed,  \* mqtt: topics whose Subscribe failed on this connection
  queue,   \* messages on their way, requests being served
  sent,    \* history: topics of the messages sent so far, in order
  heard,   \* history: messages published
  unheard, \* history: messages sent when their topic was not subscribed, and
           \* requests answered with an error
  torn     \* history: messages lost with a connection

link == <<up, todo, subs, failed, queue, torn>>
traffic == <<sent, heard, unheard>>
vars == <<source, session, qos, at, stop, link, traffic>>

\* What only the environment, or handing over a message, changes.
Kept == UNCHANGED <<source, session, qos, stop, traffic>>

Names == Range(Topics)
Messages == 1 .. Len(sent)

InitAt(place, stopped) ==
  /\ source \in {Mqtt, Postgres, Webhook}
  /\ session \in (IF source = Mqtt THEN BOOLEAN ELSE {FALSE})
  /\ qos \in (IF source = Mqtt THEN {0, 1} ELSE {0})
  /\ at = place /\ stop = stopped
  /\ up = FALSE /\ todo = <<>> /\ subs = {} /\ failed = {} /\ queue = <<>>
  /\ sent = <<>> /\ heard = {} /\ unheard = {} /\ torn = {}

Init == InitAt("dial", FALSE)

-----------------------------------------------------------------------------
\* A client that subscribes in Run, once it is connected, and not again.
ConnectsOnce ==
  /\ ~up /\ up' = TRUE /\ failed' = {}
  /\ todo' = (IF at = "dial" THEN Topics ELSE <<>>)
  /\ UNCHANGED <<subs, queue, torn>>

\* A connection is established; mqtt: OnConnect starts, after every reconnect.
Connects ==
  /\ ~up /\ up' = TRUE /\ todo' = Topics /\ failed' = {}
  /\ UNCHANGED <<subs, queue, torn>>

\* The next topic is subscribed to.
Subscribes ==
  /\ up /\ todo # <<>>
  /\ subs' = subs \cup {Head(todo)} /\ todo' = Tail(todo)
  /\ UNCHANGED <<up, failed, queue, torn>>

\* What was on its way is lost.
Loses == queue' = <<>> /\ torn' = torn \cup Range(queue)

\* A client that asks for a clean session whatever it is configured for.
DisconnectsClean ==
  /\ up' = FALSE /\ todo' = <<>> /\ failed' = {}
  /\ subs' = {} /\ Loses

\* The connection is gone, and with it what it carried, unless the broker keeps
\* the session: it sends again what was not acknowledged, and may have held
\* back messages of QoS 0, too.
Disconnects ==
  /\ up' = FALSE /\ todo' = <<>> /\ failed' = {}
  /\ subs' = (IF session THEN subs ELSE {})
  /\ \/ session /\ UNCHANGED <<queue, torn>>
     \/ (session => qos = 0) /\ Loses

\* A message is handed over, as JSON or wrapped, and acknowledged.
Hears ==
  /\ up /\ queue # <<>>
  /\ heard' = heard \cup {Head(queue)} /\ queue' = Tail(queue)
  /\ UNCHANGED <<up, todo, subs, failed, torn, sent, unheard>>

-----------------------------------------------------------------------------
(***************************************************************************)
(* postgres: Run and listen                                                *)
(***************************************************************************)
PgConnects == at = "dial" /\ ~stop /\ Connects /\ at' = "listen"
\* A LISTEN that fails is logged and left out.
PgListensOrNot ==
  /\ at = "listen" /\ ~stop /\ UNCHANGED at
  /\ \/ Subscribes
     \/ /\ up /\ todo # <<>> /\ todo' = Tail(todo)
        /\ UNCHANGED <<up, subs, failed, queue, torn>>

PgListens == at = "listen" /\ ~stop /\ Subscribes /\ UNCHANGED at

PgForwards == at = "listen" /\ todo = <<>> /\ Hears /\ UNCHANGED at

\* A failed dial, LISTEN or wait closes the connection.
PgFails ==
  /\ at \in {"dial", "listen"} /\ Disconnects
  /\ at' = IF stop THEN "returned" ELSE "pause"

\* The cancellation ends the pause, or the timer; mqtt: of the supervisor.
Resumes ==
  /\ at = "pause" /\ UNCHANGED link
  /\ at' \in {"dial"} \cup (IF stop THEN {"returned"} ELSE {})

Listen ==
  \/ PgForwards /\ UNCHANGED <<source, session, qos, stop>>
  \/ (PgConnects \/ PgListens \/ PgFails) /\ Kept

PostgresRun == source = Postgres /\ (Listen \/ (Resumes /\ Kept))

(***************************************************************************)
(* mqtt: Run, and the callbacks of the client                              *)
(***************************************************************************)
\* The first connection is there, or 30 s have passed: a connect that is
\* still under way has no error, and Run goes on.
MqttRuns == at = "dial" /\ at' = "running" /\ UNCHANGED link

\* The connect has ended with an error: Run returns it, and the supervisor
\* starts it again after a pause, unless it is cancelled (runtime.go).
MqttFails ==
  /\ at = "dial" /\ ~up /\ UNCHANGED link
  /\ at' = IF stop THEN "returned" ELSE "pause"

MqttReturns ==
  /\ at \in {"dial", "running"} /\ stop
  /\ at' = "returned" /\ Disconnects

MqttConnects == at \in {"dial", "running"} /\ Connects /\ UNCHANGED at

\* OnConnect subscribes to one topic after the other; it logs a failure and
\* does not come back to it on this connection.
OnConnect ==
  /\ \/ Subscribes
     \/ /\ up /\ todo # <<>> /\ todo' = Tail(todo)
        /\ failed' = failed \cup {Head(todo)}
        /\ UNCHANGED <<up, subs, queue, torn>>
  /\ UNCHANGED at

\* A message that is acknowledged before it is handed over.
MqttMessageAcksFirst ==
  /\ UNCHANGED <<source, session, qos, stop, at>>
  /\ \/ Hears
     \/ /\ up /\ queue # <<>> /\ queue' = Tail(queue)
        /\ up' = FALSE /\ todo' = <<>> /\ failed' = {}
        /\ UNCHANGED <<subs, torn, traffic>>

\* makeMsgHandler.  The connection may be lost before the acknowledgement:
\* a broker that keeps the session sends the message again.
MqttMessage ==
  /\ UNCHANGED <<source, session, qos, stop, at>>
  /\ \/ Hears
     \/ /\ up /\ queue # <<>> /\ heard' = heard \cup {Head(queue)}
        /\ Disconnects /\ UNCHANGED <<sent, unheard>>

ConnectionLost == up /\ Disconnects /\ UNCHANGED at

MqttCallback ==
  \/ MqttRuns \/ MqttFails \/ Resumes \/ MqttReturns
  \/ MqttConnects \/ OnConnect \/ ConnectionLost

MqttRun == source = Mqtt /\ (MqttMessage \/ (MqttCallback /\ Kept))

(***************************************************************************)
(* webhook: Run, and the handler that BuildPushHandler makes               *)
(***************************************************************************)
WebhookReturns == at = "dial" /\ stop /\ at' = "returned" /\ UNCHANGED link

\* A request is answered: 405, 401 or 400 before it has been read, 202 once it
\* is published.  A body that is no JSON, or no longer is, having been cut at
\* MaxBodyBytes, is published wrapped.
WebhookAnswers ==
  /\ \E k \in DOMAIN queue :
       /\ queue' = RemoveAt(queue, k)
       /\ \/ heard' = heard \cup {queue[k]} /\ UNCHANGED unheard
          \/ unheard' = unheard \cup {queue[k]} /\ UNCHANGED heard
  /\ UNCHANGED <<source, session, qos, at, stop, up, todo, subs, failed, torn, sent>>

WebhookRun == source = Webhook /\ (WebhookAnswers \/ (WebhookReturns /\ Kept))

-----------------------------------------------------------------------------
\* Someone sends a message, while it may still be heard.  A broker may drop one
\* of QoS 0 for a client that is away.
Send(t) ==
  /\ at # "returned" \/ source = Webhook
  /\ Len(sent) < MaxMessages /\ sent' = Append(sent, t)
  /\ LET m == Len(sent) + 1 IN
     \/ /\ t \in subs \/ source = Webhook
        /\ queue' = Append(queue, m) /\ UNCHANGED <<unheard, torn>>
     \/ /\ t \in subs /\ session /\ qos = 0 /\ ~up
        /\ torn' = torn \cup {m} /\ UNCHANGED <<queue, unheard>>
     \/ /\ t \notin subs /\ source # Webhook
        /\ unheard' = unheard \cup {m} /\ UNCHANGED <<queue, torn>>
  /\ UNCHANGED <<source, session, qos, at, stop, up, todo, subs, failed, heard>>

Stop == ~stop /\ stop' = TRUE /\ UNCHANGED <<source, session, qos, at, link, traffic>>

Next == PostgresRun \/ MqttRun \/ WebhookRun \/ Stop \/ \E t \in Names : Send(t)

\* Timers fire, calls return and the supervisor starts a Run again; the other
\* side accepts a connection that is tried for ever, and a subscription that
\* is tried on ever new connections.
\* What is received is handed over before the next error.
DueSteps ==
  PostgresRun \/ WebhookRun \/ (source = Mqtt /\ (MqttConnects \/ Resumes) /\ Kept)
Dials ==
  /\ \/ source = Postgres /\ PgConnects
     \/ source = Mqtt /\ MqttConnects
  /\ Kept
Leaves == source = Mqtt /\ MqttReturns /\ Kept
SubscribesTo(k) ==
  /\ Len(todo) = k /\ Kept
  /\ \/ source = Postgres /\ PgListens
     \/ source = Mqtt /\ OnConnect

Fairness ==
  /\ WF_vars(DueSteps) /\ SF_vars(Dials) /\ WF_vars(Leaves)
  /\ \A k \in 1 .. Len(Topics) : SF_vars(SubscribesTo(k))

Spec == Init /\ [][Next]_vars /\ Fairness

-----------------------------------------------------------------------------
(***************************************************************************)
(* Properties                                                              *)
(***************************************************************************)

\* A message that was sent while its topic was subscribed is published, on
\* its way, or was lost with a connection; a request is published, being
\* served, or answered with an error.  A session that is not clean loses
\* nothing if its messages have a QoS above 0 ("at least once", mqtt Config):
\* one without a configured QoS gets 0 and does lose.  And postgres forwards
\* only when it listens to every channel, so that a LISTEN that fails never
\* leaves it deaf to one of them (postgres listen).
LostOnlyWithConnection ==
  /\ \A m \in Messages :
       m \in heard \cup Range(queue) \cup unheard \cup torn
  /\ session /\ qos > 0 => torn = {}
  /\ at = "listen" /\ todo = <<>> => subs = Names

\* However often the connection breaks, the instance comes to listen again
\* to all it is configured for, but the topics whose Subscribe mqtt saw fail
\* on this connection (mqtt OnConnect, postgres Run).
Rejoins ==
  []<>(stop \/ source = Webhook \/ (up /\ todo = <<>> /\ subs \cup failed = Names))

\* A cancelled Run returns.
StopEndsRun == stop ~> at = "returned"

=============================================================================
