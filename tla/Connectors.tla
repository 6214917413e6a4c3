----------------------------- MODULE Connectors -----------------------------
(***************************************************************************)
(* The connector instances of a runtime: one that polls (Poller) and one   *)
(* that listens (Listener).  They share only the bus and the store, where  *)
(* each has its own checkpoint key, so that one has returned before the    *)
(* other starts.                                                           *)
(***************************************************************************)
EXTENDS Poller, Sequences

CONSTANTS Topics, MaxMessages

VARIABLES source, session, qos, at, stop, up, todo, subs, failed, queue,
          sent, heard, unheard, torn

L == INSTANCE Listener

ASSUME ConnectorsAssumption == L!ListenerConstants

streamVars == <<source, session, qos, at, stop, up, todo, subs, failed, queue,
                sent, heard, unheard, torn>>
allVars == <<vars, streamVars>>

InitAll ==
  \/ Init /\ L!InitAt("returned", TRUE) /\ source = L!Mqtt /\ ~session /\ qos = 0
  \/ /\ L!Init /\ InitAt("returned", TRUE, MaxLives)
     /\ kind = (CHOOSE k \in Kinds : TRUE) /\ ~durable /\ ~secret

NextAll ==
  \/ Next /\ UNCHANGED streamVars
  \/ L!Next /\ UNCHANGED vars

\* Fairness of Poller and of Listener: as only one of the two ever moves,
\* their conjuncts are taken together in pairs.
FairnessAll ==
  /\ WF_allVars(\/ Run /\ UNCHANGED streamVars
                \/ L!DueSteps /\ UNCHANGED vars)
  /\ SF_allVars(\/ Run /\ Returns /\ UNCHANGED streamVars
                \/ L!Dials /\ UNCHANGED vars)
  /\ WF_streamVars(L!Leaves)
  /\ \A k \in 1 .. Len(Topics) : SF_streamVars(L!SubscribesTo(k))

SpecAll == InitAll /\ [][NextAll]_allVars /\ FairnessAll

-----------------------------------------------------------------------------
\* Every message sent on a subscribed topic is accounted for, see Listener.
LostOnlyWithConnection == L!LostOnlyWithConnection

\* An instance that listens comes to listen to all of its topics again, see
\* Listener.
Rejoins == L!Rejoins

\* A cancelled Run of any kind returns, so that Runtime.Stop can: waiting,
\* retrying, polling, idling, dialling, subscribing or forwarding.
CancelledReturns ==
  cancelled /\ stop ~> (pc = "returned" /\ at = "returned") \/ ~cancelled

=============================================================================
