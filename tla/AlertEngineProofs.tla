-------------------------- MODULE AlertEngineProofs --------------------------
(***************************************************************************)
(* Proofs about the alert engine: its types and the two promises of the    *)
(* dedupe map, for any rules, sources, window and number of alerts.        *)
(***************************************************************************)
EXTENDS AlertEngine, FiniteSetTheorems, SequenceTheorems, TLAPS

Alert == [key : Keys, noted : Times, saved : BOOLEAN]

(***************************************************************************)
(* Types.  What Receive reserves of MaxAlerts covers the alerts of the     *)
(* evaluate under way (Reserved), so raised never outgrows it.             *)
(***************************************************************************)
EngineType ==
  /\ now \in Times /\ rules \subseteq Rules
  /\ dedupe \in [Keys -> Times \cup {Never}]
  /\ engine \in {"loading", "loop", "done", "gone"}
  /\ todo \subseteq Keys
  /\ raised \in Seq(Alert)
  /\ suppressed \subseteq Keys \X Times

Reserved ==
  IsFiniteSet(todo) /\ Len(raised) + Cardinality(todo) <= MaxAlerts

EngineInv == D!TypeOK /\ EngineType /\ Reserved

LEMMA ReservedImplies == EngineInv => TypeOK
<1> SUFFICES ASSUME EngineInv PROVE TypeOK
  OBVIOUS
<1>1. Cardinality(todo) \in Nat /\ Len(raised) \in Nat
  BY FS_CardinalityType, LenProperties DEF EngineInv, Reserved, EngineType
<1>2. Len(raised) <= MaxAlerts
  BY <1>1, AlertEngineAssumption DEF EngineInv, Reserved
<1> QED
  BY <1>2 DEF EngineInv, EngineType, TypeOK, Alert

LEMMA AttemptsPositive == D!MaxAttempts \in Nat \ {0}
BY AlertEngineAssumption DEF D!MaxAttempts

LEMMA InitEngine == Init => EngineInv
<1> SUFFICES ASSUME Init PROVE EngineInv
  OBVIOUS
<1>1. D!TypeOK
  <2>1. cancelled \in BOOLEAN
    BY Zenon DEF Init, D!Init
  <2> QED
    BY <2>1, AttemptsPositive DEF Init, D!Init, D!TypeOK
<1>2. EngineType
  BY AlertEngineAssumption DEF Init, EngineType, Times
<1>3. Reserved
  <2>1. todo = {} /\ raised = <<>>
    BY DEF Init
  <2>2. IsFiniteSet({}) /\ Cardinality({}) = 0 /\ Len(raised) = 0
    BY <2>1, FS_EmptySet
  <2> QED
    BY <2>1, <2>2, AlertEngineAssumption DEF Reserved
<1> QED
  BY <1>1, <1>2, <1>3 DEF EngineInv

\* The dispatcher's part of a step.
LEMMA DispatchType ==
  ASSUME D!TypeOK, NEW a, D!Dispatch(a), UNCHANGED cancelled
  PROVE  D!TypeOK'
<1>1. cancelled' \in BOOLEAN
  BY Zenon DEF D!TypeOK
<1>2. /\ job' \in [D!Deliveries -> {"none", "try", "backoff", "dead", "returned", "gone"}]
      /\ attempt' \in [D!Deliveries -> 0 .. D!MaxAttempts]
  BY AttemptsPositive DEF D!TypeOK, D!Dispatch
<1> QED
  BY <1>1, <1>2 DEF D!TypeOK, D!Dispatch

LEMMA JobType ==
  ASSUME D!TypeOK, NEW d \in D!Deliveries, D!JobStep(d)
  PROVE  D!TypeOK'
<1>t. /\ job \in [D!Deliveries -> {"none", "try", "backoff", "dead", "returned", "gone"}]
      /\ attempt \in [D!Deliveries -> 0 .. D!MaxAttempts] /\ attempt[d] \in 0 .. D!MaxAttempts
      /\ D!MaxAttempts \in Nat
  BY AttemptsPositive DEF D!TypeOK
<1>1. cancelled' \in BOOLEAN
  <2>1. cancelled' = cancelled
    BY DEF D!JobStep, D!DeliverOk, D!DeliverFails, D!DeliverGivesUp, D!BackoffElapses,
       D!BackoffCancelled, D!DeadLetter
  <2> QED
    BY <2>1, Zenon DEF D!TypeOK
<1>2. job' \in [D!Deliveries -> {"none", "try", "backoff", "dead", "returned", "gone"}]
  <2>1. PICK place \in {"try", "backoff", "dead", "returned"} :
          job' = [job EXCEPT ![d] = place]
    BY DEF D!JobStep, D!DeliverOk, D!DeliverFails, D!DeliverGivesUp, D!BackoffElapses,
       D!BackoffCancelled, D!DeadLetter
  <2> QED
    BY <1>t, <2>1
<1>3. attempt' \in [D!Deliveries -> 0 .. D!MaxAttempts]
  <2>1. \/ attempt' = attempt
        \/ attempt[d] < D!MaxAttempts /\ attempt' = [attempt EXCEPT ![d] = attempt[d] + 1]
    BY DEF D!JobStep, D!DeliverOk, D!DeliverFails, D!DeliverGivesUp, D!BackoffElapses,
       D!BackoffCancelled, D!DeadLetter
  <2>2. attempt[d] < D!MaxAttempts => attempt[d] + 1 \in 0 .. D!MaxAttempts
    BY <1>t
  <2> QED
    BY <1>t, <2>1, <2>2
<1>4. /\ permanent' \in {permanent, permanent \cup {d}}
      /\ delivered' \in {delivered, delivered \cup {d}}
      /\ deadLet' \in {deadLet, deadLet \cup {d}} /\ dlq' \in {dlq, dlq \cup {d}}
  BY DEF D!JobStep, D!DeliverOk, D!DeliverFails, D!DeliverGivesUp, D!BackoffElapses,
     D!BackoffCancelled, D!DeadLetter
<1> QED
  BY <1>1, <1>2, <1>3, <1>4 DEF D!TypeOK

LEMMA EndType ==
  ASSUME D!TypeOK, ProcessEnds
  PROVE  D!TypeOK'
<1>1. cancelled' \in BOOLEAN
  <2>1. cancelled' = cancelled
    BY DEF ProcessEnds
  <2> QED
    BY <2>1, Zenon DEF D!TypeOK
<1>2. job' \in [D!Deliveries -> {"none", "try", "backoff", "dead", "returned", "gone"}]
  BY DEF D!TypeOK, ProcessEnds
<1> QED
  BY <1>1, <1>2 DEF D!TypeOK, ProcessEnds

LEMMA DispRests ==
  ASSUME D!TypeOK, UNCHANGED <<dispVars, cancelled>>
  PROVE  D!TypeOK'
BY DEF dispVars, D!TypeOK

\* A key is done with: one reservation less.
LEMMA TodoShrinks ==
  ASSUME IsFiniteSet(todo), NEW k \in todo, todo' = todo \ {k}
  PROVE  /\ IsFiniteSet(todo') /\ Cardinality(todo) \in Nat /\ Cardinality(todo') \in Nat
         /\ Cardinality(todo') = Cardinality(todo) - 1
<1>1. IsFiniteSet(todo') /\ Cardinality(todo') = Cardinality(todo) - 1
  BY FS_RemoveElement
<1> QED
  BY <1>1, FS_CardinalityType

LEMMA EngineStep == EngineInv /\ [Next]_vars => EngineInv'
<1> SUFFICES ASSUME EngineInv, [Next]_vars PROVE EngineInv'
  OBVIOUS
<1>t. /\ D!TypeOK /\ EngineType /\ Reserved /\ raised \in Seq(Alert) /\ Len(raised) \in Nat
      /\ dedupe \in [Keys -> Times \cup {Never}] /\ now \in Times /\ todo \subseteq Keys
      /\ IsFiniteSet(todo) /\ Len(raised) + Cardinality(todo) <= MaxAlerts
  BY LenProperties DEF EngineInv, EngineType, Reserved
<1>1. CASE UNCHANGED vars
  <2>1. UNCHANGED <<dispVars, cancelled, now, rules, dedupe, engine, todo, raised, suppressed>>
    BY <1>1 DEF vars
  <2> QED
    BY <1>t, <2>1, DispRests DEF EngineInv, EngineType, Reserved
<1>2. CASE Tick
  <2>1. now' \in Times
    BY <1>t, <1>2, AlertEngineAssumption DEF Tick, Times
  <2> QED
    BY <1>t, <1>2, <2>1, DispRests DEF Tick, EngineInv, EngineType, Reserved
<1>3. CASE Prune
  <2>1. dedupe' \in [Keys -> Times \cup {Never}]
    BY <1>t, <1>3 DEF Prune
  <2> QED
    BY <1>t, <1>3, <2>1, DispRests DEF Prune, EngineInv, EngineType, Reserved
<1>4. CASE EngineDone
  BY <1>t, <1>4, DispRests DEF EngineDone, EngineInv, EngineType, Reserved
<1>5. CASE DispatcherStep
  <2>1. UNCHANGED <<now, rules, dedupe, engine, todo, raised, suppressed>>
    BY <1>5 DEF DispatcherStep
  <2>2. D!TypeOK'
    <3>1. CASE D!Cancel
      <4>1. cancelled' \in BOOLEAN
        BY <3>1, Zenon DEF D!Cancel
      <4> QED
        BY <1>t, <3>1, <4>1 DEF D!Cancel, D!dispVars, D!TypeOK
    <3> QED
      BY <1>t, <1>5, <3>1, JobType DEF DispatcherStep
  <2> QED
    BY <1>t, <2>1, <2>2 DEF EngineInv, EngineType, Reserved
<1>6. ASSUME NEW rs \in SUBSET Rules, Load(rs) \/ Reload(rs)
      PROVE  EngineInv'
  BY <1>t, <1>6, DispRests DEF Load, Reload, EngineInv, EngineType, Reserved
<1>7. ASSUME NEW s \in Sources, Receive(s)
      PROVE  EngineInv'
  <2>1. /\ todo' = {k \in Keys : k[1] \in rules \cap Matches[s] /\ k[2] = s}
        /\ Len(raised) + Cardinality(todo') <= MaxAlerts
        /\ UNCHANGED <<dispVars, cancelled, now, rules, dedupe, engine, raised, suppressed>>
    BY <1>7 DEF Receive
  <2>2. IsFiniteSet(todo')
    <3>1. IsFiniteSet({s}) /\ IsFiniteSet(Rules)
      BY FS_Singleton, AlertEngineAssumption
    <3>2. IsFiniteSet(Rules \X {s})
      BY <3>1, FS_Product
    <3>3. todo' \subseteq Rules \X {s}
      BY <2>1 DEF Keys
    <3> QED
      BY <3>2, <3>3, FS_Subset
  <2> QED
    BY <1>t, <2>1, <2>2, DispRests DEF EngineInv, EngineType, Reserved
<1>8. ASSUME NEW k \in Keys, Suppress(k)
      PROVE  EngineInv'
  <2>1. /\ k \in todo /\ todo' = todo \ {k} /\ suppressed' = suppressed \cup {<<k, now>>}
        /\ UNCHANGED <<dispVars, cancelled, now, rules, dedupe, engine, raised>>
    BY <1>8 DEF Suppress, Looks
  <2>2. Reserved'
    <3>1. /\ IsFiniteSet(todo') /\ Cardinality(todo) \in Nat /\ Cardinality(todo') \in Nat
          /\ Cardinality(todo') = Cardinality(todo) - 1
      BY <1>t, <2>1, TodoShrinks
    <3> QED
      BY <1>t, <2>1, <3>1, AlertEngineAssumption DEF Reserved
  <2> QED
    BY <1>t, <2>1, <2>2, DispRests DEF EngineInv, EngineType
<1>9. ASSUME NEW k \in Keys, Raise(k)
      PROVE  EngineInv'
  <2>0. k \in todo /\ todo' = todo \ {k}
    BY <1>9 DEF Raise, Looks
  <2>1. PICK noted \in now .. MaxTime, saved \in BOOLEAN :
          /\ dedupe' = [dedupe EXCEPT ![k] = noted]
          /\ Notes(k, noted, saved)
    BY <1>9 DEF Raise
  <2>2. noted \in Times /\ now' \in Times
    BY <1>t, <2>1, AlertEngineAssumption DEF Notes, Times
  <2>3. raised' \in Seq(Alert) /\ Len(raised') = Len(raised) + 1
    <3>1. [key |-> k, noted |-> noted, saved |-> saved] \in Alert
      BY <2>2 DEF Alert
    <3> QED
      BY <1>t, <2>1, <3>1, AppendProperties DEF Notes
  <2>4. Reserved'
    <3>1. /\ IsFiniteSet(todo') /\ Cardinality(todo) \in Nat /\ Cardinality(todo') \in Nat
          /\ Cardinality(todo') = Cardinality(todo) - 1
      BY <1>t, <2>0, TodoShrinks
    <3> QED
      BY <1>t, <2>3, <3>1, AlertEngineAssumption DEF Reserved
  <2>5. D!TypeOK'
    <3>1. D!Dispatch(Len(raised) + 1) /\ UNCHANGED cancelled
      BY <1>9 DEF Raise
    <3> QED
      BY <1>t, <3>1, DispatchType
  <2>6. dedupe' \in [Keys -> Times \cup {Never}]
    BY <1>t, <2>1, <2>2
  <2>7. UNCHANGED <<rules, engine, suppressed>>
    BY <1>9 DEF Raise
  <2> QED
    BY <1>t, <2>0, <2>2, <2>3, <2>4, <2>5, <2>6, <2>7 DEF EngineInv, EngineType
<1>10. CASE ProcessEnds
  <2>1. /\ engine' = "gone"
        /\ UNCHANGED <<cancelled, now, rules, dedupe, todo, raised, suppressed>>
    BY <1>10 DEF ProcessEnds
  <2> QED
    BY <1>t, <1>10, <2>1, EndType DEF EngineInv, EngineType, Reserved
<1> QED
  BY <1>1, <1>2, <1>3, <1>4, <1>5, <1>6, <1>7, <1>8, <1>9, <1>10 DEF Next, Evaluate

\* Every variable of the engine and of its dispatcher has its type, and alerts
\* are dispatched as they are raised (alerts/engine.go).
THEOREM TypeCorrect == Spec => []TypeOK
BY InitEngine, EngineStep, ReservedImplies, PTL DEF Spec

-----------------------------------------------------------------------------
(***************************************************************************)
(* The dedupe map.  An alert noted less than a window ago is in the map,   *)
(* at its own time or a later one (Noted), and whatever the map holds is   *)
(* the time of an alert (Origin): pruning drops neither.  Every alert was  *)
(* given to the dispatcher, and no step of a delivery undoes that (Sent).  *)
(***************************************************************************)
Noted ==
  \A i \in 1 .. Len(raised) :
    LET a == raised[i] IN
    /\ a.noted <= now
    /\ now - a.noted < Window => dedupe[a.key] # Never /\ dedupe[a.key] >= a.noted

Origin ==
  \A k \in Keys : dedupe[k] # Never =>
    \E i \in 1 .. Len(raised) : raised[i].key = k /\ raised[i].noted = dedupe[k]

Sent == \A i \in 1 .. Len(raised) : D!Dispatched(i)

DedupeInv == Noted /\ Origin /\ AlertsSpaced /\ SuppressedByAlert

LEMMA InitDedupe == Init => DedupeInv /\ Sent
<1> SUFFICES ASSUME Init PROVE DedupeInv /\ Sent
  OBVIOUS
<1>1. raised = <<>> /\ Len(raised) = 0 /\ suppressed = {}
  BY DEF Init
<1>2. \A k \in Keys : dedupe[k] = Never
  BY DEF Init
<1> QED
  BY <1>1, <1>2 DEF DedupeInv, Noted, Origin, AlertsSpaced, SuppressedByAlert, Sent

\* A step that raises nothing keeps every delivery started.
LEMMA SentStep ==
  ASSUME EngineInv, Sent, [Next]_vars
  PROVE  Sent'
<1>t. /\ job \in [D!Deliveries -> {"none", "try", "backoff", "dead", "returned", "gone"}]
      /\ raised \in Seq(Alert) /\ Len(raised) \in Nat /\ MaxAlerts \in Nat
      /\ Len(raised) <= MaxAlerts
  BY ReservedImplies, LenProperties, AlertEngineAssumption
     DEF EngineInv, EngineType, D!TypeOK, TypeOK
<1>s. \A i \in 1 .. Len(raised), n \in Notifiers :
        <<i, n>> \in D!Deliveries /\ job[<<i, n>>] # "none"
  <2> SUFFICES ASSUME NEW i \in 1 .. Len(raised), NEW n \in Notifiers
               PROVE  <<i, n>> \in D!Deliveries /\ job[<<i, n>>] # "none"
    OBVIOUS
  <2>1. i \in D!Alerts
    BY <1>t DEF D!Alerts
  <2> QED
    BY <2>1 DEF Sent, D!Dispatched, D!Deliveries
<1>1. CASE UNCHANGED <<job, raised>>
  BY <1>1 DEF Sent, D!Dispatched
<1>2. CASE DispatcherStep
  <2>1. raised' = raised
    BY <1>2 DEF DispatcherStep
  <2>2. \A d \in D!Deliveries : job[d] # "none" => job'[d] # "none"
    <3>1. CASE D!Cancel
      BY <3>1 DEF D!Cancel, D!dispVars
    <3>2. ASSUME NEW e \in D!Deliveries, D!JobStep(e)
          PROVE  \A d \in D!Deliveries : job[d] # "none" => job'[d] # "none"
      <4>1. PICK place \in {"try", "backoff", "dead", "returned"} :
              job' = [job EXCEPT ![e] = place]
        BY <3>2 DEF D!JobStep, D!DeliverOk, D!DeliverFails, D!DeliverGivesUp,
           D!BackoffElapses, D!BackoffCancelled, D!DeadLetter
      <4> QED
        BY <1>t, <4>1
    <3> QED
      BY <1>2, <3>1, <3>2 DEF DispatcherStep
  <2> QED
    BY <1>s, <2>1, <2>2 DEF Sent, D!Dispatched
<1>3. CASE ProcessEnds
  <2>1. raised' = raised /\ \A d \in D!Deliveries : job[d] # "none" => job'[d] # "none"
    BY <1>3 DEF ProcessEnds
  <2> QED
    BY <1>s, <2>1 DEF Sent, D!Dispatched
<1>4. ASSUME NEW k \in Keys, Raise(k)
      PROVE  Sent'
  <2>1. Len(raised') = Len(raised) + 1
    <3>1. PICK noted \in now .. MaxTime, saved \in BOOLEAN : Notes(k, noted, saved)
      BY <1>4 DEF Raise
    <3> QED
      BY <1>t, <3>1 DEF Notes
  <2>2. Len(raised') <= MaxAlerts
    <3>1. IsFiniteSet(todo') /\ Len(raised') + Cardinality(todo') <= MaxAlerts
      BY EngineStep DEF EngineInv, Reserved
    <3>2. Cardinality(todo') \in Nat
      BY <3>1, FS_CardinalityType
    <3> QED
      BY <1>t, <2>1, <3>1, <3>2
  <2>3. /\ job' = [d \in D!Deliveries |-> IF d[1] = Len(raised) + 1 THEN "try" ELSE job[d]]
        /\ D!Dispatch(Len(raised) + 1)
    BY <1>4 DEF Raise, D!Dispatch
  <2>4. ASSUME NEW i \in 1 .. Len(raised'), NEW n \in Notifiers
        PROVE  job'[<<i, n>>] # "none"
    <3>1. i \in D!Alerts
      BY <1>t, <2>1, <2>2 DEF D!Alerts
    <3>2. <<i, n>> \in D!Deliveries /\ <<i, n>>[1] = i
      BY <3>1 DEF D!Deliveries
    <3>3. i # Len(raised) + 1 => i \in 1 .. Len(raised)
      BY <1>t, <2>1
    <3> QED
      BY <1>s, <2>3, <3>2, <3>3
  <2> QED
    BY <2>4 DEF Sent, D!Dispatched
<1>5. CASE UNCHANGED vars \/ Tick \/ Prune \/ EngineDone
  BY <1>1, <1>5 DEF vars, dispVars, Tick, Prune, EngineDone
<1>6. ASSUME NEW rs \in SUBSET Rules, Load(rs) \/ Reload(rs)
      PROVE  Sent'
  BY <1>1, <1>6 DEF dispVars, Load, Reload
<1>7. ASSUME NEW s \in Sources, Receive(s)
      PROVE  Sent'
  BY <1>1, <1>7 DEF dispVars, Receive
<1>8. ASSUME NEW k \in Keys, Suppress(k)
      PROVE  Sent'
  BY <1>1, <1>8 DEF dispVars, Suppress
<1> QED
  BY <1>2, <1>3, <1>4, <1>5, <1>6, <1>7, <1>8 DEF Next, Evaluate

\* An alert that was dispatched before a step is so after it.
LEMMA SuppressedStays ==
  ASSUME SuppressedByAlert, Sent', Len(raised) \in Nat, Len(raised') \in Nat,
         Len(raised) <= Len(raised'),
         \A i \in 1 .. Len(raised) : raised'[i] = raised[i],
         suppressed' = suppressed
  PROVE  SuppressedByAlert'
<1> SUFFICES ASSUME NEW x \in suppressed
             PROVE  \E i \in 1 .. Len(raised') :
                      /\ raised'[i].key = x[1]
                      /\ raised'[i].noted <= x[2] /\ x[2] - raised'[i].noted < Window
                      /\ D!Dispatched(i)'
  BY DEF SuppressedByAlert
<1>1. PICK i \in 1 .. Len(raised) :
        /\ raised[i].key = x[1]
        /\ raised[i].noted <= x[2] /\ x[2] - raised[i].noted < Window
  BY DEF SuppressedByAlert
<1>2. i \in 1 .. Len(raised') /\ D!Dispatched(i)'
  BY DEF Sent
<1> QED
  BY <1>1, <1>2

LEMMA DedupeRests ==
  ASSUME EngineType, DedupeInv, Sent', UNCHANGED <<now, dedupe, raised, suppressed>>
  PROVE  DedupeInv'
<1>1. Len(raised) \in Nat
  BY LenProperties DEF EngineType
<1>2. SuppressedByAlert'
  BY <1>1, SuppressedStays DEF DedupeInv
<1> QED
  BY <1>2 DEF DedupeInv, Noted, Origin, AlertsSpaced

LEMMA RaiseSpaced ==
  ASSUME EngineType, DedupeInv, Sent', NEW k \in Keys, Raise(k)
  PROVE  DedupeInv'
<1> DEFINE n == Len(raised)
<1>p. PICK noted \in now .. MaxTime, saved \in BOOLEAN :
        /\ dedupe' = [dedupe EXCEPT ![k] = noted]
        /\ Notes(k, noted, saved)
  BY DEF Raise
<1> DEFINE a == [key |-> k, noted |-> noted, saved |-> saved]
<1>t. /\ raised \in Seq(Alert) /\ n \in Nat /\ now \in Int /\ Window \in Int /\ Window > 0
      /\ dedupe \in [Keys -> Times \cup {Never}] /\ Never \in Int /\ dedupe[k] \in Int
      /\ \A i \in 1 .. n : /\ raised[i] \in Alert /\ raised[i].noted \in Int
                           /\ raised[i].key \in Keys
      /\ noted \in Times /\ noted \in Int /\ now <= noted /\ noted # Never
      /\ now' \in Int /\ noted <= now'
  <2>1. /\ raised \in Seq(Alert) /\ n \in Nat
        /\ \A i \in 1 .. n : raised[i] \in Alert
    BY LenProperties, ElementOfSeq DEF EngineType
  <2>2. now \in Int /\ \A b \in Alert : b.noted \in Int /\ b.key \in Keys
    BY AlertEngineAssumption DEF EngineType, Times, Alert
  <2>3. /\ dedupe \in [Keys -> Times \cup {Never}] /\ Never \in Int /\ dedupe[k] \in Int
        /\ Window \in Int /\ Window > 0
    BY AlertEngineAssumption DEF EngineType, Times, Never
  <2>4. /\ noted \in Times /\ noted \in Int /\ now <= noted /\ noted # Never
        /\ now' \in Int /\ noted <= now'
    BY <1>p, AlertEngineAssumption DEF EngineType, Times, Never, Notes
  <2> QED
    BY <2>1, <2>2, <2>3, <2>4
<1>1. ~Fresh(k) /\ suppressed' = suppressed /\ raised' = Append(raised, a)
  BY <1>p DEF Raise, Notes
<1>r. a \in Alert /\ a.key = k /\ a.noted = noted
  BY <1>t DEF Alert
<1>2. /\ Len(raised') = n + 1 /\ raised'[n + 1] = a
      /\ \A i \in 1 .. n : raised'[i] = raised[i]
  BY <1>t, <1>1, <1>r, AppendProperties
<1>3. \A i \in 1 .. n + 1 : i \in 1 .. n \/ i = n + 1
  BY <1>t
<1>4. dedupe'[k] = noted /\ \A j \in Keys : j # k => dedupe'[j] = dedupe[j]
  BY <1>t, <1>p
<1> HIDE DEF n, a
<1>5. ASSUME NEW i \in 1 .. n, raised[i].key = k
      PROVE  noted - raised[i].noted >= Window
  <2>1. now - raised[i].noted < Window => dedupe[k] # Never /\ dedupe[k] >= raised[i].noted
    BY <1>5 DEF DedupeInv, Noted, n
  <2>2. dedupe[k] = Never \/ ~(now - dedupe[k] < Window)
    BY <1>1 DEF Fresh
  <2> QED
    BY <1>t, <2>1, <2>2
<1>6. Noted'
  <2> SUFFICES ASSUME NEW i \in 1 .. n + 1
               PROVE  /\ raised'[i].noted <= now'
                      /\ now' - raised'[i].noted < Window =>
                           /\ dedupe'[raised'[i].key] # Never
                           /\ dedupe'[raised'[i].key] >= raised'[i].noted
    BY <1>2 DEF Noted
  <2>1. CASE i = n + 1
    BY <1>t, <1>2, <1>4, <1>r, <2>1
  <2>2. CASE i \in 1 .. n
    <3>1. /\ raised[i].noted <= now
          /\ now - raised[i].noted < Window =>
               dedupe[raised[i].key] # Never /\ dedupe[raised[i].key] >= raised[i].noted
      BY <2>2 DEF DedupeInv, Noted, n
    <3>2. CASE raised[i].key = k
      <4>1. raised[i].noted \in Int /\ raised'[i] = raised[i]
        BY <1>t, <1>2, <2>2
      <4>2. noted - raised[i].noted >= Window
        BY <1>5, <2>2, <3>2
      <4>3. raised[i].noted <= noted /\ raised[i].noted <= now'
        BY <1>t, <4>1, <4>2
      <4>4. dedupe'[raised[i].key] = noted
        BY <1>4, <3>2
      <4> QED
        BY <1>t, <4>1, <4>3, <4>4
    <3>3. CASE raised[i].key # k
      <4>1. raised[i].key \in Keys /\ raised[i].noted \in Int
        BY <1>t, <2>2
      <4>2. dedupe'[raised[i].key] = dedupe[raised[i].key]
        BY <1>4, <3>3, <4>1
      <4>3. now' - raised[i].noted < Window => now - raised[i].noted < Window
        BY <1>t, <4>1
      <4>4. raised[i].noted <= now'
        BY <1>t, <3>1, <4>1
      <4> QED
        BY <1>2, <2>2, <3>1, <4>2, <4>3, <4>4
    <3> QED
      BY <3>2, <3>3
  <2> QED
    BY <1>3, <2>1, <2>2
<1>7. Origin'
  <2> SUFFICES ASSUME NEW j \in Keys, dedupe'[j] # Never
               PROVE  \E i \in 1 .. n + 1 :
                        raised'[i].key = j /\ raised'[i].noted = dedupe'[j]
    BY <1>2 DEF Origin
  <2>1. CASE j = k
    <3>1. n + 1 \in 1 .. n + 1
      BY <1>t
    <3> QED
      BY <1>2, <1>4, <1>r, <2>1, <3>1
  <2>2. CASE j # k
    <3>1. PICK i \in 1 .. n : raised[i].key = j /\ raised[i].noted = dedupe[j]
      BY <1>4, <2>2 DEF DedupeInv, Origin, n
    <3>2. i \in 1 .. n + 1
      BY <1>t
    <3> QED
      BY <1>2, <1>4, <2>2, <3>1, <3>2
  <2> QED
    BY <2>1, <2>2
<1>8. AlertsSpaced'
  <2> SUFFICES ASSUME NEW i \in 1 .. n + 1, NEW j \in 1 .. n + 1,
                      i < j, raised'[i].key = raised'[j].key
               PROVE  raised'[j].noted - raised'[i].noted >= Window
    BY <1>2 DEF AlertsSpaced
  <2>1. i \in 1 .. n
    BY <1>t
  <2>2. CASE j = n + 1
    BY <1>2, <1>5, <1>r, <2>1, <2>2
  <2>3. CASE j \in 1 .. n
    BY <1>2, <2>1, <2>3 DEF DedupeInv, AlertsSpaced, n
  <2> QED
    BY <1>3, <2>2, <2>3
<1>9. SuppressedByAlert'
  <2>1. /\ Len(raised) \in Nat /\ Len(raised') \in Nat /\ Len(raised) <= Len(raised')
        /\ \A i \in 1 .. Len(raised) : raised'[i] = raised[i]
    BY <1>t, <1>2 DEF n
  <2> QED
    BY <1>1, <2>1, SuppressedStays DEF DedupeInv
<1> QED
  BY <1>6, <1>7, <1>8, <1>9 DEF DedupeInv

LEMMA DedupeStep == EngineInv /\ DedupeInv /\ Sent /\ [Next]_vars => DedupeInv'
<1> SUFFICES ASSUME EngineInv, DedupeInv, Sent, [Next]_vars PROVE DedupeInv'
  OBVIOUS
<1>s. EngineType /\ Sent'
  BY SentStep DEF EngineInv
<1>t. /\ \A i \in 1 .. Len(raised) : raised[i].noted \in Int /\ raised[i].key \in Keys
      /\ now \in Int /\ Window \in Int /\ Never \in Int /\ Len(raised) \in Nat
      /\ dedupe \in [Keys -> Times \cup {Never}] /\ \A k \in Keys : dedupe[k] \in Int
  <2>1. Len(raised) \in Nat /\ \A i \in 1 .. Len(raised) : raised[i] \in Alert
    BY <1>s, ElementOfSeq, LenProperties DEF EngineType
  <2>2. now \in Int /\ \A a \in Alert : a.noted \in Int /\ a.key \in Keys
    BY <1>s, AlertEngineAssumption DEF EngineType, Times, Alert
  <2> QED
    BY <1>s, <2>1, <2>2, AlertEngineAssumption DEF EngineType, Times, Never
<1>1. CASE UNCHANGED <<now, dedupe, raised, suppressed>>
  BY <1>s, <1>1, DedupeRests
<1>2. CASE Tick
  <2>1. now' = now + 1 /\ UNCHANGED <<dedupe, raised, suppressed>>
    BY <1>2 DEF Tick
  <2>2. Noted'
    BY <1>t, <2>1 DEF DedupeInv, Noted
  <2>3. SuppressedByAlert'
    BY <1>s, <1>t, <2>1, SuppressedStays DEF DedupeInv
  <2> QED
    BY <2>1, <2>2, <2>3 DEF DedupeInv, Origin, AlertsSpaced
<1>3. CASE Prune
  <2>1. /\ dedupe' = [k \in Keys |-> IF dedupe[k] < now - Window THEN Never ELSE dedupe[k]]
        /\ UNCHANGED <<now, raised, suppressed>>
    BY <1>3 DEF Prune
  <2>2. Noted'
    <3> SUFFICES ASSUME NEW i \in 1 .. Len(raised)
                 PROVE  /\ raised[i].noted <= now
                        /\ now - raised[i].noted < Window =>
                             /\ dedupe'[raised[i].key] # Never
                             /\ dedupe'[raised[i].key] >= raised[i].noted
      BY <2>1 DEF Noted
    <3>1. /\ raised[i].noted <= now
          /\ now - raised[i].noted < Window =>
               dedupe[raised[i].key] # Never /\ dedupe[raised[i].key] >= raised[i].noted
      BY DEF DedupeInv, Noted
    <3>2. ASSUME now - raised[i].noted < Window
          PROVE  dedupe'[raised[i].key] = dedupe[raised[i].key]
      <4>1. ~(dedupe[raised[i].key] < now - Window)
        BY <1>t, <3>1, <3>2
      <4> QED
        BY <1>t, <2>1, <4>1
    <3> QED
      BY <3>1, <3>2
  <2>3. Origin'
    <3>1. \A k \in Keys : dedupe'[k] # Never => dedupe'[k] = dedupe[k] /\ dedupe[k] # Never
      BY <1>t, <2>1
    <3> QED
      BY <2>1, <3>1 DEF DedupeInv, Origin
  <2>4. SuppressedByAlert'
    BY <1>s, <1>t, <2>1, SuppressedStays DEF DedupeInv
  <2> QED
    BY <2>1, <2>2, <2>3, <2>4 DEF DedupeInv, AlertsSpaced
<1>4. ASSUME NEW k \in Keys, Suppress(k)
      PROVE  DedupeInv'
  <2>1. /\ Fresh(k) /\ suppressed' = suppressed \cup {<<k, now>>}
        /\ UNCHANGED <<now, dedupe, raised>>
    BY <1>4 DEF Suppress
  <2>2. PICK i \in 1 .. Len(raised) : raised[i].key = k /\ raised[i].noted = dedupe[k]
    BY <2>1 DEF Fresh, DedupeInv, Origin
  <2>3. raised[i].noted <= now /\ now - raised[i].noted < Window
    BY <2>1, <2>2 DEF Fresh, DedupeInv, Noted
  <2>4. SuppressedByAlert'
    <3> SUFFICES ASSUME NEW x \in suppressed \cup {<<k, now>>}
                 PROVE  \E j \in 1 .. Len(raised) :
                          /\ raised[j].key = x[1]
                          /\ raised[j].noted <= x[2] /\ x[2] - raised[j].noted < Window
                          /\ D!Dispatched(j)'
      BY <2>1 DEF SuppressedByAlert
    <3>1. \A j \in 1 .. Len(raised) : D!Dispatched(j)'
      BY <1>s, <2>1 DEF Sent
    <3>2. CASE x = <<k, now>>
      BY <2>2, <2>3, <3>1, <3>2
    <3>3. CASE x \in suppressed
      BY <3>1, <3>3 DEF DedupeInv, SuppressedByAlert
    <3> QED
      BY <3>2, <3>3
  <2> QED
    BY <2>1, <2>4 DEF DedupeInv, Noted, Origin, AlertsSpaced
<1>5. CASE UNCHANGED vars \/ EngineDone \/ DispatcherStep \/ ProcessEnds
  BY <1>1, <1>5 DEF vars, EngineDone, DispatcherStep, ProcessEnds
<1>6. ASSUME NEW rs \in SUBSET Rules, Load(rs) \/ Reload(rs)
      PROVE  DedupeInv'
  BY <1>1, <1>6 DEF Load, Reload
<1>7. ASSUME NEW s \in Sources, Receive(s)
      PROVE  DedupeInv'
  BY <1>1, <1>7 DEF Receive
<1> QED
  BY <1>s, <1>2, <1>3, <1>4, <1>5, <1>6, <1>7, RaiseSpaced DEF Next, Evaluate

LEMMA DedupeInvariant == Spec => []DedupeInv
<1>1. EngineInv /\ Sent /\ [Next]_vars => Sent'
  BY SentStep
<1> QED
  BY <1>1, InitEngine, EngineStep, InitDedupe, DedupeStep, PTL DEF Spec

\* Two alerts of one rule for one source are noted a dedupe window or more
\* apart, for any window, whatever is pruned and reloaded between and however
\* long an evaluate takes (alerts/engine.go evaluate, pruneDedupe).
THEOREM RepeatsAreSpaced == Spec => []AlertsSpaced
<1>1. DedupeInv => AlertsSpaced
  BY DEF DedupeInv
<1> QED
  BY <1>1, DedupeInvariant, PTL

\* Nothing is suppressed but for an alert of its own key, noted less than a
\* window before and dispatched, even if its insert failed (alerts/engine.go
\* evaluate).
THEOREM SuppressionHasCause == Spec => []SuppressedByAlert
<1>1. DedupeInv => SuppressedByAlert
  BY DEF DedupeInv
<1> QED
  BY <1>1, DedupeInvariant, PTL

=============================================================================
