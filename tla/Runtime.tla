------------------------------ MODULE Runtime ------------------------------
(***************************************************************************)
(* The connector runtime (internal/connectors/runtime.go): the map of      *)
(* instances, the supervisor goroutine of each instance, and the calls     *)
(* Start, Stop and StopAll, which release Runtime.mu between their steps.  *)
(*                                                                         *)
(* Every Start that inserts into the map makes a new instance object,      *)
(* numbered in order of creation; 0 stands for nil.  A caller is a         *)
(* goroutine that uses the runtime; StopAll runs one goroutine per id.     *)
(***************************************************************************)
EXTENDS Integers, FiniteSets

CONSTANTS
  Ids,               \* instance ids
  PushIds,           \* those whose connector type is a PushHandler
  Callers,           \* goroutines that call Start, Stop and StopAll
  MaxInst,           \* bound: instance objects ever created
  MaxRestarts,       \* bound: crashes of one instance
  BaseDelay,         \* supervise's baseDelay and maxDelay, in a common unit
  MaxDelay,
  OverlappingStops   \* whether two callers may be in Stop at the same time

ASSUME RuntimeAssumption ==
  /\ Ids # {} /\ PushIds \subseteq Ids
  /\ MaxInst \in Nat /\ MaxRestarts \in Nat
  /\ BaseDelay \in Nat \ {0} /\ MaxDelay \in Nat /\ BaseDelay <= MaxDelay
  /\ OverlappingStops \in BOOLEAN

Insts == 1 .. MaxInst

VARIABLES
  instances,     \* Runtime.instances: the object listed under each id, or 0
  pushHandlers,  \* Runtime.pushHandlers: the object whose handler is mounted
  made,          \* number of objects created
  idOf,          \* spec.InstanceID of each object
  state,         \* status.State
  restarts,      \* status.Restarts
  delay,         \* supervise's delay
  cancelled,     \* objects whose context is cancelled
  sup,           \* where the object's supervisor is
  building,      \* the object a caller's Start is building a handler for
  stop           \* where a caller's Stop of an id is, and its object

supVars == <<state, restarts, delay, sup>>
callVars == <<building, stop>>
vars == <<instances, pushHandlers, made, idOf, supVars, cancelled, callVars>>

NotStopping == [at |-> "no", n |-> 0]

Init ==
  /\ instances = [id \in Ids |-> 0]
  /\ pushHandlers = [id \in Ids |-> 0]
  /\ made = 0
  /\ idOf = [n \in Insts |-> CHOOSE id \in Ids : TRUE]
  /\ state = [n \in Insts |-> "starting"]
  /\ restarts = [n \in Insts |-> 0]
  /\ delay = [n \in Insts |-> BaseDelay]
  /\ cancelled = {}
  /\ sup = [n \in Insts |-> "none"]
  /\ building = [c \in Callers |-> 0]
  /\ stop = [c \in Callers |-> [id \in Ids |-> NotStopping]]

Stopping(c) == \E id \in Ids : stop[c][id].at # "no"
Idle(c) == building[c] = 0 /\ ~Stopping(c)

\* The supervisor goroutine of n exists and has not closed inst.done.
Live(n) == sup[n] \in {"enter", "run", "backoff", "exit"}

-----------------------------------------------------------------------------
(***************************************************************************)
(* Start                                                                   *)
(***************************************************************************)

\* The instance is inserted; without a push handler its supervisor starts.
\* An id that is listed is refused and nothing changes.
StartInsert(c, id) ==
  LET n == made + 1 IN
  /\ Idle(c) /\ made < MaxInst
  /\ instances[id] = 0
  /\ made' = n
  /\ instances' = [instances EXCEPT ![id] = n]
  /\ idOf' = [idOf EXCEPT ![n] = id]
  /\ IF id \in PushIds
     THEN building' = [building EXCEPT ![c] = n] /\ UNCHANGED sup
     ELSE sup' = [sup EXCEPT ![n] = "enter"] /\ UNCHANGED building
  /\ UNCHANGED <<pushHandlers, state, restarts, delay, cancelled, stop>>

\* BuildPushHandler has succeeded, outside the lock.
BuildDone(c) ==
  LET n == building[c] IN
  /\ n # 0
  /\ pushHandlers' = [pushHandlers EXCEPT ![idOf[n]] = n]
  /\ sup' = [sup EXCEPT ![n] = "enter"]
  /\ building' = [building EXCEPT ![c] = 0]
  /\ UNCHANGED <<instances, made, idOf, state, restarts, delay, cancelled, stop>>

\* BuildPushHandler has failed: the id is unlisted and inst.done, which only
\* a supervisor closes, stays open.
BuildFailed(c) ==
  LET n == building[c] IN
  /\ n # 0
  /\ cancelled' = cancelled \cup {n}
  /\ instances' = [instances EXCEPT ![idOf[n]] = 0]
  /\ building' = [building EXCEPT ![c] = 0]
  /\ UNCHANGED <<pushHandlers, made, idOf, supVars, stop>>

-----------------------------------------------------------------------------
(***************************************************************************)
(* supervise and runOnce                                                   *)
(***************************************************************************)

\* runOnce: StateRunning, then Run is called.
RunBegins(n) ==
  /\ sup[n] = "enter"
  /\ sup' = [sup EXCEPT ![n] = "run"]
  /\ state' = [state EXCEPT ![n] = "running"]
  /\ UNCHANGED <<instances, pushHandlers, made, idOf, restarts, delay, cancelled,
                 callVars>>

\* Run returns nil, context.Canceled or context.DeadlineExceeded: its own
\* deadline counts as a stop as well.
RunEnds(n) ==
  /\ sup[n] = "run"
  /\ sup' = [sup EXCEPT ![n] = "exit"]
  /\ state' = [state EXCEPT ![n] = "stopped"]
  /\ UNCHANGED <<instances, pushHandlers, made, idOf, restarts, delay, cancelled,
                 callVars>>

\* Run returns another error or panics.
RunCrashes(n) ==
  /\ sup[n] = "run" /\ restarts[n] < MaxRestarts
  /\ sup' = [sup EXCEPT ![n] = "backoff"]
  /\ state' = [state EXCEPT ![n] = "backoff"]
  /\ UNCHANGED <<instances, pushHandlers, made, idOf, restarts, delay, cancelled,
                 callVars>>

\* A doubling that forgets the cap.
BackoffElapsesUncapped(n) ==
  /\ sup[n] = "backoff"
  /\ sup' = [sup EXCEPT ![n] = "enter"]
  /\ restarts' = [restarts EXCEPT ![n] = @ + 1]
  /\ delay' = [delay EXCEPT ![n] = IF @ < MaxDelay THEN 2 * @ ELSE @]
  /\ UNCHANGED <<instances, pushHandlers, made, idOf, state, cancelled, callVars>>

\* The delay has passed; it doubles up to the cap for the next crash.
BackoffElapses(n) ==
  /\ sup[n] = "backoff"
  /\ sup' = [sup EXCEPT ![n] = "enter"]
  /\ restarts' = [restarts EXCEPT ![n] = @ + 1]
  /\ delay' = [delay EXCEPT ![n] =
                 IF @ >= MaxDelay THEN @
                 ELSE IF 2 * @ > MaxDelay THEN MaxDelay ELSE 2 * @]
  /\ UNCHANGED <<instances, pushHandlers, made, idOf, state, cancelled, callVars>>

\* A ctx.Done case without its return.
BackoffCancelledContinues(n) ==
  /\ sup[n] = "backoff" /\ n \in cancelled
  /\ sup' = [sup EXCEPT ![n] = "enter"]
  /\ state' = [state EXCEPT ![n] = "stopped"]
  /\ UNCHANGED <<instances, pushHandlers, made, idOf, restarts, delay, cancelled,
                 callVars>>

\* The context is cancelled before the delay has passed.
BackoffCancelled(n) ==
  /\ sup[n] = "backoff" /\ n \in cancelled
  /\ sup' = [sup EXCEPT ![n] = "exit"]
  /\ state' = [state EXCEPT ![n] = "stopped"]
  /\ UNCHANGED <<instances, pushHandlers, made, idOf, restarts, delay, cancelled,
                 callVars>>

\* A supervisor that never closes inst.done.
DoneNever(n) == FALSE /\ n \in Insts /\ UNCHANGED vars

\* The deferred close(inst.done).
CloseDone(n) ==
  /\ sup[n] = "exit"
  /\ sup' = [sup EXCEPT ![n] = "done"]
  /\ UNCHANGED <<instances, pushHandlers, made, idOf, state, restarts, delay,
                 cancelled, callVars>>

-----------------------------------------------------------------------------
(***************************************************************************)
(* Stop and StopAll                                                        *)
(***************************************************************************)
MayStop(c) == Idle(c) /\ (OverlappingStops \/ \A d \in Callers : ~Stopping(d))

\* c is about to look up each of ids.
BeginStop(c, ids) ==
  /\ MayStop(c) /\ ids # {}
  /\ stop' = [stop EXCEPT ![c] = [id \in Ids |->
                IF id \in ids THEN [at |-> "lookup", n |-> 0] ELSE NotStopping]]
  /\ UNCHANGED <<instances, pushHandlers, made, idOf, supVars, cancelled, building>>

StopCall(c, id) == BeginStop(c, {id})

\* The snapshot of the listed ids StopAll takes under the read lock.
StopAll(c) == BeginStop(c, {id \in Ids : instances[id] # 0})

\* Stop, under the lock: the instance is not running, or its context is
\* cancelled.  The call to cancel follows the unlock; it is part of this step
\* because it only touches the object looked up.
StopLookup(c, id) ==
  LET n == instances[id] IN
  /\ stop[c][id].at = "lookup"
  /\ stop' = [stop EXCEPT ![c][id] =
                IF n = 0 THEN NotStopping ELSE [at |-> "wait", n |-> n]]
  /\ cancelled' = IF n = 0 THEN cancelled ELSE cancelled \cup {n}
  /\ UNCHANGED <<instances, pushHandlers, made, idOf, supVars, building>>

StopSeesDone(c, id) ==
  /\ stop[c][id].at = "wait" /\ sup[stop[c][id].n] = "done"
  /\ stop' = [stop EXCEPT ![c][id].at = "delete"]
  /\ UNCHANGED <<instances, pushHandlers, made, idOf, supVars, cancelled, building>>

\* A Stop that unlists the instance although it has not exited.
StopTimeoutUnlists(c, id) ==
  /\ stop[c][id].at = "wait"
  /\ instances' = [instances EXCEPT ![id] = 0]
  /\ stop' = [stop EXCEPT ![c][id] = NotStopping]
  /\ UNCHANGED <<pushHandlers, made, idOf, supVars, cancelled, building>>

\* A Stop that waits for inst.done only.
StopTimeoutNever(c, id) == FALSE /\ stop[c][id].at = "wait" /\ UNCHANGED vars

\* The timeout: the instance stays listed, cancelled, until it exits and for
\* good.
StopTimeout(c, id) ==
  /\ stop[c][id].at = "wait"
  /\ stop' = [stop EXCEPT ![c][id] = NotStopping]
  /\ UNCHANGED <<instances, pushHandlers, made, idOf, supVars, cancelled, building>>

\* Whatever the id lists by now is unlisted; the push handler stays mounted.
StopDelete(c, id) ==
  /\ stop[c][id].at = "delete"
  /\ instances' = [instances EXCEPT ![id] = 0]
  /\ stop' = [stop EXCEPT ![c][id] = NotStopping]
  /\ UNCHANGED <<pushHandlers, made, idOf, supVars, cancelled, building>>

-----------------------------------------------------------------------------
SupStep(n) ==
  \/ RunBegins(n) \/ RunEnds(n) \/ RunCrashes(n)
  \/ BackoffElapses(n) \/ BackoffCancelled(n) \/ CloseDone(n)

StopStep(c, id) ==
  \/ StopLookup(c, id) \/ StopSeesDone(c, id) \/ StopTimeout(c, id)
  \/ StopDelete(c, id)

Next ==
  \/ \E n \in Insts : SupStep(n)
  \/ \E c \in Callers : BuildDone(c) \/ BuildFailed(c) \/ StopAll(c)
  \/ \E c \in Callers, id \in Ids :
       StartInsert(c, id) \/ StopCall(c, id) \/ StopStep(c, id)

\* Supervisors and Stops are scheduled, timers fire, and a Run whose context
\* is cancelled returns, as sdk.Connector demands ("Run blocks until ctx is
\* cancelled, then returns").  A Run that is not cancelled may go on for ever.
Fairness ==
  /\ \A n \in Insts :
       /\ WF_vars(RunBegins(n))
       /\ WF_vars(n \in cancelled /\ (RunEnds(n) \/ RunCrashes(n)))
       /\ WF_vars(BackoffElapses(n) \/ BackoffCancelled(n))
       /\ WF_vars(CloseDone(n))
  /\ \A c \in Callers, id \in Ids : WF_vars(StopStep(c, id))

Spec == Init /\ [][Next]_vars /\ Fairness

-----------------------------------------------------------------------------
(***************************************************************************)
(* Properties                                                              *)
(***************************************************************************)

\* The type of every variable; the delay of a restart never passes its cap
\* (runtime.go supervise: "capped exponential backoff").
TypeOK ==
  /\ instances \in [Ids -> 0 .. MaxInst]
  /\ pushHandlers \in [Ids -> 0 .. MaxInst]
  /\ made \in 0 .. MaxInst
  /\ idOf \in [Insts -> Ids]
  /\ state \in [Insts -> {"starting", "running", "backoff", "stopped"}]
  /\ restarts \in [Insts -> 0 .. MaxRestarts]
  /\ delay \in [Insts -> BaseDelay .. MaxDelay]
  /\ cancelled \subseteq Insts
  /\ sup \in [Insts -> {"none", "enter", "run", "backoff", "exit", "done"}]
  /\ building \in [Callers -> 0 .. MaxInst]
  /\ stop \in [Callers -> [Ids -> [at : {"no", "lookup", "wait", "delete"},
                                   n : 0 .. MaxInst]]]

\* As long as an instance's supervisor lives, its id lists it and nothing
\* else, so Status, Stop and the duplicate test of Start see it and an id
\* never has two supervisors (runtime.go Start, Stop).  This needs Stops that
\* do not overlap: the second of two would delete a successor.
ListedWhileLive == \A n \in Insts : Live(n) => instances[idOf[n]] = n

\* A status that reports "stopped" is final, and its instance never runs
\* again (runtime.go supervise).
StoppedIsFinal ==
  [][\A n \in Insts : state[n] = "stopped" =>
       state'[n] = "stopped" /\ sup'[n] \in {"exit", "done"}]_vars

\* A cancelled instance whose supervisor runs comes to its end, wherever the
\* cancellation found it (runtime.go supervise).
CancelledEnds == \A n \in Insts : (n \in cancelled /\ Live(n)) ~> (sup[n] = "done")

\* Stop returns, even for an instance whose done channel nobody will close
\* (runtime.go Stop).
StopReturns ==
  \A c \in Callers, id \in Ids : (stop[c][id].at # "no") ~> (stop[c][id].at = "no")

\* "PushHandler returns the push handler for an instance, or nil if the
\* instance [...] doesn't exist" (runtime.go PushHandler).
HandlersBelongToInstances ==
  \A id \in Ids : pushHandlers[id] # 0 => instances[id] # 0

=============================================================================
