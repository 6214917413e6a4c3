--------------------------- MODULE RuntimeProofs ---------------------------
(***************************************************************************)
(* Proofs about the connector runtime, for every set of ids and callers,   *)
(* every number of instances and restarts, and every pair of delays.       *)
(***************************************************************************)
EXTENDS Runtime, TLAPS

\* A crash that is waited out was within the bound.
BackoffInv == \A n \in Insts : sup[n] = "backoff" => restarts[n] < MaxRestarts

LEMMA InitType == Init => TypeOK /\ BackoffInv
BY RuntimeAssumption DEF Init, TypeOK, BackoffInv, NotStopping, Insts

\* Where a Stop may be.
Places == [at : {"no", "lookup", "wait", "delete"}, n : 0 .. MaxInst]

\* A step of a Stop moves it and no other.
LEMMA StopPlaces ==
  ASSUME TypeOK, NEW c \in Callers, NEW id \in Ids, StopStep(c, id)
  PROVE  \E x \in Places : stop' = [stop EXCEPT ![c][id] = x]
<1> USE RuntimeAssumption
<1>1. stop[c][id] \in Places /\ NotStopping \in Places
  BY DEF TypeOK, Places, NotStopping
<1>2. CASE StopLookup(c, id)
  <2>1. [at |-> "wait", n |-> instances[id]] \in Places
    BY DEF TypeOK, Places
  <2> QED
    BY <1>1, <1>2, <2>1 DEF StopLookup
<1>3. CASE StopSeesDone(c, id)
  <2>1. [stop[c][id] EXCEPT !.at = "delete"] \in Places
    BY <1>1 DEF Places
  <2>2. stop' = [stop EXCEPT ![c][id] = [stop[c][id] EXCEPT !.at = "delete"]]
    BY <1>3 DEF StopSeesDone, TypeOK
  <2> QED
    BY <2>1, <2>2
<1>4. CASE StopTimeout(c, id) \/ StopDelete(c, id)
  BY <1>1, <1>4 DEF StopTimeout, StopDelete
<1> QED
  BY <1>2, <1>3, <1>4 DEF StopStep

LEMMA TypeStep == TypeOK /\ BackoffInv /\ [Next]_vars => (TypeOK /\ BackoffInv)'
<1> SUFFICES ASSUME TypeOK, BackoffInv, [Next]_vars
             PROVE  (TypeOK /\ BackoffInv)'
  OBVIOUS
<1> USE RuntimeAssumption DEF TypeOK, BackoffInv, Insts
<1>1. ASSUME NEW n \in Insts, SupStep(n)
      PROVE  (TypeOK /\ BackoffInv)'
  <2>1. CASE RunBegins(n)
    BY <2>1 DEF RunBegins, callVars
  <2>2. CASE RunEnds(n)
    BY <2>2 DEF RunEnds, callVars
  <2>3. CASE RunCrashes(n)
    BY <2>3 DEF RunCrashes, callVars
  <2>4. CASE BackoffElapses(n)
    <3> HIDE DEF TypeOK, BackoffInv, Insts
    <3>1. /\ restarts \in [Insts -> 0 .. MaxRestarts] /\ restarts[n] < MaxRestarts
          /\ delay \in [Insts -> BaseDelay .. MaxDelay]
      BY <2>4 DEF BackoffElapses, TypeOK, BackoffInv
    <3>2. restarts' \in [Insts -> 0 .. MaxRestarts]
      <4>1. restarts[n] + 1 \in 0 .. MaxRestarts
        BY <3>1
      <4> QED
        BY <2>4, <3>1, <4>1 DEF BackoffElapses
    <3>4. (IF delay[n] >= MaxDelay THEN delay[n]
           ELSE IF 2 * delay[n] > MaxDelay THEN MaxDelay ELSE 2 * delay[n])
            \in BaseDelay .. MaxDelay
      <4>1. delay[n] \in BaseDelay .. MaxDelay
        BY <3>1
      <4> QED
        BY <4>1
    <3>5. delay' \in [Insts -> BaseDelay .. MaxDelay]
      BY <2>4, <3>1, <3>4 DEF BackoffElapses
    <3> USE DEF TypeOK, BackoffInv
    <3> QED
      BY <2>4, <3>2, <3>5 DEF BackoffElapses, callVars
  <2>5. CASE BackoffCancelled(n)
    BY <2>5 DEF BackoffCancelled, callVars
  <2>6. CASE CloseDone(n)
    BY <2>6 DEF CloseDone, callVars
  <2> QED
    BY <1>1, <2>1, <2>2, <2>3, <2>4, <2>5, <2>6 DEF SupStep
<1>2. ASSUME NEW c \in Callers, BuildDone(c)
      PROVE  (TypeOK /\ BackoffInv)'
  <2>1. building[c] \in Insts
    BY <1>2 DEF BuildDone
  <2>2. pushHandlers' \in [Ids -> 0 .. MaxInst]
    BY <1>2, <2>1 DEF BuildDone
  <2>3. sup' \in [Insts -> {"none", "enter", "run", "backoff", "exit", "done"}]
    BY <1>2, <2>1 DEF BuildDone
  <2>4. building' \in [Callers -> 0 .. MaxInst]
    BY <1>2 DEF BuildDone
  <2> QED
    BY <1>2, <2>1, <2>2, <2>3, <2>4 DEF BuildDone
<1>3. ASSUME NEW c \in Callers, BuildFailed(c)
      PROVE  (TypeOK /\ BackoffInv)'
  <2>1. building[c] \in Insts
    BY <1>3 DEF BuildFailed
  <2>2. instances' \in [Ids -> 0 .. MaxInst]
    BY <1>3, <2>1 DEF BuildFailed
  <2>3. building' \in [Callers -> 0 .. MaxInst]
    BY <1>3 DEF BuildFailed
  <2> QED
    BY <1>3, <2>1, <2>2, <2>3 DEF BuildFailed, supVars
<1>4. ASSUME NEW c \in Callers, NEW ids \in SUBSET Ids, BeginStop(c, ids)
      PROVE  (TypeOK /\ BackoffInv)'
  <2>1. [id \in Ids |-> IF id \in ids THEN [at |-> "lookup", n |-> 0] ELSE NotStopping]
          \in [Ids -> Places]
    BY DEF NotStopping, Places
  <2>2. stop' \in [Callers -> [Ids -> Places]]
    BY <1>4, <2>1 DEF BeginStop, Places
  <2> QED
    BY <1>4, <2>2 DEF BeginStop, Places, supVars
<1>5. ASSUME NEW c \in Callers, NEW id \in Ids, StartInsert(c, id)
      PROVE  (TypeOK /\ BackoffInv)'
  <2> HIDE DEF TypeOK, BackoffInv
  <2>1. made + 1 \in Insts /\ made + 1 \in 0 .. MaxInst
    BY <1>5 DEF StartInsert, TypeOK
  <2>2. /\ instances' = [instances EXCEPT ![id] = made + 1]
        /\ idOf' = [idOf EXCEPT ![made + 1] = id]
        /\ made' = made + 1
        /\ UNCHANGED <<pushHandlers, state, restarts, delay, cancelled, stop>>
    BY <1>5 DEF StartInsert
  <2>3. \/ sup' = sup /\ building' = [building EXCEPT ![c] = made + 1]
        \/ sup' = [sup EXCEPT ![made + 1] = "enter"] /\ building' = building
    <3>1. CASE id \in PushIds
      BY <1>5, <3>1 DEF StartInsert
    <3>2. CASE id \notin PushIds
      BY <1>5, <3>2 DEF StartInsert
    <3> QED
      BY <3>1, <3>2
  <2>4. /\ instances' \in [Ids -> 0 .. MaxInst]
        /\ idOf' \in [Insts -> Ids]
        /\ building' \in [Callers -> 0 .. MaxInst]
        /\ sup' \in [Insts -> {"none", "enter", "run", "backoff", "exit", "done"}]
    BY <2>1, <2>2, <2>3 DEF TypeOK
  <2>5. BackoffInv'
    BY <2>1, <2>2, <2>3 DEF TypeOK, BackoffInv
  <2> QED
    BY <2>1, <2>2, <2>4, <2>5 DEF TypeOK
<1>6. ASSUME NEW c \in Callers, NEW id \in Ids, StopStep(c, id)
      PROVE  (TypeOK /\ BackoffInv)'
  <2>1. stop' \in [Callers -> [Ids -> Places]]
    <3>1. PICK x \in Places : stop' = [stop EXCEPT ![c][id] = x]
      BY <1>6, StopPlaces
    <3>2. stop \in [Callers -> [Ids -> Places]]
      BY DEF Places
    <3> HIDE DEF TypeOK
    <3> QED
      BY <3>1, <3>2
  <2>2. instances' \in [Ids -> 0 .. MaxInst] /\ cancelled' \subseteq Insts
    <3>1. CASE StopLookup(c, id)
      <4>1. instances[id] \in 0 .. MaxInst
        OBVIOUS
      <4>2. /\ instances' = instances
            /\ cancelled' = IF instances[id] = 0 THEN cancelled
                            ELSE cancelled \cup {instances[id]}
        BY <3>1 DEF StopLookup
      <4>3. instances[id] # 0 => instances[id] \in Insts
        BY <4>1
      <4>4. cancelled \subseteq Insts /\ instances \in [Ids -> 0 .. MaxInst]
        OBVIOUS
      <4> HIDE DEF TypeOK, Insts
      <4> QED
        BY <4>2, <4>3, <4>4
    <3>2. CASE StopSeesDone(c, id) \/ StopTimeout(c, id)
      BY <3>2 DEF StopSeesDone, StopTimeout
    <3>3. CASE StopDelete(c, id)
      BY <3>3 DEF StopDelete
    <3> QED
      BY <1>6, <3>1, <3>2, <3>3 DEF StopStep
  <2>3. UNCHANGED <<pushHandlers, made, idOf, state, restarts, delay, sup, building>>
    BY <1>6 DEF StopStep, StopLookup, StopSeesDone, StopTimeout, StopDelete, supVars
  <2> HIDE DEF TypeOK, BackoffInv, Insts
  <2>4. TypeOK'
    BY <2>1, <2>2, <2>3 DEF Places, TypeOK
  <2>5. BackoffInv'
    BY <2>3 DEF BackoffInv
  <2> QED
    BY <2>4, <2>5
<1>7. CASE UNCHANGED vars
  BY <1>7 DEF vars, supVars, callVars
<1> QED
  BY <1>1, <1>2, <1>3, <1>4, <1>5, <1>6, <1>7 DEF Next, StopAll, StopCall

LEMMA TypeInvariant == Spec => [](TypeOK /\ BackoffInv)
<1> QED
  BY InitType, TypeStep, PTL DEF Spec

\* The types hold, and with them the cap of the backoff, however many
\* restarts there are (runtime.go supervise).
THEOREM TypeCorrect == Spec => []TypeOK
<1> QED
  BY TypeInvariant, PTL

-----------------------------------------------------------------------------
(***************************************************************************)
(* Objects.  One that is not made yet, or whose handler is being built,    *)
(* has no supervisor; no two Starts build the same; and a status that      *)
(* reports "stopped" belongs to a supervisor past its loop.                *)
(***************************************************************************)
Unmade == \A n \in Insts : n > made => sup[n] = "none"

Building ==
  \A c \in Callers : building[c] # 0 =>
    /\ building[c] <= made /\ sup[building[c]] = "none"
    /\ \A d \in Callers : building[d] = building[c] => d = c

Ended == \A n \in Insts : state[n] = "stopped" => sup[n] \in {"exit", "done"}

ObjectInv == Unmade /\ Building /\ Ended

LEMMA InitObjects == Init => ObjectInv
BY DEF Init, ObjectInv, Unmade, Building, Ended

\* What a supervisor's step changes: its own place and status.
LEMMA SupChanges ==
  ASSUME TypeOK, NEW n \in Insts, SupStep(n)
  PROVE  /\ UNCHANGED <<instances, pushHandlers, made, idOf, cancelled, building, stop>>
         /\ sup[n] \in {"enter", "run", "backoff", "exit"}
         /\ \E w \in {"enter", "run", "backoff", "exit", "done"} :
              /\ sup' = [sup EXCEPT ![n] = w]
              /\ w = "done" <=> sup[n] = "exit"
         /\ \E z \in {"starting", "running", "backoff", "stopped"} :
              /\ state' = [state EXCEPT ![n] = z]
              /\ z = "stopped" => sup'[n] \in {"exit", "done"} \/ state[n] = "stopped"
         /\ state[n] = "stopped" /\ sup[n] \in {"exit", "done"} => state'[n] = "stopped"
<1>1. /\ sup \in [Insts -> {"none", "enter", "run", "backoff", "exit", "done"}]
      /\ state \in [Insts -> {"starting", "running", "backoff", "stopped"}]
  BY DEF TypeOK
<1>2. CASE RunBegins(n)
  BY <1>1, <1>2 DEF RunBegins, callVars
<1>3. CASE RunEnds(n)
  BY <1>1, <1>3 DEF RunEnds, callVars
<1>4. CASE RunCrashes(n)
  BY <1>1, <1>4 DEF RunCrashes, callVars
<1>5. CASE BackoffElapses(n)
  <2>1. state' = [state EXCEPT ![n] = state[n]]
    BY <1>1, <1>5 DEF BackoffElapses
  <2> QED
    BY <1>1, <1>5, <2>1 DEF BackoffElapses, callVars
<1>6. CASE BackoffCancelled(n)
  BY <1>1, <1>6 DEF BackoffCancelled, callVars
<1>7. CASE CloseDone(n)
  <2>1. state' = [state EXCEPT ![n] = state[n]]
    BY <1>1, <1>7 DEF CloseDone
  <2> QED
    BY <1>1, <1>7, <2>1 DEF CloseDone, callVars
<1> QED
  BY <1>2, <1>3, <1>4, <1>5, <1>6, <1>7 DEF SupStep

\* What the insertion of a new object changes.
LEMMA InsertChanges ==
  ASSUME TypeOK, NEW c \in Callers, NEW id \in Ids, StartInsert(c, id)
  PROVE  /\ made + 1 \in Insts /\ made' = made + 1 /\ made \in Nat
         /\ instances[id] = 0 /\ instances' = [instances EXCEPT ![id] = made + 1]
         /\ idOf' = [idOf EXCEPT ![made + 1] = id]
         /\ \/ sup' = sup /\ building' = [building EXCEPT ![c] = made + 1]
            \/ sup' = [sup EXCEPT ![made + 1] = "enter"] /\ building' = building
         /\ UNCHANGED <<pushHandlers, state, restarts, delay, cancelled, stop>>
<1>1. made \in 0 .. MaxInst /\ MaxInst \in Nat
  BY RuntimeAssumption DEF TypeOK
<1>2. /\ made < MaxInst /\ made' = made + 1
      /\ instances[id] = 0 /\ instances' = [instances EXCEPT ![id] = made + 1]
      /\ idOf' = [idOf EXCEPT ![made + 1] = id]
      /\ UNCHANGED <<pushHandlers, state, restarts, delay, cancelled, stop>>
  BY DEF StartInsert
<1>3. made + 1 \in Insts /\ made \in Nat
  BY <1>1, <1>2 DEF Insts
<1>4. \/ sup' = sup /\ building' = [building EXCEPT ![c] = made + 1]
      \/ sup' = [sup EXCEPT ![made + 1] = "enter"] /\ building' = building
  <2>1. CASE id \in PushIds
    BY <2>1 DEF StartInsert
  <2>2. CASE id \notin PushIds
    BY <2>2 DEF StartInsert
  <2> QED
    BY <2>1, <2>2
<1> QED
  BY <1>2, <1>3, <1>4

LEMMA ObjectStep == TypeOK /\ ObjectInv /\ [Next]_vars => ObjectInv'
<1> SUFFICES ASSUME TypeOK, ObjectInv, [Next]_vars
             PROVE  ObjectInv'
  OBVIOUS
<1>t. /\ made \in Nat /\ Insts \subseteq Nat \ {0}
      /\ sup \in [Insts -> {"none", "enter", "run", "backoff", "exit", "done"}]
      /\ state \in [Insts -> {"starting", "running", "backoff", "stopped"}]
      /\ building \in [Callers -> 0 .. MaxInst]
      /\ \A c \in Callers : building[c] # 0 => building[c] \in Insts
  BY RuntimeAssumption DEF TypeOK, Insts
<1>u. Unmade /\ Building /\ Ended
  BY DEF ObjectInv
<1>1. ASSUME NEW n \in Insts, SupStep(n)
      PROVE  ObjectInv'
  <2>1. /\ UNCHANGED <<made, building>>
        /\ sup[n] # "none" /\ \A m \in Insts : m # n => sup'[m] = sup[m]
        /\ \A m \in Insts : m # n => state'[m] = state[m]
        /\ state'[n] = "stopped" => sup'[n] \in {"exit", "done"}
    <3>1. /\ UNCHANGED <<made, building>>
          /\ sup[n] \in {"enter", "run", "backoff", "exit"}
      BY <1>1, SupChanges
    <3>2. PICK w \in {"enter", "run", "backoff", "exit", "done"} :
            sup' = [sup EXCEPT ![n] = w] /\ (w = "done" <=> sup[n] = "exit")
      BY <1>1, SupChanges
    <3>3. PICK z \in {"starting", "running", "backoff", "stopped"} :
            /\ state' = [state EXCEPT ![n] = z]
            /\ z = "stopped" => sup'[n] \in {"exit", "done"} \/ state[n] = "stopped"
      BY <1>1, SupChanges
    <3>4. state[n] = "stopped" => sup[n] = "exit"
      BY <1>u, <3>1 DEF Ended
    <3> QED
      BY <1>t, <3>1, <3>2, <3>3, <3>4
  <2>2. Unmade'
    BY <1>u, <2>1 DEF Unmade
  <2>3. Building'
    BY <1>t, <1>u, <2>1 DEF Building
  <2>4. Ended'
    BY <1>u, <2>1 DEF Ended
  <2> QED
    BY <2>2, <2>3, <2>4 DEF ObjectInv
<1>2. ASSUME NEW c \in Callers, BuildDone(c)
      PROVE  ObjectInv'
  <2>1. /\ building[c] \in Insts /\ building[c] # 0
        /\ sup' = [sup EXCEPT ![building[c]] = "enter"]
        /\ building' = [building EXCEPT ![c] = 0]
        /\ UNCHANGED <<made, state>>
    BY <1>2, <1>t DEF BuildDone
  <2>2. Unmade'
    BY <1>t, <1>u, <2>1 DEF Unmade, Building
  <2>3. Building'
    BY <1>t, <1>u, <2>1 DEF Building
  <2>4. Ended'
    BY <1>t, <1>u, <2>1 DEF Ended, Building
  <2> QED
    BY <2>2, <2>3, <2>4 DEF ObjectInv
<1>3. ASSUME NEW c \in Callers, BuildFailed(c)
      PROVE  ObjectInv'
  <2>1. building' = [building EXCEPT ![c] = 0] /\ UNCHANGED <<made, state, sup>>
    BY <1>3 DEF BuildFailed, supVars
  <2> QED
    BY <1>t, <1>u, <2>1 DEF ObjectInv, Unmade, Building, Ended
<1>4. ASSUME NEW c \in Callers, NEW id \in Ids, StartInsert(c, id)
      PROVE  ObjectInv'
  <2>1. /\ made + 1 \in Insts /\ made' = made + 1 /\ state' = state
        /\ \/ sup' = sup /\ building' = [building EXCEPT ![c] = made + 1]
           \/ sup' = [sup EXCEPT ![made + 1] = "enter"] /\ building' = building
    BY <1>4, InsertChanges
  <2>2. sup[made + 1] = "none" /\ \A d \in Callers : building[d] # made + 1
    BY <1>t, <1>u, <2>1 DEF Unmade, Building
  <2>3. Unmade'
    BY <1>t, <1>u, <2>1 DEF Unmade
  <2>4. Building'
    BY <1>t, <1>u, <2>1, <2>2 DEF Building
  <2>5. Ended'
    BY <1>t, <1>u, <2>1, <2>2 DEF Ended
  <2> QED
    BY <2>3, <2>4, <2>5 DEF ObjectInv
<1>5. CASE UNCHANGED <<made, state, sup, building>>
  BY <1>5, <1>u DEF ObjectInv, Unmade, Building, Ended
<1>6. ASSUME NEW c \in Callers, NEW ids, BeginStop(c, ids)
      PROVE  UNCHANGED <<made, state, sup, building>>
  BY <1>6 DEF BeginStop, supVars
<1>7. ASSUME NEW c \in Callers, NEW id \in Ids, StopStep(c, id)
      PROVE  UNCHANGED <<made, state, sup, building>>
  BY <1>7 DEF StopStep, StopLookup, StopSeesDone, StopTimeout, StopDelete, supVars
<1>8. UNCHANGED vars => UNCHANGED <<made, state, sup, building>>
  BY DEF vars, supVars, callVars
<1> QED
  BY <1>1, <1>2, <1>3, <1>4, <1>5, <1>6, <1>7, <1>8 DEF Next, StopAll, StopCall

LEMMA ObjectInvariant == Spec => [](TypeOK /\ ObjectInv)
<1> QED
  BY InitObjects, ObjectStep, TypeInvariant, PTL DEF Spec

\* A status that reports "stopped" is final, in every behaviour of the runtime
\* (runtime.go supervise).
THEOREM StoppedFinal == Spec => StoppedIsFinal
<1> DEFINE Final == \A n \in Insts : state[n] = "stopped" =>
                      state'[n] = "stopped" /\ sup'[n] \in {"exit", "done"}
<1>1. TypeOK /\ ObjectInv /\ ObjectInv' /\ [Next]_vars => [Final]_vars
  <2> SUFFICES ASSUME TypeOK, ObjectInv, ObjectInv', [Next]_vars,
                      NEW n \in Insts, state[n] = "stopped"
               PROVE  state'[n] = "stopped" /\ sup'[n] \in {"exit", "done"}
    OBVIOUS
  <2>1. sup[n] \in {"exit", "done"}
    BY DEF ObjectInv, Ended
  <2>2. state'[n] = "stopped"
    <3>1. ASSUME NEW m \in Insts, SupStep(m) PROVE state'[n] = "stopped"
      <4>1. state \in [Insts -> {"starting", "running", "backoff", "stopped"}]
        BY DEF TypeOK
      <4>2. CASE m = n
        BY <2>1, <3>1, <4>2, SupChanges
      <4>3. CASE m # n
        <5>1. PICK z \in {"starting", "running", "backoff", "stopped"} :
                state' = [state EXCEPT ![m] = z]
          BY <3>1, SupChanges
        <5> QED
          BY <4>1, <4>3, <5>1
      <4> QED
        BY <4>2, <4>3
    <3>2. ASSUME NEW c \in Callers, BuildDone(c) \/ BuildFailed(c) \/ StopAll(c)
          PROVE  state' = state
      BY <3>2 DEF BuildDone, BuildFailed, StopAll, BeginStop, supVars
    <3>3. ASSUME NEW c \in Callers, NEW id \in Ids,
                 StartInsert(c, id) \/ StopCall(c, id) \/ StopStep(c, id)
          PROVE  state' = state
      BY <3>3 DEF StartInsert, StopCall, BeginStop, StopStep, StopLookup, StopSeesDone,
                  StopTimeout, StopDelete, supVars
    <3>4. UNCHANGED vars => state' = state
      BY DEF vars, supVars
    <3> QED
      BY <3>1, <3>2, <3>3, <3>4 DEF Next
  <2> QED
    BY <2>2 DEF ObjectInv, Ended
<1>2. Spec => [][Final]_vars
  <2>1. Spec => [][Next]_vars
    BY PTL DEF Spec
  <2> QED
    BY <1>1, <2>1, ObjectInvariant, PTL
<1> QED
  BY <1>2 DEF StoppedIsFinal

-----------------------------------------------------------------------------
(***************************************************************************)
(* The map.  ListedWhileLive is not inductive: unlisting must not hit a    *)
(* successor.  What a Stop that has looked up n is about to unlist is n    *)
(* once n is done (Pursued), since only it can unlist a finished object:   *)
(* a Start that fails unlists what it builds (Reserved), which no          *)
(* supervisor has touched, and no other Stop is under way (OneStopper).    *)
(***************************************************************************)
Named ==
  \A id \in Ids : instances[id] # 0 =>
    instances[id] <= made /\ idOf[instances[id]] = id

Reserved == \A c \in Callers : building[c] # 0 =>
              instances[idOf[building[c]]] = building[c]

Pursued ==
  \A c \in Callers, id \in Ids : stop[c][id].at \in {"wait", "delete"} =>
    LET n == stop[c][id].n IN
    /\ n \in 1 .. made /\ idOf[n] = id
    /\ stop[c][id].at = "delete" => sup[n] = "done"
    /\ sup[n] = "done" => instances[id] = n

OneStopper == \A c, d \in Callers : Stopping(c) /\ Stopping(d) => c = d

ListInv == Named /\ Reserved /\ ListedWhileLive /\ Pursued /\ OneStopper

LEMMA InitList == Init => ListInv
BY DEF Init, ListInv, Named, Reserved, ListedWhileLive, Live, Pursued, OneStopper,
       Stopping, NotStopping

LEMMA ListStep ==
  ASSUME ~OverlappingStops
  PROVE  TypeOK /\ ObjectInv /\ ListInv /\ [Next]_vars => ListInv'
<1> SUFFICES ASSUME TypeOK, ObjectInv, ListInv, [Next]_vars
             PROVE  ListInv'
  OBVIOUS
<1>t. /\ made \in Nat /\ Insts \subseteq Nat \ {0}
      /\ instances \in [Ids -> 0 .. MaxInst]
      /\ idOf \in [Insts -> Ids]
      /\ sup \in [Insts -> {"none", "enter", "run", "backoff", "exit", "done"}]
      /\ building \in [Callers -> 0 .. MaxInst]
      /\ \A c \in Callers : building[c] # 0 => building[c] \in Insts
      /\ \A id \in Ids : instances[id] # 0 => instances[id] \in Insts
      /\ 1 .. made \subseteq Insts
  BY RuntimeAssumption DEF TypeOK, Insts
<1>s. stop \in [Callers -> [Ids -> Places]]
  BY DEF TypeOK, Places
<1>u. /\ Unmade /\ Building
      /\ Named /\ Reserved /\ ListedWhileLive /\ Pursued /\ OneStopper
  BY DEF ObjectInv, ListInv
<1>1. ASSUME NEW n \in Insts, SupStep(n)
      PROVE  ListInv'
  <2>1. /\ UNCHANGED <<instances, made, idOf, building, stop>>
        /\ sup[n] \in {"enter", "run", "backoff", "exit"}
    BY <1>1, SupChanges
  <2>2. PICK w \in {"enter", "run", "backoff", "exit", "done"} :
          sup' = [sup EXCEPT ![n] = w] /\ (w = "done" <=> sup[n] = "exit")
    BY <1>1, SupChanges
  <2>3. instances[idOf[n]] = n
    BY <1>u, <2>1 DEF ListedWhileLive, Live
  <2>4. ListedWhileLive'
    BY <1>t, <1>u, <2>1, <2>2, <2>3 DEF ListedWhileLive, Live
  <2>5. Pursued'
    BY <1>t, <1>u, <2>1, <2>2, <2>3 DEF Pursued
  <2> QED
    BY <1>u, <2>1, <2>4, <2>5 DEF ListInv, Named, Reserved, OneStopper, Stopping
<1>2. ASSUME NEW c \in Callers, BuildDone(c)
      PROVE  ListInv'
  <2>1. /\ building[c] \in Insts /\ building[c] # 0
        /\ sup' = [sup EXCEPT ![building[c]] = "enter"]
        /\ building' = [building EXCEPT ![c] = 0]
        /\ UNCHANGED <<instances, made, idOf, stop>>
    BY <1>2, <1>t DEF BuildDone
  <2>2. ListedWhileLive'
    BY <1>t, <1>u, <2>1 DEF ListedWhileLive, Live, Reserved
  <2>3. Reserved'
    BY <1>t, <1>u, <2>1 DEF Reserved
  <2>4. Pursued'
    BY <1>t, <1>u, <2>1 DEF Pursued, Building
  <2> QED
    BY <1>u, <2>1, <2>2, <2>3, <2>4 DEF ListInv, Named, OneStopper, Stopping
<1>3. ASSUME NEW c \in Callers, BuildFailed(c)
      PROVE  ListInv'
  <2> DEFINE n == building[c]
  <2>1. /\ n \in Insts /\ n # 0
        /\ instances' = [instances EXCEPT ![idOf[n]] = 0]
        /\ building' = [building EXCEPT ![c] = 0]
        /\ UNCHANGED <<made, idOf, sup, stop>>
    BY <1>3, <1>t DEF BuildFailed, supVars
  <2>2. sup[n] = "none" /\ instances[idOf[n]] = n /\ idOf[n] \in Ids
    BY <1>t, <1>u, <2>1 DEF Building, Reserved
  <2> HIDE DEF n
  <2>3. ListedWhileLive'
    BY <1>t, <1>u, <2>1, <2>2 DEF ListedWhileLive, Live
  <2>4. Reserved'
    <3> SUFFICES ASSUME NEW d \in Callers, building'[d] # 0
                 PROVE  instances'[idOf[building'[d]]] = building'[d]
      BY <2>1 DEF Reserved
    <3>1. d # c /\ building'[d] = building[d] /\ building[d] \in Insts
      BY <1>t, <2>1
    <3>2. building[d] # n
      BY <1>u, <2>1, <3>1 DEF Building, n
    <3>3. instances[idOf[building[d]]] = building[d] /\ idOf[building[d]] \in Ids
      BY <1>t, <1>u, <3>1 DEF Reserved
    <3> QED
      BY <1>t, <2>1, <2>2, <3>1, <3>2, <3>3
  <2>5. Pursued'
    BY <1>t, <1>u, <2>1, <2>2 DEF Pursued
  <2>6. Named'
    BY <1>t, <1>u, <2>1, <2>2 DEF Named
  <2> QED
    BY <1>u, <2>1, <2>3, <2>4, <2>5, <2>6 DEF ListInv, OneStopper, Stopping
<1>4. ASSUME NEW c \in Callers, NEW id \in Ids, StartInsert(c, id)
      PROVE  ListInv'
  <2>1. /\ made + 1 \in Insts /\ made' = made + 1
        /\ instances[id] = 0 /\ instances' = [instances EXCEPT ![id] = made + 1]
        /\ idOf' = [idOf EXCEPT ![made + 1] = id]
        /\ \/ sup' = sup /\ building' = [building EXCEPT ![c] = made + 1]
           \/ sup' = [sup EXCEPT ![made + 1] = "enter"] /\ building' = building
        /\ stop' = stop
    BY <1>4, InsertChanges
  <2>2. /\ \A k \in 1 .. made : k \in Insts /\ idOf'[k] = idOf[k] /\ sup'[k] = sup[k]
        /\ idOf'[made + 1] = id
        /\ \A k \in Insts : k # made + 1 => idOf'[k] = idOf[k] /\ sup'[k] = sup[k]
    BY <1>t, <2>1
  <2>3. Named'
    BY <1>t, <1>u, <2>1, <2>2 DEF Named
  <2>4. ListedWhileLive'
    <3> SUFFICES ASSUME NEW k \in Insts, Live(k)'
                 PROVE  instances'[idOf'[k]] = k
      BY DEF ListedWhileLive
    <3>1. CASE k = made + 1
      BY <1>t, <2>1, <2>2, <3>1
    <3>2. CASE k # made + 1
      <4>1. instances[idOf[k]] = k /\ idOf[k] \in Ids
        BY <1>t, <1>u, <2>2, <3>2 DEF ListedWhileLive, Live
      <4> QED
        BY <1>t, <2>1, <2>2, <3>2, <4>1
    <3> QED
      BY <3>1, <3>2
  <2>5. Reserved'
    <3> SUFFICES ASSUME NEW d \in Callers, building'[d] # 0
                 PROVE  instances'[idOf'[building'[d]]] = building'[d]
      BY DEF Reserved
    <3>1. CASE building'[d] = made + 1
      BY <1>t, <2>1, <2>2, <3>1
    <3>2. CASE building'[d] # made + 1
      <4>1. building'[d] = building[d] /\ building[d] \in Insts
        BY <1>t, <2>1, <3>2
      <4>2. instances[idOf[building[d]]] = building[d] /\ idOf[building[d]] \in Ids
        BY <1>t, <1>u, <4>1 DEF Reserved
      <4> QED
        BY <1>t, <2>1, <2>2, <3>2, <4>1, <4>2
    <3> QED
      BY <3>1, <3>2
  <2>6. Pursued'
    <3> SUFFICES ASSUME NEW d \in Callers, NEW e \in Ids,
                        stop[d][e].at \in {"wait", "delete"}
                 PROVE  LET n == stop[d][e].n IN
                        /\ n \in 1 .. made + 1 /\ idOf'[n] = e
                        /\ stop[d][e].at = "delete" => sup'[n] = "done"
                        /\ sup'[n] = "done" => instances'[e] = n
      BY <2>1 DEF Pursued
    <3> DEFINE n == stop[d][e].n
    <3>1. /\ n \in 1 .. made /\ idOf[n] = e
          /\ stop[d][e].at = "delete" => sup[n] = "done"
          /\ sup[n] = "done" => instances[e] = n
      BY <1>u DEF Pursued
    <3> HIDE DEF n
    <3>2. n # 0 /\ n \in 1 .. made + 1 /\ idOf'[n] = e /\ sup'[n] = sup[n]
      BY <1>t, <2>2, <3>1
    <3>3. sup'[n] = "done" => instances'[e] = n
      BY <1>t, <2>1, <3>1, <3>2
    <3> QED
      BY <3>1, <3>2, <3>3 DEF n
  <2> QED
    BY <1>u, <2>1, <2>3, <2>4, <2>5, <2>6 DEF ListInv, OneStopper, Stopping
<1>5. ASSUME NEW c \in Callers, NEW ids, BeginStop(c, ids)
      PROVE  ListInv'
  <2>1. /\ \A d \in Callers : ~Stopping(d)
        /\ stop' = [stop EXCEPT ![c] = [id \in Ids |->
                IF id \in ids THEN [at |-> "lookup", n |-> 0] ELSE NotStopping]]
        /\ UNCHANGED <<instances, made, idOf, sup, building>>
    BY <1>5 DEF BeginStop, MayStop, supVars
  <2>2. \A d \in Callers : d # c => stop'[d] = stop[d]
    BY <1>s, <2>1
  <2>3. \A id \in Ids : stop'[c][id].at \notin {"wait", "delete"}
    BY <1>s, <2>1 DEF NotStopping
  <2>4. Pursued'
    BY <1>u, <2>1, <2>2, <2>3 DEF Pursued
  <2>5. OneStopper'
    BY <2>1, <2>2 DEF OneStopper, Stopping
  <2> QED
    BY <1>u, <2>1, <2>4, <2>5 DEF ListInv, Named, Reserved, ListedWhileLive, Live
<1>6. ASSUME NEW c \in Callers, NEW id \in Ids, StopStep(c, id)
      PROVE  ListInv'
  <2>1. PICK x \in Places : stop' = [stop EXCEPT ![c][id] = x]
    BY <1>6, StopPlaces
  <2>2. /\ stop[c][id].at # "no"
        /\ UNCHANGED <<made, idOf, sup, building>>
    BY <1>6 DEF StopStep, StopLookup, StopSeesDone, StopTimeout, StopDelete, supVars
  <2>3. /\ \A d \in Callers : d # c => stop'[d] = stop[d]
        /\ \A e \in Ids : e # id => stop'[c][e] = stop[c][e]
        /\ stop'[c][id] = x
    BY <1>s, <2>1
  <2>4. Stopping(c) /\ \A d \in Callers : d # c => ~Stopping(d)
    BY <1>u, <2>2 DEF Stopping, OneStopper
  <2>5. OneStopper'
    BY <2>3, <2>4 DEF OneStopper, Stopping
  <2>6. CASE ~StopDelete(c, id)
    <3>1. instances' = instances
      BY <1>6, <2>6 DEF StopStep, StopLookup, StopSeesDone, StopTimeout
    <3>2. x.at \in {"wait", "delete"} =>
            /\ x.n \in 1 .. made /\ idOf[x.n] = id
            /\ x.at = "delete" => sup[x.n] = "done"
            /\ sup[x.n] = "done" => instances[id] = x.n
      <4>1. CASE StopLookup(c, id)
        <5>1. x = IF instances[id] = 0 THEN NotStopping
                  ELSE [at |-> "wait", n |-> instances[id]]
          BY <1>s, <2>3, <4>1 DEF StopLookup
        <5>2. instances[id] # 0 => instances[id] \in 1 .. made /\ idOf[instances[id]] = id
          BY <1>t, <1>u DEF Named
        <5> QED
          BY <5>1, <5>2 DEF NotStopping
      <4>2. CASE StopSeesDone(c, id)
        <5>1. /\ stop[c][id].at = "wait" /\ sup[stop[c][id].n] = "done"
              /\ x.n = stop[c][id].n
          BY <1>s, <2>3, <4>2 DEF StopSeesDone, Places
        <5> QED
          BY <1>u, <5>1 DEF Pursued
      <4>3. CASE StopTimeout(c, id)
        BY <1>s, <2>3, <4>3 DEF StopTimeout, NotStopping
      <4> QED
        BY <1>6, <2>6, <4>1, <4>2, <4>3 DEF StopStep
    <3>3. Pursued'
      BY <1>u, <2>2, <2>3, <3>1, <3>2 DEF Pursued
    <3> QED
      BY <1>u, <2>2, <2>5, <3>1, <3>3 DEF ListInv, Named, Reserved, ListedWhileLive, Live
  <2>7. CASE StopDelete(c, id)
    <3> DEFINE n == stop[c][id].n
    <3>1. /\ stop[c][id].at = "delete" /\ instances' = [instances EXCEPT ![id] = 0]
          /\ x = NotStopping
      BY <1>s, <2>3, <2>7 DEF StopDelete
    <3>2. n \in Insts /\ sup[n] = "done" /\ instances[id] = n
      BY <1>t, <1>u, <3>1 DEF Pursued
    <3> HIDE DEF n
    <3>3. ListedWhileLive'
      BY <1>t, <1>u, <2>2, <3>1, <3>2 DEF ListedWhileLive, Live
    <3>4. Reserved'
      BY <1>t, <1>u, <2>2, <3>1, <3>2 DEF Reserved, Building
    <3>5. Named'
      BY <1>t, <1>u, <2>2, <3>1 DEF Named
    <3>6. Pursued'
      <4> SUFFICES ASSUME NEW d \in Callers, NEW e \in Ids,
                          stop'[d][e].at \in {"wait", "delete"}
                   PROVE  LET k == stop'[d][e].n IN
                          /\ k \in 1 .. made /\ idOf[k] = e
                          /\ stop'[d][e].at = "delete" => sup[k] = "done"
                          /\ sup[k] = "done" => instances'[e] = k
        BY <2>2 DEF Pursued
      <4>1. d = c /\ e # id
        BY <2>3, <2>4, <3>1 DEF Stopping, NotStopping
      <4>2. stop'[d][e] = stop[d][e] /\ instances'[e] = instances[e]
        BY <1>t, <2>3, <3>1, <4>1
      <4> QED
        BY <1>u, <4>2 DEF Pursued
    <3> QED
      BY <2>5, <3>3, <3>4, <3>5, <3>6 DEF ListInv
  <2> QED
    BY <2>6, <2>7
<1>7. CASE UNCHANGED vars
  BY <1>7, <1>u DEF vars, supVars, callVars, ListInv, Named, Reserved, ListedWhileLive,
                    Live, Pursued, OneStopper, Stopping
<1> QED
  BY <1>1, <1>2, <1>3, <1>4, <1>5, <1>6, <1>7 DEF Next, StopAll, StopCall

\* As long as an instance's supervisor lives its id lists it, whatever Starts,
\* crashes, failed handlers and timeouts overlap, provided that no two callers
\* are in Stop at a time, as in the server (runtime.go Start, Stop).
THEOREM ListedInvariant ==
  ASSUME ~OverlappingStops
  PROVE  Spec => []ListedWhileLive
<1>1. TypeOK /\ ObjectInv /\ ListInv /\ [Next]_vars => ListInv'
  BY ListStep
<1>2. ListInv => ListedWhileLive
  BY DEF ListInv
<1> QED
  BY <1>1, <1>2, InitList, ObjectInvariant, PTL DEF Spec
=============================================================================
