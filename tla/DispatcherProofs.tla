-------------------------- MODULE DispatcherProofs --------------------------
(***************************************************************************)
(* Proofs about the deliveries of alerts and the store of dead letters:    *)
(* what becomes of a delivery, and which accepted rows a store may lose,   *)
(* for any number of alerts, notifiers, attempts and faults.               *)
(***************************************************************************)
EXTENDS DeadLetters, FiniteSetTheorems, SequenceTheorems, TLAPS

(***************************************************************************)
(* The deliveries.  What has been counted has returned, and what is on its *)
(* way to the dead letters has a reason to be (FateOf); the deliveries of  *)
(* an alert begin together (Together), so that none begins twice.          *)
(***************************************************************************)
GaveUpFor(e) == attempt[e] = MaxAttempts \/ e \in permanent \/ cancelled

FateOf(e) ==
  /\ e \in delivered \/ e \in deadLet => job[e] = "returned"
  /\ ~(e \in delivered /\ e \in deadLet)
  /\ job[e] = "returned" /\ ~cancelled => e \in delivered \/ e \in deadLet
  /\ job[e] = "dead" \/ e \in deadLet => GaveUpFor(e)
  /\ e \in dlq => e \in deadLet

Together ==
  \A a \in Alerts : \A n, m \in Notifiers :
    job[<<a, n>>] = "none" => job[<<a, m>>] = "none"

DispInv == TypeOK /\ Together /\ \A e \in Deliveries : FateOf(e)

LEMMA MaxAttemptsPositive == MaxAttempts \in Nat \ {0}
BY DispatcherAssumption DEF MaxAttempts

LEMMA DispInvImplies == DispInv => TypeOK /\ OneFate
BY DEF DispInv, FateOf, GaveUpFor, OneFate, TypeOK

LEMMA InitDisp == Init => DispInv
<1> SUFFICES ASSUME Init PROVE DispInv
  OBVIOUS
<1>1. TypeOK
  <2>1. cancelled \in BOOLEAN
    BY Zenon DEF Init
  <2> QED
    BY <2>1, MaxAttemptsPositive DEF Init, TypeOK
<1>2. Together
  BY DEF Init, Together, Deliveries
<1>3. ASSUME NEW e \in Deliveries PROVE FateOf(e)
  BY DEF Init, FateOf
<1> QED
  BY <1>1, <1>2, <1>3 DEF DispInv

\* A step of one delivery d leaves the others their fates.
OnlyOf(d) ==
  /\ job[d] # "none" /\ job'[d] # "none"
  /\ job' = [job EXCEPT ![d] = job'[d]]
  /\ job'[d] \in {"try", "backoff", "dead", "returned", "gone"}
  /\ attempt' = [attempt EXCEPT ![d] = attempt'[d]]
  /\ attempt'[d] \in 0 .. MaxAttempts
  /\ permanent' \in {permanent, permanent \cup {d}}
  /\ delivered' \in {delivered, delivered \cup {d}}
  /\ deadLet' \in {deadLet, deadLet \cup {d}}
  /\ dlq' \in {dlq, dlq \cup {d}}
  /\ cancelled' = cancelled

LEMMA OneMoves ==
  ASSUME DispInv, NEW d \in Deliveries, OnlyOf(d), FateOf(d)'
  PROVE  DispInv'
<1>t. /\ job \in [Deliveries -> {"none", "try", "backoff", "dead", "returned", "gone"}]
      /\ attempt \in [Deliveries -> 0 .. MaxAttempts]
      /\ permanent \subseteq Deliveries /\ delivered \subseteq Deliveries
      /\ deadLet \subseteq Deliveries /\ dlq \subseteq Deliveries
  BY DEF DispInv, TypeOK
<1>1. TypeOK'
  <2>1. cancelled' \in BOOLEAN
    BY Zenon DEF DispInv, TypeOK, OnlyOf
  <2>2. job' \in [Deliveries -> {"none", "try", "backoff", "dead", "returned", "gone"}]
    BY <1>t DEF OnlyOf
  <2>3. attempt' \in [Deliveries -> 0 .. MaxAttempts]
    BY <1>t DEF OnlyOf
  <2>4. /\ permanent' \subseteq Deliveries /\ delivered' \subseteq Deliveries
        /\ deadLet' \subseteq Deliveries /\ dlq' \subseteq Deliveries
    BY <1>t DEF OnlyOf
  <2> QED
    BY <2>1, <2>2, <2>3, <2>4 DEF TypeOK
<1>2. Together'
  <2>1. \A e \in Deliveries : job'[e] = "none" <=> job[e] = "none"
    BY <1>t DEF OnlyOf
  <2>2. \A a \in Alerts : \A n \in Notifiers : <<a, n>> \in Deliveries
    BY DEF Deliveries
  <2> QED
    BY <2>1, <2>2 DEF DispInv, Together
<1>3. ASSUME NEW e \in Deliveries PROVE FateOf(e)'
  <2>1. CASE e # d
    <3>1. /\ job'[e] = job[e] /\ attempt'[e] = attempt[e] /\ cancelled' = cancelled
          /\ e \in permanent' <=> e \in permanent
          /\ e \in delivered' <=> e \in delivered
          /\ e \in deadLet' <=> e \in deadLet
          /\ e \in dlq' <=> e \in dlq
      BY <1>t, <2>1 DEF OnlyOf
    <3> QED
      BY <3>1 DEF DispInv, FateOf, GaveUpFor
  <2> QED
    BY <2>1
<1> QED
  BY <1>1, <1>2, <1>3 DEF DispInv

LEMMA DispatchStep ==
  ASSUME DispInv, DispatchNext
  PROVE  DispInv'
<1>1. PICK a \in Alerts : ~Dispatched(a) /\ Dispatch(a)
  BY DEF DispatchNext
<1>t. /\ job \in [Deliveries -> {"none", "try", "backoff", "dead", "returned", "gone"}]
      /\ attempt \in [Deliveries -> 0 .. MaxAttempts]
      /\ permanent \subseteq Deliveries /\ delivered \subseteq Deliveries
      /\ deadLet \subseteq Deliveries /\ dlq \subseteq Deliveries
      /\ UNCHANGED <<permanent, delivered, deadLet, dlq, cancelled>>
  BY <1>1 DEF DispInv, TypeOK, Dispatch, DispatchNext
<1>2. /\ job' = [e \in Deliveries |-> IF e[1] = a THEN "try" ELSE job[e]]
      /\ attempt' = [e \in Deliveries |-> IF e[1] = a THEN 1 ELSE attempt[e]]
  BY <1>1 DEF Dispatch
<1>3. ASSUME NEW e \in Deliveries, e[1] = a PROVE job[e] = "none"
  <2>1. PICK n \in Notifiers : job[<<a, n>>] = "none"
    BY <1>1 DEF Dispatched
  <2>2. PICK m \in Notifiers : e = <<a, m>>
    BY <1>3 DEF Deliveries
  <2> QED
    BY <2>1, <2>2 DEF DispInv, Together
<1>4. TypeOK'
  <2>1. cancelled' \in BOOLEAN
    BY <1>t, Zenon DEF DispInv, TypeOK
  <2>2. job' \in [Deliveries -> {"none", "try", "backoff", "dead", "returned", "gone"}]
    BY <1>t, <1>2
  <2>3. attempt' \in [Deliveries -> 0 .. MaxAttempts]
    BY <1>t, <1>2, MaxAttemptsPositive
  <2> QED
    BY <1>t, <2>1, <2>2, <2>3 DEF TypeOK
<1>5. Together'
  <2> SUFFICES ASSUME NEW b \in Alerts, NEW n \in Notifiers, NEW m \in Notifiers,
                      job'[<<b, n>>] = "none"
               PROVE  job'[<<b, m>>] = "none"
    BY DEF Together
  <2>1. /\ <<b, n>> \in Deliveries /\ <<b, m>> \in Deliveries
        /\ <<b, n>>[1] = b /\ <<b, m>>[1] = b
    BY DEF Deliveries
  <2>2. b # a /\ job[<<b, n>>] = "none"
    BY <1>2, <2>1
  <2> QED
    BY <1>2, <2>1, <2>2 DEF DispInv, Together
<1>6. ASSUME NEW e \in Deliveries PROVE FateOf(e)'
  <2>1. FateOf(e)
    BY DEF DispInv
  <2>2. CASE e[1] = a
    BY <1>t, <1>2, <1>3, <2>1, <2>2 DEF FateOf
  <2>3. CASE e[1] # a
    BY <1>t, <1>2, <2>1, <2>3 DEF FateOf, GaveUpFor
  <2> QED
    BY <2>2, <2>3
<1> QED
  BY <1>4, <1>5, <1>6 DEF DispInv

LEMMA CancelStep ==
  ASSUME DispInv, Cancel
  PROVE  DispInv'
<1>1. /\ UNCHANGED <<job, attempt, permanent, delivered, deadLet, dlq>> /\ cancelled'
  BY DEF Cancel, dispVars
<1>2. TypeOK'
  <2>1. cancelled' \in BOOLEAN
    BY Zenon DEF Cancel
  <2> QED
    BY <1>1, <2>1 DEF DispInv, TypeOK
<1> QED
  BY <1>1, <1>2 DEF DispInv, Together, FateOf, GaveUpFor

\* The steps of a delivery, but the last.
LEMMA DeliverySteps ==
  ASSUME DispInv, NEW d \in Deliveries,
         \/ DeliverOk(d) \/ DeliverFails(d)
         \/ \E perm \in BOOLEAN : DeliverGivesUp(d, perm)
         \/ BackoffElapses(d) \/ BackoffCancelled(d)
  PROVE  DispInv'
<1>t. /\ job \in [Deliveries -> {"none", "try", "backoff", "dead", "returned", "gone"}]
      /\ attempt \in [Deliveries -> 0 .. MaxAttempts] /\ attempt[d] \in 0 .. MaxAttempts
      /\ attempt = [attempt EXCEPT ![d] = attempt[d]] /\ FateOf(d)
      /\ MaxAttempts \in Nat
  BY MaxAttemptsPositive DEF DispInv, TypeOK
<1>1. CASE DeliverOk(d)
  <2>1. job' = [job EXCEPT ![d] = "returned"] /\ job'[d] = "returned"
    BY <1>t, <1>1 DEF DeliverOk
  <2>2. OnlyOf(d)
    BY <1>t, <1>1, <2>1 DEF DeliverOk, OnlyOf
  <2>3. FateOf(d)'
    BY <1>t, <1>1, <2>1 DEF DeliverOk, FateOf
  <2> QED
    BY <2>2, <2>3, OneMoves
<1>2. CASE DeliverFails(d)
  <2>1. job' = [job EXCEPT ![d] = "backoff"] /\ job'[d] = "backoff"
    BY <1>t, <1>2 DEF DeliverFails
  <2>2. OnlyOf(d)
    BY <1>t, <1>2, <2>1 DEF DeliverFails, OnlyOf
  <2>3. FateOf(d)'
    BY <1>t, <1>2, <2>1 DEF DeliverFails, FateOf
  <2> QED
    BY <2>2, <2>3, OneMoves
<1>3. CASE \E perm \in BOOLEAN : DeliverGivesUp(d, perm)
  <2>p. PICK perm \in BOOLEAN : DeliverGivesUp(d, perm)
    BY <1>3
  <2>1. job' = [job EXCEPT ![d] = "dead"] /\ job'[d] = "dead"
    BY <1>t, <2>p DEF DeliverGivesUp
  <2>2. OnlyOf(d)
    BY <1>t, <2>p, <2>1 DEF DeliverGivesUp, OnlyOf
  <2>3. FateOf(d)'
    BY <1>t, <2>p, <2>1 DEF DeliverGivesUp, FateOf, GaveUpFor
  <2> QED
    BY <2>2, <2>3, OneMoves
<1>4. CASE BackoffElapses(d)
  <2>1. CASE attempt[d] < MaxAttempts
    <3>1. /\ job' = [job EXCEPT ![d] = "try"] /\ job'[d] = "try"
          /\ attempt' = [attempt EXCEPT ![d] = attempt[d] + 1]
          /\ attempt'[d] = attempt[d] + 1
      BY <1>t, <1>4, <2>1 DEF BackoffElapses
    <3>2. OnlyOf(d)
      BY <1>t, <1>4, <2>1, <3>1 DEF BackoffElapses, OnlyOf
    <3>3. FateOf(d)'
      BY <1>t, <1>4, <3>1 DEF BackoffElapses, FateOf
    <3> QED
      BY <3>2, <3>3, OneMoves
  <2>2. CASE ~(attempt[d] < MaxAttempts)
    <3>1. /\ job' = [job EXCEPT ![d] = "dead"] /\ job'[d] = "dead"
          /\ attempt' = attempt /\ attempt[d] = MaxAttempts
      BY <1>t, <1>4, <2>2 DEF BackoffElapses
    <3>2. OnlyOf(d)
      BY <1>t, <1>4, <3>1 DEF BackoffElapses, OnlyOf
    <3>3. FateOf(d)'
      BY <1>t, <1>4, <3>1 DEF BackoffElapses, FateOf, GaveUpFor
    <3> QED
      BY <3>2, <3>3, OneMoves
  <2> QED
    BY <2>1, <2>2
<1>5. CASE BackoffCancelled(d)
  <2>1. job' = [job EXCEPT ![d] = "returned"] /\ job'[d] = "returned"
    BY <1>t, <1>5 DEF BackoffCancelled
  <2>2. OnlyOf(d)
    BY <1>t, <1>5, <2>1 DEF BackoffCancelled, OnlyOf
  <2>3. FateOf(d)'
    BY <1>t, <1>5, <2>1 DEF BackoffCancelled, FateOf
  <2> QED
    BY <2>2, <2>3, OneMoves
<1> QED
  BY <1>1, <1>2, <1>3, <1>4, <1>5

LEMMA DeadLetterStep ==
  ASSUME DispInv, NEW d \in Deliveries, DeadLetter(d)
  PROVE  DispInv'
<1>t. /\ job \in [Deliveries -> {"none", "try", "backoff", "dead", "returned", "gone"}]
      /\ attempt \in [Deliveries -> 0 .. MaxAttempts] /\ attempt[d] \in 0 .. MaxAttempts
      /\ attempt = [attempt EXCEPT ![d] = attempt[d]] /\ FateOf(d)
  BY DEF DispInv, TypeOK
<1>1. job' = [job EXCEPT ![d] = "returned"] /\ job'[d] = "returned"
  BY <1>t DEF DeadLetter
<1>2. OnlyOf(d)
  BY <1>t, <1>1 DEF DeadLetter, OnlyOf
<1>3. FateOf(d)'
  BY <1>t, <1>1 DEF DeadLetter, FateOf, GaveUpFor
<1> QED
  BY <1>2, <1>3, OneMoves

LEMMA RestartDisp ==
  ASSUME DispInv, Restart
  PROVE  DispInv'
<1>1. /\ job' = [d \in Deliveries |-> IF job[d] = "none" THEN "none" ELSE "gone"]
      /\ attempt' = [d \in Deliveries |-> 0]
      /\ permanent' = {} /\ delivered' = {} /\ deadLet' = {} /\ dlq' = {}
  BY DEF Restart
<1>2. TypeOK'
  <2>1. cancelled' \in BOOLEAN
    BY Zenon DEF Restart
  <2> QED
    BY <1>1, <2>1, MaxAttemptsPositive DEF TypeOK
<1>3. Together'
  <2>1. \A a \in Alerts : \A n \in Notifiers : <<a, n>> \in Deliveries
    BY DEF Deliveries
  <2> QED
    BY <1>1, <2>1 DEF DispInv, Together
<1>4. ASSUME NEW e \in Deliveries PROVE FateOf(e)'
  BY <1>1 DEF FateOf
<1> QED
  BY <1>2, <1>3, <1>4 DEF DispInv

LEMMA DispStep == DispInv /\ [NextDLQ]_allVars => DispInv'
<1> SUFFICES ASSUME DispInv, [NextDLQ]_allVars PROVE DispInv'
  OBVIOUS
<1>1. CASE UNCHANGED allVars
  <2>1. UNCHANGED <<job, attempt, permanent, delivered, deadLet, dlq, cancelled>>
    BY <1>1 DEF allVars, vars, dispVars
  <2> QED
    BY <2>1 DEF DispInv, TypeOK, Together, FateOf, GaveUpFor
<1> QED
  BY <1>1, DispatchStep, CancelStep, RestartDisp, DeliverySteps, DeadLetterStep
  DEF NextDLQ, JobStepDLQ, Insert

LEMMA DispInvariant == SpecDLQ => []DispInv
<1>1. InitDLQ => DispInv
  BY InitDisp DEF InitDLQ
<1> QED
  BY <1>1, DispStep, PTL DEF SpecDLQ

\* Every variable of the deliveries has its type, whatever fails and however
\* often the server restarts (alerts/notify.go).
THEOREM TypeCorrect == SpecDLQ => []TypeOK
BY DispInvariant, DispInvImplies, PTL

\* A delivery that returns was delivered or dead-lettered, never both, and gives
\* up only for a cause, for any number of notifiers, alerts and attempts
\* (alerts/notify.go deliverWithRetry).
THEOREM EveryDeliveryHasOneFate == SpecDLQ => []OneFate
BY DispInvariant, DispInvImplies, PTL

-----------------------------------------------------------------------------
(***************************************************************************)
(* The stores.  In the file every lost row is paid for by a torn write, and *)
(* every piece of the last line by one more: the next newline may cost the *)
(* row that ends it (FileInv).  The ring loses its oldest row only when it *)
(* is full (RingInv); a row is accepted once, since its delivery is over.  *)
(***************************************************************************)
FileLost == acked.file \ rows
RingLost == acked.memory \ Range(entries)

Piece == [row : Deliveries, whole : BOOLEAN]

StoreType ==
  /\ store \in {"file", "memory"}
  /\ tail \in Seq(Piece) /\ entries \in Seq(Deliveries)
  /\ torn \in Nat
  /\ acked \in [{"file", "memory"} -> SUBSET Deliveries]

FileInv ==
  /\ IsFiniteSet(acked.file)
  /\ Cardinality(FileLost) + Len(tail) <= torn

RingInv ==
  /\ IsFiniteSet(acked.memory)
  /\ \A d \in acked.memory : job[d] = "returned"
  /\ Len(entries) <= MaxEntries
  /\ Cardinality(RingLost) + Len(entries) <= Cardinality(acked.memory)
  /\ Len(entries) < MaxEntries => RingLost = {}

StoreInv == StoreType /\ FileInv /\ RingInv

LEMMA MaxEntriesPositive == MaxEntries \in Nat \ {0}
BY DeadLettersAssumption DEF MaxEntries

\* A finite set to which at most one element has been added, and its size.
LEMMA OneMore ==
  ASSUME NEW S, IsFiniteSet(S), NEW x, NEW T, T \subseteq S \cup {x}
  PROVE  /\ IsFiniteSet(T) /\ Cardinality(T) \in Nat /\ Cardinality(S) \in Nat
         /\ Cardinality(T) <= Cardinality(S) + 1
<1>1. /\ IsFiniteSet(S \cup {x}) /\ Cardinality(S) \in Nat
      /\ Cardinality(S \cup {x}) \in {Cardinality(S), Cardinality(S) + 1}
  BY FS_AddElement, FS_CardinalityType
<1>2. IsFiniteSet(T) /\ Cardinality(T) <= Cardinality(S \cup {x})
  BY <1>1, FS_Subset
<1>3. Cardinality(T) \in Nat
  BY <1>2, FS_CardinalityType
<1> QED
  BY <1>1, <1>2, <1>3

LEMMA NoMore ==
  ASSUME NEW S, IsFiniteSet(S), NEW T, T \subseteq S
  PROVE  /\ IsFiniteSet(T) /\ Cardinality(T) \in Nat /\ Cardinality(S) \in Nat
         /\ Cardinality(T) <= Cardinality(S)
BY FS_Subset, FS_CardinalityType

LEMMA InitStore == StoreInit => StoreInv
<1> SUFFICES ASSUME StoreInit PROVE StoreInv
  OBVIOUS
<1>1. /\ rows = {} /\ tail = <<>> /\ entries = <<>> /\ torn = 0
      /\ acked = [k \in {"file", "memory"} |-> {}]
      /\ store \in {"file", "memory"}
  BY DEF StoreInit, Resolved
<1>2. Len(tail) = 0 /\ Len(entries) = 0 /\ acked.file = {} /\ acked.memory = {}
  BY <1>1
<1>3. StoreType
  BY <1>1 DEF StoreType
<1>4. IsFiniteSet({}) /\ Cardinality({}) = 0 /\ FileLost = {} /\ RingLost = {}
  BY <1>2, FS_EmptySet DEF FileLost, RingLost
<1> QED
  BY <1>1, <1>2, <1>3, <1>4, MaxEntriesPositive DEF StoreInv, FileInv, RingInv

\* A line that has been cut, or whose sync failed: one more piece is one more
\* torn write, and a newline only adds rows.
LEMMA InsertFailsKeeps ==
  ASSUME StoreType, FileInv, NEW d \in Deliveries, InsertFails(d), acked'.file = acked.file
  PROVE  tail' \in Seq(Piece) /\ torn' \in Nat /\ FileInv'
<1>t. /\ tail \in Seq(Piece) /\ Len(tail) \in Nat /\ torn \in Nat /\ IsFiniteSet(acked.file)
      /\ Cardinality(FileLost) + Len(tail) <= torn
  BY LenProperties DEF StoreType, FileInv
<1>c. IsFiniteSet(FileLost) /\ Cardinality(FileLost) \in Nat
  BY <1>t, NoMore DEF FileLost
<1>1. CASE UNCHANGED <<rows, tail, torn>>
  BY <1>1, <1>t DEF FileInv, FileLost
<1>2. ASSUME NEW whole \in BOOLEAN, WriteFile(d, whole, FALSE)
      PROVE  tail' \in Seq(Piece) /\ torn' \in Nat /\ FileInv'
  <2> DEFINE piece == [row |-> d, whole |-> whole]
  <2>1. piece \in Piece
    BY DEF Piece
  <2>2. tail' = Append(tail, piece) /\ torn' = torn + 1 /\ rows' = rows
    BY <1>2 DEF WriteFile
  <2> HIDE DEF piece
  <2>3. tail' \in Seq(Piece) /\ Len(tail') = Len(tail) + 1
    BY <1>t, <2>1, <2>2, AppendProperties
  <2>4. FileLost' = FileLost
    BY <2>2 DEF FileLost
  <2> QED
    BY <1>t, <1>c, <2>2, <2>3, <2>4 DEF FileInv
<1>3. CASE WriteFile(d, TRUE, TRUE)
  <2>1. tail' = <<>> /\ torn' = torn + 0 /\ rows \subseteq rows'
    BY <1>3 DEF WriteFile
  <2>2. FileLost' \subseteq FileLost
    BY <2>1 DEF FileLost
  <2>3. Cardinality(FileLost') \in Nat /\ Cardinality(FileLost') <= Cardinality(FileLost)
    BY <1>c, <2>2, NoMore
  <2>4. tail' \in Seq(Piece) /\ Len(tail') = 0 /\ torn' = torn
    BY <1>t, <2>1, EmptySeq
  <2> QED
    BY <1>t, <1>c, <2>3, <2>4 DEF FileInv
<1> QED
  BY <1>1, <1>2, <1>3 DEF InsertFails

\* An insert that is accepted: its row is in the file, unless there was a piece
\* before it in the line.
LEMMA FileAccepts ==
  ASSUME StoreType, FileInv, NEW d \in Deliveries, WriteFile(d, TRUE, TRUE),
         acked'.file = acked.file \cup {d}
  PROVE  tail' \in Seq(Piece) /\ torn' \in Nat /\ FileInv'
<1>t. /\ tail \in Seq(Piece) /\ Len(tail) \in Nat /\ torn \in Nat /\ IsFiniteSet(acked.file)
      /\ Cardinality(FileLost) + Len(tail) <= torn
  BY LenProperties DEF StoreType, FileInv
<1>c. IsFiniteSet(FileLost) /\ Cardinality(FileLost) \in Nat
  BY <1>t, NoMore DEF FileLost
<1>f. IsFiniteSet(acked'.file)
  BY <1>t, OneMore
<1> DEFINE line == Append(tail, [row |-> d, whole |-> TRUE])
<1>1. /\ tail' = <<>> /\ torn' = torn + 0 /\ rows' = rows \cup RowOf(line)
  BY DEF WriteFile
<1>2. tail' \in Seq(Piece) /\ Len(tail') = 0 /\ torn' = torn
  BY <1>t, <1>1, EmptySeq
<1>3. CASE tail = <<>>
  <2>1. line = << [row |-> d, whole |-> TRUE] >>
    BY <1>3
  <2>2. Len(line) = 1 /\ line[1] = [row |-> d, whole |-> TRUE]
    BY <2>1
  <2>3. RowOf(line) = {d}
    BY <2>2 DEF RowOf
  <2>4. FileLost' \subseteq FileLost
    BY <1>1, <2>3 DEF FileLost
  <2>5. Cardinality(FileLost') \in Nat /\ Cardinality(FileLost') <= Cardinality(FileLost)
    BY <1>c, <2>4, NoMore
  <2> QED
    BY <1>t, <1>c, <1>f, <1>2, <2>5 DEF FileInv
<1>4. CASE tail # <<>>
  <2>1. Len(tail) >= 1
    BY <1>t, <1>4, EmptySeq
  <2>2. FileLost' \subseteq FileLost \cup {d}
    BY <1>1 DEF FileLost
  <2>3. Cardinality(FileLost') \in Nat /\ Cardinality(FileLost') <= Cardinality(FileLost) + 1
    BY <1>c, <2>2, OneMore
  <2> QED
    BY <1>t, <1>c, <1>f, <1>2, <2>1, <2>3 DEF FileInv
<1> QED
  BY <1>3, <1>4

\* The ring takes a row it has not had: the oldest makes room when it is full.
LEMMA RingAccepts ==
  ASSUME StoreType, RingInv, NEW d \in Deliveries, d \notin acked.memory,
         entries' = Evict(Append(entries, d)), acked'.memory = acked.memory \cup {d}
  PROVE  /\ entries' \in Seq(Deliveries) /\ IsFiniteSet(acked'.memory)
         /\ Len(entries') <= MaxEntries
         /\ Cardinality(RingLost') + Len(entries') <= Cardinality(acked'.memory)
         /\ (Len(entries') < MaxEntries => RingLost' = {})
<1> DEFINE longer == Append(entries, d)
<1>t. /\ entries \in Seq(Deliveries) /\ Len(entries) \in Nat /\ MaxEntries \in Nat \ {0}
      /\ IsFiniteSet(acked.memory) /\ Len(entries) <= MaxEntries
      /\ Cardinality(RingLost) + Len(entries) <= Cardinality(acked.memory)
      /\ Len(entries) < MaxEntries => RingLost = {}
  BY LenProperties, MaxEntriesPositive DEF StoreType, RingInv
<1>c. IsFiniteSet(RingLost) /\ Cardinality(RingLost) \in Nat /\ Cardinality(acked.memory) \in Nat
  BY <1>t, NoMore DEF RingLost
<1>f. /\ IsFiniteSet(acked'.memory)
      /\ Cardinality(acked'.memory) = Cardinality(acked.memory) + 1
  BY <1>t, FS_AddElement
<1>1. /\ longer \in Seq(Deliveries) /\ Len(longer) = Len(entries) + 1
      /\ \A i \in 1 .. Len(entries) : longer[i] = entries[i]
      /\ longer[Len(entries) + 1] = d
  BY <1>t, AppendProperties
<1>r. \A s \in Seq(Deliveries) : Range(s) = {s[i] : i \in 1 .. Len(s)}
  BY LenProperties DEF Range
<1> HIDE DEF longer
<1>2. CASE Len(longer) <= MaxEntries
  <2>1. entries' = longer
    BY <1>t, <1>1, <1>2 DEF Evict, longer
  <2>2. Range(entries) \cup {d} \subseteq Range(longer)
    <3>1. \A i \in 1 .. Len(entries) : i \in 1 .. Len(longer) /\ longer[i] = entries[i]
      BY <1>t, <1>1
    <3>2. Len(longer) \in 1 .. Len(longer) /\ longer[Len(longer)] = d
      BY <1>t, <1>1
    <3> QED
      BY <1>t, <1>1, <1>r, <3>1, <3>2
  <2>3. RingLost = {} /\ RingLost' = {}
    BY <1>t, <1>1, <1>2, <2>1, <2>2 DEF RingLost
  <2>4. Cardinality(RingLost) = 0 /\ Cardinality(RingLost') = 0
    BY <2>3, FS_EmptySet
  <2> QED
    BY <1>t, <1>c, <1>f, <1>1, <1>2, <2>1, <2>3, <2>4
<1>3. CASE ~(Len(longer) <= MaxEntries)
  <2>1. /\ Len(entries) = MaxEntries /\ Len(longer) = MaxEntries + 1
        /\ entries' = SubSeq(longer, 2, MaxEntries + 1)
    <3>1. Len(entries) = MaxEntries /\ Len(longer) = MaxEntries + 1
      BY <1>t, <1>1, <1>3
    <3>2. entries' = SubSeq(longer, Len(longer) - MaxEntries + 1, Len(longer))
      <4>1. Len(Append(entries, d)) > MaxEntries
        BY <1>t, <3>1 DEF longer
      <4> QED
        BY <4>1 DEF Evict, longer
    <3>3. Len(longer) - MaxEntries + 1 = 2
      BY <1>t, <3>1
    <3> QED
      BY <3>1, <3>2, <3>3
  <2>2. \A i \in 2 .. MaxEntries + 1 : longer[i] \in Deliveries
    BY <1>1, <2>1, ElementOfSeq, <1>t
  <2>3. /\ entries' \in Seq(Deliveries) /\ Len(entries') = MaxEntries
        /\ \A i \in 1 .. MaxEntries : entries'[i] = longer[i + 1]
    <3>1. /\ SubSeq(longer, 2, MaxEntries + 1) \in Seq(Deliveries)
          /\ Len(SubSeq(longer, 2, MaxEntries + 1)) =
               IF 2 <= MaxEntries + 1 THEN MaxEntries + 1 - 2 + 1 ELSE 0
          /\ \A i \in 1 .. MaxEntries + 1 - 2 + 1 :
               SubSeq(longer, 2, MaxEntries + 1)[i] = longer[2 + i - 1]
      BY <1>t, <2>2, SubSeqProperties
    <3> QED
      BY <1>t, <2>1, <3>1
  <2>4. Range(entries) \cup {d} \subseteq Range(entries') \cup {entries[1]}
    <3>1. ASSUME NEW i \in 1 .. Len(entries), i # 1
          PROVE  i - 1 \in 1 .. Len(entries') /\ entries'[i - 1] = entries[i]
      BY <1>t, <1>1, <2>1, <2>3, <3>1
    <3>2. MaxEntries \in 1 .. Len(entries') /\ entries'[MaxEntries] = d
      BY <1>t, <1>1, <2>1, <2>3
    <3>3. \A i \in 1 .. Len(entries) : entries[i] \in Range(entries') \cup {entries[1]}
      BY <1>r, <2>3, <3>1
    <3> QED
      BY <1>t, <1>r, <2>3, <3>2, <3>3
  <2>5. RingLost' \subseteq RingLost \cup {entries[1]}
    BY <2>4 DEF RingLost
  <2>6. Cardinality(RingLost') \in Nat /\ Cardinality(RingLost') <= Cardinality(RingLost) + 1
    BY <1>c, <2>5, OneMore
  <2> QED
    BY <1>t, <1>c, <1>f, <2>1, <2>3, <2>6
<1> QED
  BY <1>2, <1>3

LEMMA StoreRests ==
  ASSUME DispInv, StoreInv, UNCHANGED storeVars,
         \A d \in Deliveries : job[d] = "returned" => job'[d] = "returned"
  PROVE  StoreInv'
<1>1. UNCHANGED <<store, rows, tail, entries, acked, torn, faults>>
  BY DEF storeVars
<1>2. \A d \in acked.memory : job'[d] = "returned"
  BY DEF StoreInv, StoreType, RingInv
<1> QED
  BY <1>1, <1>2 DEF StoreInv, StoreType, FileInv, RingInv, FileLost, RingLost

LEMMA InsertStep ==
  ASSUME DispInv, StoreInv, NEW d \in Deliveries, Insert(d)
  PROVE  StoreInv'
<1>t. /\ StoreType /\ FileInv /\ RingInv
      /\ job \in [Deliveries -> {"none", "try", "backoff", "dead", "returned", "gone"}]
      /\ store \in {"file", "memory"} /\ entries \in Seq(Deliveries)
      /\ acked \in [{"file", "memory"} -> SUBSET Deliveries]
      /\ acked.memory \subseteq Deliveries /\ tail \in Seq(Piece) /\ torn \in Nat
  BY DEF DispInv, TypeOK, StoreInv, StoreType
<1>1. job[d] = "dead" /\ job' = [job EXCEPT ![d] = "returned"] /\ store' = store
  BY DEF Insert, DeadLetter
<1>2. d \notin acked.memory
  BY <1>1, <1>t DEF RingInv
<1>3. \A e \in acked.memory \cup {d} : job'[e] = "returned"
  BY <1>1, <1>t DEF RingInv
<1>4. CASE /\ store = "file" /\ WriteFile(d, TRUE, TRUE) /\ entries' = entries
           /\ acked' = [acked EXCEPT ![store] = acked[store] \cup {d}]
  <2>1. /\ acked' \in [{"file", "memory"} -> SUBSET Deliveries]
        /\ acked'.file = acked.file \cup {d} /\ acked'.memory = acked.memory
    BY <1>t, <1>4
  <2>2. tail' \in Seq(Piece) /\ torn' \in Nat /\ FileInv'
    BY <1>t, <1>4, <2>1, FileAccepts
  <2>3. RingInv'
    BY <1>t, <1>3, <1>4, <2>1 DEF RingInv, RingLost
  <2> QED
    BY <1>t, <1>1, <1>4, <2>1, <2>2, <2>3 DEF StoreInv, StoreType
<1>5. CASE /\ store = "memory" /\ entries' = Evict(Append(entries, d))
           /\ UNCHANGED <<rows, tail, torn>>
           /\ acked' = [acked EXCEPT ![store] = acked[store] \cup {d}]
  <2>1. /\ acked' \in [{"file", "memory"} -> SUBSET Deliveries]
        /\ acked'.memory = acked.memory \cup {d} /\ acked'.file = acked.file
    BY <1>t, <1>5
  <2>2. /\ entries' \in Seq(Deliveries) /\ IsFiniteSet(acked'.memory)
        /\ Len(entries') <= MaxEntries
        /\ Cardinality(RingLost') + Len(entries') <= Cardinality(acked'.memory)
        /\ Len(entries') < MaxEntries => RingLost' = {}
    BY <1>t, <1>2, <1>5, <2>1, RingAccepts
  <2>3. RingInv'
    BY <1>3, <2>1, <2>2 DEF RingInv
  <2>4. FileInv'
    BY <1>t, <1>5, <2>1 DEF FileInv, FileLost
  <2> QED
    BY <1>t, <1>1, <1>5, <2>1, <2>2, <2>3, <2>4 DEF StoreInv, StoreType
<1>6. CASE InsertFails(d) /\ UNCHANGED <<entries, acked>>
  <2>1. tail' \in Seq(Piece) /\ torn' \in Nat /\ FileInv'
    BY <1>t, <1>6, InsertFailsKeeps
  <2>2. RingInv'
    BY <1>t, <1>3, <1>6 DEF RingInv, RingLost
  <2> QED
    BY <1>t, <1>1, <1>6, <2>1, <2>2 DEF StoreInv, StoreType
<1>7. store = "file" \/ store = "memory"
  BY <1>t
<1> QED
  BY <1>4, <1>5, <1>6, <1>7 DEF Insert

LEMMA RestartStore ==
  ASSUME DispInv, StoreInv, Restart
  PROVE  StoreInv'
<1>t. /\ StoreType /\ FileInv /\ tail \in Seq(Piece) /\ torn \in Nat
      /\ acked \in [{"file", "memory"} -> SUBSET Deliveries]
  BY DEF StoreInv, StoreType
<1>1. /\ store' \in {"file", "memory"} /\ entries' = <<>>
      /\ acked' = [acked EXCEPT !.memory = {}]
  BY DEF Restart, Resolved
<1>2. /\ acked' \in [{"file", "memory"} -> SUBSET Deliveries]
      /\ acked'.memory = {} /\ acked'.file = acked.file
  BY <1>t, <1>1
<1>3. tail' \in Seq(Piece) /\ torn' \in Nat /\ FileInv'
  <2>1. CASE UNCHANGED <<rows, tail, torn>>
    BY <1>t, <1>2, <2>1 DEF FileInv, FileLost
  <2>2. CASE \E d \in Deliveries : InsertFails(d)
    BY <1>t, <1>2, <2>2, InsertFailsKeeps
  <2> QED
    BY <2>1, <2>2 DEF Restart
<1>4. RingInv'
  <2>1. Len(entries') = 0 /\ RingLost' = {} /\ IsFiniteSet({}) /\ Cardinality({}) = 0
    BY <1>1, <1>2, FS_EmptySet DEF RingLost
  <2> QED
    BY <1>2, <2>1, MaxEntriesPositive DEF RingInv
<1>5. entries' \in Seq(Deliveries)
  BY <1>1, EmptySeq
<1> QED
  BY <1>1, <1>2, <1>3, <1>4, <1>5 DEF StoreInv, StoreType

LEMMA StoreStep == DispInv /\ StoreInv /\ [NextDLQ]_allVars => StoreInv'
<1> SUFFICES ASSUME DispInv, StoreInv, [NextDLQ]_allVars PROVE StoreInv'
  OBVIOUS
<1>t. job \in [Deliveries -> {"none", "try", "backoff", "dead", "returned", "gone"}]
  BY DEF DispInv, TypeOK
<1>1. CASE UNCHANGED allVars
  BY <1>1, StoreRests DEF allVars, vars, dispVars
<1>2. CASE DispatchNext /\ UNCHANGED storeVars
  <2>1. PICK a \in Alerts : ~Dispatched(a) /\ Dispatch(a)
    BY <1>2 DEF DispatchNext
  <2>2. ASSUME NEW e \in Deliveries, job[e] = "returned" PROVE job'[e] = "returned"
    <3>1. PICK n \in Notifiers : job[<<a, n>>] = "none"
      BY <2>1 DEF Dispatched
    <3>2. e[1] # a
      <4>1. ASSUME e[1] = a PROVE FALSE
        <5>1. PICK m \in Notifiers : e = <<a, m>>
          BY <4>1 DEF Deliveries
        <5> QED
          BY <2>2, <3>1, <5>1 DEF DispInv, Together
      <4> QED
        BY <4>1
    <3> QED
      BY <2>1, <2>2, <3>2 DEF Dispatch
  <2> QED
    BY <1>2, <2>2, StoreRests
<1>3. CASE Cancel /\ UNCHANGED storeVars
  BY <1>3, StoreRests DEF Cancel, dispVars
<1>4. ASSUME NEW d \in Deliveries, UNCHANGED storeVars,
             \/ DeliverOk(d) \/ DeliverFails(d)
             \/ \E perm \in BOOLEAN : DeliverGivesUp(d, perm)
             \/ BackoffElapses(d) \/ BackoffCancelled(d)
      PROVE  StoreInv'
  <2>1. job[d] # "returned" /\ \A e \in Deliveries : e # d => job'[e] = job[e]
    BY <1>4, <1>t DEF DeliverOk, DeliverFails, DeliverGivesUp, BackoffElapses,
       BackoffCancelled
  <2> QED
    BY <1>4, <2>1, StoreRests
<1> QED
  BY <1>1, <1>2, <1>3, <1>4, InsertStep, RestartStore DEF NextDLQ, JobStepDLQ

\* A dead letter once accepted is listed from then on, but for those that torn
\* writes and a full ring account for, however often inserts fail and the
\* machine stops (alerts/deadletter.go InsertDeadLetter, ListDeadLetters).
THEOREM AcceptedRowsKept == SpecDLQ => []LossesAccounted
<1>1. InitDLQ => DispInv /\ StoreInv
  BY InitDisp, InitStore DEF InitDLQ
<1>2. StoreInv => LossesAccounted
  <2> SUFFICES ASSUME StoreInv PROVE LossesAccounted
    OBVIOUS
  <2>t. /\ IsFiniteSet(acked.file) /\ IsFiniteSet(acked.memory)
        /\ Cardinality(FileLost) + Len(tail) <= torn /\ Len(tail) \in Nat
        /\ Len(entries) \in Nat /\ torn \in Nat
        /\ Cardinality(RingLost) + Len(entries) <= Cardinality(acked.memory)
        /\ Len(entries) < MaxEntries => RingLost = {}
    BY LenProperties DEF StoreInv, StoreType, FileInv, RingInv
  <2>1. IsFiniteSet(FileLost) /\ Cardinality(FileLost) \in Nat
    BY <2>t, NoMore DEF FileLost
  <2>2. /\ Cardinality(RingLost) \in Nat /\ Cardinality(acked.memory) \in Nat
        /\ RingLost = {} => Cardinality(RingLost) = 0
    BY <2>t, NoMore, FS_EmptySet DEF RingLost
  <2>3. acked["file"] \ Listed["file"] \subseteq FileLost /\ Listed["memory"] = Range(entries)
    BY DEF Listed, FileLost
  <2>4. /\ Cardinality(acked["file"] \ Listed["file"]) \in Nat
        /\ Cardinality(acked["file"] \ Listed["file"]) <= Cardinality(FileLost)
    BY <2>1, <2>3, NoMore
  <2>5. acked["memory"] \ Listed["memory"] = RingLost
    BY <2>3 DEF RingLost
  <2>6. Cardinality(acked["file"] \ Listed["file"]) <= torn
    BY <2>t, <2>1, <2>4
  <2>7. /\ Cardinality(RingLost) <= Cardinality(acked.memory) - Len(entries)
        /\ Len(entries) < MaxEntries => Cardinality(RingLost) = 0
    BY <2>t, <2>2
  <2> QED
    BY <2>5, <2>6, <2>7, Zenon DEF LossesAccounted
<1> QED
  BY <1>1, <1>2, DispStep, StoreStep, PTL DEF SpecDLQ

=============================================================================
