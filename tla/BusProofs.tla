----------------------------- MODULE BusProofs -----------------------------
(***************************************************************************)
(* Proofs about the bus, for every set of publishers and subscribers, ring *)
(* size, channel capacity, family of filters and bound.                    *)
(***************************************************************************)
EXTENDS Bus, SequenceTheorems, FiniteSetTheorems, TLAPS

LEMMA SizesType == RingSize \in Nat /\ SubBuffer \in Nat \ {0}
BY BusAssumption DEF RingSize, SubBuffer

\* A publisher in its delivery loop has published at least once, and serves
\* only subscriptions that exist or existed.
PendingInv ==
  \A p \in Publishers : Publishing(p) =>
    count[p] >= 1 /\ pending[p] \subseteq subs \cup closed

LEMMA CurrentType ==
  ASSUME TypeOK, PendingInv, NEW p \in Publishers, Publishing(p)
  PROVE  Current(p) \in Records
BY BusAssumption DEF TypeOK, PendingInv, Current, Records

\* What Subscribe replays: some ring positions, increasing, no more than the
\* channel holds, whose records the filter accepts.
LEMMA ReplayShape ==
  ASSUME TypeOK, NEW f, NEW b \in BOOLEAN, NEW pos \in ReplayPositions(f, b)
  PROVE  \E k \in Nat :
           /\ k <= SubBuffer /\ DOMAIN pos = 1 .. k
           /\ \A i \in 1 .. k : pos[i] \in 1 .. Len(ring) /\ ring[pos[i]] \in f
           /\ \A i, j \in 1 .. k : i < j => pos[i] < pos[j]
<1> DEFINE hits == IF b THEN {i \in DOMAIN ring : ring[i] \in f} ELSE {}
           n == Cardinality(hits)
           k == IF n < SubBuffer THEN n ELSE SubBuffer
<1>1. Len(ring) \in Nat /\ DOMAIN ring = 1 .. Len(ring)
  BY LenProperties DEF TypeOK
<1>2. hits \subseteq 1 .. Len(ring)
  BY <1>1
<1>3. IsFiniteSet(hits)
  BY <1>1, <1>2, FS_Interval, FS_Subset, IsFiniteSet(1 .. Len(ring)), 0 \in Int, 1 \in Int
<1>4. n \in Nat
  BY <1>3, FS_CardinalityType
<1>5. k \in Nat /\ k <= SubBuffer
  BY <1>4, SizesType
<1>6. /\ pos \in [1 .. k -> hits]
      /\ \A i, j \in 1 .. k : i < j => pos[i] < pos[j]
  BY DEF ReplayPositions
<1>7. \A i \in 1 .. k : pos[i] \in hits
  BY <1>6
<1>8. \A i \in 1 .. k : pos[i] \in 1 .. Len(ring) /\ ring[pos[i]] \in f
  BY <1>2, <1>7
<1> QED
  BY <1>5, <1>6, <1>8

-----------------------------------------------------------------------------
LEMMA InitType == Init => TypeOK /\ PendingInv
BY BusAssumption, SizesType, EmptySeq DEF Init, TypeOK, PendingInv, Publishing

LEMMA RingAppendType ==
  ASSUME TypeOK, NEW r \in Records
  PROVE  RingAppend(r) \in Seq(Records)
<1>1. CASE RingSize = 0
  BY <1>1 DEF RingAppend, TypeOK
<1>2. CASE RingSize # 0 /\ Len(ring) >= RingSize
  <2>1. ring # <<>>
    BY <1>2, SizesType, EmptySeq DEF TypeOK
  <2>2. Tail(ring) \in Seq(Records)
    BY <2>1, HeadTailProperties DEF TypeOK
  <2> QED
    BY <1>2, <2>2, AppendProperties DEF RingAppend
<1>3. CASE RingSize # 0 /\ ~(Len(ring) >= RingSize)
  BY <1>3, AppendProperties DEF RingAppend, TypeOK
<1> QED
  BY <1>1, <1>2, <1>3

LEMMA TypeStep == TypeOK /\ PendingInv /\ [Next]_vars => (TypeOK /\ PendingInv)'
<1> SUFFICES ASSUME TypeOK, PendingInv, [Next]_vars
             PROVE  (TypeOK /\ PendingInv)'
  OBVIOUS
<1> USE SizesType DEF Publishing
<1>1. ASSUME NEW p \in Publishers, PublishLock(p)
      PROVE  (TypeOK /\ PendingInv)'
  <2> DEFINE r == [src |-> p, seq |-> count[p] + 1]
  <2>1. r \in Records
    BY <1>1, BusAssumption DEF PublishLock, TypeOK, Records
  <2>2. ring' \in Seq(Records)
    BY <1>1, <2>1, RingAppendType DEF PublishLock
  <2>3. log' \in Seq(Records)
    BY <1>1, <2>1, AppendProperties DEF PublishLock, TypeOK
  <2>4. count' \in [Publishers -> 0 .. MaxPublish]
    BY <1>1, BusAssumption DEF PublishLock, TypeOK
  <2>5. pending' \in [Publishers -> SUBSET Subscribers]
    BY <1>1 DEF PublishLock, TypeOK
  <2>6. TypeOK'
    BY <1>1, <2>2, <2>3, <2>4, <2>5 DEF PublishLock, TypeOK
  <2>7. PendingInv'
    BY <1>1, BusAssumption DEF PublishLock, PendingInv, TypeOK
  <2> QED
    BY <2>6, <2>7
<1>2. ASSUME NEW p \in Publishers, NEW s \in Subscribers, Deliver(p, s)
      PROVE  (TypeOK /\ PendingInv)'
  <2>1. Publishing(p)
    BY <1>2 DEF Deliver, FilterOut, Send, Drop, SendOnClosed
  <2>2. Current(p) \in Records
    BY <2>1, CurrentType
  <2>3. CASE FilterOut(p, s)
    BY <2>3 DEF FilterOut, TypeOK, PendingInv, histVars
  <2>4. CASE Send(p, s)
    <3>1. /\ Append(ch[s], Current(p)) \in Seq(Records)
          /\ Len(Append(ch[s], Current(p))) = Len(ch[s]) + 1
          /\ Append(sent[s], Current(p)) \in Seq(Records)
          /\ Len(ch[s]) \in Nat
      BY <2>2, AppendProperties, LenProperties DEF TypeOK
    <3>2. /\ ch' \in [Subscribers -> Seq(Records)]
          /\ sent' \in [Subscribers -> Seq(Records)]
      BY <2>4, <3>1 DEF Send, TypeOK
    <3>3. \A q \in Subscribers : Len(ch'[q]) <= SubBuffer
      BY <2>4, <3>1 DEF Send, TypeOK
    <3>4. TypeOK'
      BY <2>4, <3>2, <3>3 DEF Send, TypeOK
    <3>5. PendingInv'
      BY <2>4 DEF Send, TypeOK, PendingInv
    <3> QED
      BY <3>4, <3>5
  <2>5. CASE Drop(p, s)
    BY <2>2, <2>5 DEF Drop, TypeOK, PendingInv, histVars
  <2>6. CASE SendOnClosed(p, s)
    BY <2>2, <2>6 DEF SendOnClosed, TypeOK, PendingInv
  <2> QED
    BY <1>2, <2>3, <2>4, <2>5, <2>6 DEF Deliver
<1>3. ASSUME NEW s \in Subscribers, NEW f \in Filters, NEW b \in BOOLEAN,
             Subscribe(s, f, b)
      PROVE  (TypeOK /\ PendingInv)'
  <2>1. PICK pos \in ReplayPositions(f, b) :
          /\ ch' = [ch EXCEPT ![s] = [i \in DOMAIN pos |-> ring[pos[i]]]]
          /\ sent' = [sent EXCEPT ![s] = [i \in DOMAIN pos |-> ring[pos[i]]]]
    BY <1>3 DEF Subscribe
  <2>2. PICK k \in Nat :
          /\ k <= SubBuffer /\ DOMAIN pos = 1 .. k
          /\ \A i \in 1 .. k : pos[i] \in 1 .. Len(ring)
    BY ReplayShape
  <2> DEFINE replay == [i \in 1 .. k |-> ring[pos[i]]]
  <2>3. \A i \in 1 .. k : ring[pos[i]] \in Records
    BY <2>2, ElementOfSeq DEF TypeOK
  <2>4. replay \in Seq(Records) /\ Len(replay) = k
    BY <2>3, replay \in [1 .. k -> Records], LenProperties
  <2>5. /\ ch' = [ch EXCEPT ![s] = replay]
        /\ sent' = [sent EXCEPT ![s] = replay]
    BY <2>1, <2>2
  <2> HIDE DEF replay
  <2>6. /\ ch' \in [Subscribers -> Seq(Records)]
        /\ sent' \in [Subscribers -> Seq(Records)]
        /\ \A q \in Subscribers : Len(ch'[q]) <= SubBuffer
    BY <2>2, <2>4, <2>5 DEF TypeOK
  <2>7. Len(log) \in Nat /\ f \subseteq Records
    BY LenProperties, BusAssumption DEF TypeOK
  <2>8. TypeOK'
    BY <1>3, <2>6, <2>7 DEF Subscribe, TypeOK
  <2>9. PendingInv'
    BY <1>3 DEF Subscribe, TypeOK, PendingInv
  <2> QED
    BY <2>8, <2>9
<1>4. ASSUME NEW s \in Subscribers, Close(s)
      PROVE  (TypeOK /\ PendingInv)'
  BY <1>4 DEF Close, TypeOK, PendingInv, histVars
<1>5. ASSUME NEW s \in Subscribers, Receive(s)
      PROVE  (TypeOK /\ PendingInv)'
  <2>1. /\ Tail(ch[s]) \in Seq(Records)
        /\ Len(Tail(ch[s])) = Len(ch[s]) - 1
        /\ Len(ch[s]) \in Nat
    BY <1>5, HeadTailProperties, LenProperties DEF Receive, TypeOK
  <2>2. /\ ch' \in [Subscribers -> Seq(Records)]
        /\ \A q \in Subscribers : Len(ch'[q]) <= SubBuffer
    BY <1>5, <2>1 DEF Receive, TypeOK
  <2> QED
    BY <1>5, <2>2 DEF Receive, TypeOK, PendingInv, histVars
<1>6. CASE UNCHANGED vars
  BY <1>6 DEF vars, busVars, histVars, TypeOK, PendingInv
<1> QED
  BY <1>1, <1>2, <1>3, <1>4, <1>5, <1>6 DEF Next

LEMMA TypeInvariant == Spec => [](TypeOK /\ PendingInv)
<1>1. Init => TypeOK /\ PendingInv
  BY InitType
<1>2. TypeOK /\ PendingInv /\ [Next]_vars => (TypeOK /\ PendingInv)'
  BY TypeStep
<1> QED
  BY <1>1, <1>2, PTL DEF Spec

\* Every behaviour of the bus is well typed; in particular no channel ever
\* holds more than SubBuffer records, whoever publishes concurrently, and no
\* subscription is registered after its Close (subscription.go Close).
THEOREM TypeCorrect == Spec => []TypeOK
BY TypeInvariant, PTL

-----------------------------------------------------------------------------
(***************************************************************************)
(* Order and duplicates.  InOrderAtMostOnce is not inductive: a live send  *)
(* must be newer than what the channel was handed (SentInv), a replay must *)
(* be ordered, so the ring must (RingInv), and neither may hold a record   *)
(* that is not published yet.                                              *)
(***************************************************************************)
RingInv ==
  /\ \A i \in 1 .. Len(ring) : ring[i].seq <= count[ring[i].src]
  /\ \A i, j \in 1 .. Len(ring) :
       (i < j /\ ring[i].src = ring[j].src) => ring[i].seq < ring[j].seq

SentInv ==
  \A s \in Subscribers : \A i \in 1 .. Len(sent[s]) :
    LET r == sent[s][i] IN
    /\ r.seq <= count[r.src]
    /\ s \in pending[r.src] => r.seq < count[r.src]

OrderInv == RingInv /\ SentInv /\ InOrderAtMostOnce

LEMMA RingInvStep ==
  ASSUME TypeOK, RingInv, NEW p \in Publishers, PublishLock(p)
  PROVE  RingInv'
<1> USE SizesType
<1> DEFINE r == [src |-> p, seq |-> count[p] + 1]
<1>1. /\ r \in Records /\ r.src = p /\ r.seq = count[p] + 1
      /\ count' = [count EXCEPT ![p] = @ + 1]
      /\ ring' = RingAppend(r)
      /\ count \in [Publishers -> Nat]
  BY BusAssumption DEF PublishLock, TypeOK, Records
<1>2. \A i \in 1 .. Len(ring) : ring[i] \in Records
  BY ElementOfSeq DEF TypeOK
<1>3. \A q \in Records : q.src \in Publishers /\ q.seq \in Nat
  BY BusAssumption DEF Records
<1> HIDE DEF r
<1>0. 0 \in 0 .. 1 /\ 1 \in 0 .. 1
  OBVIOUS
<1>4. CASE RingSize = 0
  BY <1>1, <1>2, <1>3, <1>4 DEF RingAppend, RingInv
<1>5. ASSUME RingSize # 0, NEW base \in Seq(Records), NEW d \in 0 .. 1,
             Len(base) = Len(ring) - d,
             \A i \in 1 .. Len(base) : base[i] = ring[i + d],
             ring' = Append(base, r)
      PROVE  RingInv'
  <2>1. /\ Len(ring') = Len(base) + 1
        /\ \A i \in 1 .. Len(base) : ring'[i] = ring[i + d]
        /\ ring'[Len(base) + 1] = r
        /\ Len(base) \in Nat /\ Len(ring) \in Nat
    BY <1>1, <1>5, AppendProperties, LenProperties DEF TypeOK
  <2>2. \A i \in 1 .. Len(base) :
          /\ i + d \in 1 .. Len(ring)
          /\ ring'[i] = ring[i + d]
          /\ ring'[i] \in Records
          /\ ring'[i].seq <= count[ring'[i].src]
    BY <1>2, <1>5, <2>1, SMTT(30) DEF RingInv
  <2>3. \A i \in 1 .. Len(ring') : ring'[i].seq <= count'[ring'[i].src]
    BY <1>1, <1>3, <2>1, <2>2, SMTT(30)
  <2>4. ASSUME NEW i \in 1 .. Len(ring'), NEW j \in 1 .. Len(ring'),
               i < j, ring'[i].src = ring'[j].src
        PROVE  ring'[i].seq < ring'[j].seq
    <3>1. i \in 1 .. Len(base)
      BY <2>1, <2>4
    <3>2. CASE j = Len(base) + 1
      BY <1>1, <1>3, <2>1, <2>2, <2>4, <3>1, <3>2
    <3>3. CASE j \in 1 .. Len(base)
      BY <1>5, <2>2, <2>4, <3>1, <3>3, SMTT(30) DEF RingInv
    <3> QED
      BY <2>1, <3>2, <3>3
  <2> QED
    BY <2>3, <2>4 DEF RingInv
<1>6. CASE RingSize # 0 /\ Len(ring) >= RingSize
  <2>1. ring # <<>>
    BY <1>6, EmptySeq DEF TypeOK
  <2>2. /\ Tail(ring) \in Seq(Records) /\ Len(Tail(ring)) = Len(ring) - 1
        /\ \A i \in 1 .. Len(Tail(ring)) : Tail(ring)[i] = ring[i + 1]
    BY <2>1, HeadTailProperties DEF TypeOK
  <2>3. ring' = Append(Tail(ring), r)
    BY <1>1, <1>6 DEF RingAppend
  <2>4. Len(Tail(ring)) = Len(ring) - 1
        /\ \A i \in 1 .. Len(Tail(ring)) : Tail(ring)[i] = ring[i + 1]
    BY <2>2
  <2> QED
    BY <1>0, <1>5, <1>6, <2>2, <2>3, <2>4
<1>7. CASE RingSize # 0 /\ ~(Len(ring) >= RingSize)
  <2>1. ring' = Append(ring, r)
    BY <1>1, <1>7 DEF RingAppend
  <2>2. Len(ring) \in Nat
    BY LenProperties DEF TypeOK
  <2>3. ring \in Seq(Records)
    BY DEF TypeOK
  <2>4. Len(ring) = Len(ring) - 0
    BY <2>2
  <2>5. \A i \in 1 .. Len(ring) : ring[i] = ring[i + 0]
    <3> TAKE i \in 1 .. Len(ring)
    <3>1. i + 0 = i
      BY <2>2
    <3> QED
      BY <3>1
  <2> QED
    BY <1>0, <1>5, <1>7, <2>1, <2>3, <2>4, <2>5
<1> QED
  BY <1>4, <1>6, <1>7

LEMMA InitOrder == Init => OrderInv
<1> SUFFICES ASSUME Init PROVE OrderInv
  OBVIOUS
<1>1. Len(ring) = 0 /\ \A s \in Subscribers : Len(sent[s]) = 0
  BY EmptySeq DEF Init
<1> QED
  BY <1>1 DEF OrderInv, RingInv, SentInv, InOrderAtMostOnce

LEMMA OrderStep ==
  TypeOK /\ PendingInv /\ OrderInv /\ [Next]_vars => OrderInv'
<1> SUFFICES ASSUME TypeOK, PendingInv, OrderInv, [Next]_vars
             PROVE  OrderInv'
  OBVIOUS
<1> USE SizesType
<1>a. \A s \in Subscribers : \A i \in 1 .. Len(sent[s]) : sent[s][i] \in Records
  BY ElementOfSeq DEF TypeOK
<1>b. \A q \in Records : q.src \in Publishers /\ q.seq \in Nat
  BY BusAssumption DEF Records
<1>c. count \in [Publishers -> Nat]
  BY BusAssumption DEF TypeOK
<1>1. ASSUME NEW p \in Publishers, PublishLock(p)
      PROVE  OrderInv'
  <2>1. RingInv'
    BY <1>1, RingInvStep DEF OrderInv
  <2>2. sent' = sent /\ count' = [count EXCEPT ![p] = @ + 1]
        /\ pending' = [pending EXCEPT ![p] = subs] /\ ~Publishing(p)
    BY <1>1 DEF PublishLock
  <2>3. SentInv'
    BY <1>a, <1>b, <1>c, <2>2, SMTT(30) DEF OrderInv, SentInv, TypeOK
  <2>4. InOrderAtMostOnce'
    BY <2>2 DEF OrderInv, InOrderAtMostOnce
  <2> QED
    BY <2>1, <2>3, <2>4 DEF OrderInv
<1>2. ASSUME NEW p \in Publishers, NEW s \in Subscribers, Send(p, s)
      PROVE  OrderInv'
  <2>1. ring' = ring /\ count' = count
    BY <1>2 DEF Send
  <2>2. RingInv'
    BY <2>1 DEF OrderInv, RingInv
  <2>3. Current(p) \in Records /\ Current(p).src = p /\ Current(p).seq = count[p]
    BY <1>2, CurrentType DEF Send, Publishing, Current
  <2>4. sent' = [sent EXCEPT ![s] = Append(sent[s], Current(p))]
        /\ pending' = [pending EXCEPT ![p] = @ \ {s}] /\ s \in pending[p]
    BY <1>2 DEF Send
  <2>5. /\ Len(sent[s]) \in Nat /\ Len(sent'[s]) = Len(sent[s]) + 1
        /\ \A i \in 1 .. Len(sent[s]) : sent'[s][i] = sent[s][i]
        /\ sent'[s][Len(sent[s]) + 1] = Current(p)
    BY <2>3, <2>4, AppendProperties, LenProperties DEF TypeOK
  <2>6. \A q \in Subscribers : q # s => sent'[q] = sent[q]
    BY <2>4 DEF TypeOK
  <2>7. \A q \in Publishers : pending'[q] \subseteq pending[q]
    BY <2>4 DEF TypeOK
  <2>8. s \notin pending'[p]
    BY <2>4 DEF TypeOK
  <2>9. SentInv'
    <3> SUFFICES ASSUME NEW q \in Subscribers, NEW i \in 1 .. Len(sent'[q])
                 PROVE  /\ sent'[q][i].seq <= count[sent'[q][i].src]
                        /\ q \in pending'[sent'[q][i].src]
                             => sent'[q][i].seq < count[sent'[q][i].src]
      BY <2>1 DEF SentInv
    <3>1. CASE q # s
      BY <1>a, <1>b, <2>6, <2>7, <3>1 DEF OrderInv, SentInv
    <3>2. CASE q = s /\ i \in 1 .. Len(sent[s])
      BY <1>a, <1>b, <2>5, <2>7, <3>2 DEF OrderInv, SentInv
    <3>3. CASE q = s /\ i = Len(sent[s]) + 1
      BY <1>c, <2>3, <2>5, <2>8, <3>3
    <3> QED
      BY <2>5, <3>1, <3>2, <3>3
  <2>10. InOrderAtMostOnce'
    <3> SUFFICES ASSUME NEW q \in Subscribers,
                        NEW i \in 1 .. Len(sent'[q]), NEW j \in 1 .. Len(sent'[q]),
                        i < j, sent'[q][i].src = sent'[q][j].src
                 PROVE  sent'[q][i].seq < sent'[q][j].seq
      BY DEF InOrderAtMostOnce
    <3>1. CASE q # s
      BY <2>6, <3>1 DEF OrderInv, InOrderAtMostOnce
    <3>2. CASE q = s /\ j \in 1 .. Len(sent[s])
      <4>1. i \in 1 .. Len(sent[s])
        BY <2>5, <3>2
      <4> QED
        BY <2>5, <3>2, <4>1 DEF OrderInv, InOrderAtMostOnce
    <3>3. CASE q = s /\ j = Len(sent[s]) + 1
      <4>1. i \in 1 .. Len(sent[s])
        BY <2>5, <3>3
      <4>2. sent[s][i].src = p /\ s \in pending[p]
        BY <2>3, <2>4, <2>5, <3>3, <4>1
      <4> QED
        BY <2>3, <2>5, <3>3, <4>1, <4>2 DEF OrderInv, SentInv
    <3> QED
      BY <2>5, <3>1, <3>2, <3>3
  <2> QED
    BY <2>2, <2>9, <2>10 DEF OrderInv
<1>3. ASSUME NEW p \in Publishers, NEW s \in Subscribers,
             FilterOut(p, s) \/ Drop(p, s) \/ SendOnClosed(p, s)
      PROVE  OrderInv'
  <2>1. /\ ring' = ring /\ count' = count /\ sent' = sent
        /\ \A q \in Publishers : pending'[q] \subseteq pending[q]
    BY <1>3 DEF FilterOut, Drop, SendOnClosed, TypeOK, histVars
  <2> QED
    BY <1>a, <1>b, <2>1 DEF OrderInv, RingInv, SentInv, InOrderAtMostOnce
<1>4. ASSUME NEW s \in Subscribers, NEW f \in Filters, NEW b \in BOOLEAN,
             Subscribe(s, f, b)
      PROVE  OrderInv'
  <2>1. PICK pos \in ReplayPositions(f, b) :
          sent' = [sent EXCEPT ![s] = [i \in DOMAIN pos |-> ring[pos[i]]]]
    BY <1>4 DEF Subscribe
  <2>2. PICK k \in Nat :
          /\ k <= SubBuffer /\ DOMAIN pos = 1 .. k
          /\ \A i \in 1 .. k : pos[i] \in 1 .. Len(ring)
          /\ \A i, j \in 1 .. k : i < j => pos[i] < pos[j]
    BY ReplayShape
  <2>3. [i \in 1 .. k |-> ring[pos[i]]] \in Seq(Records)
    <3>1. \A i \in 1 .. k : ring[pos[i]] \in Records
      BY <2>2, ElementOfSeq DEF TypeOK
    <3> QED
      BY <3>1
  <2>4. /\ Len(sent'[s]) = k /\ \A i \in 1 .. k : sent'[s][i] = ring[pos[i]]
        /\ \A q \in Subscribers : q # s => sent'[q] = sent[q]
    BY <2>1, <2>2, <2>3, LenProperties DEF TypeOK
  <2>5. /\ ring' = ring /\ count' = count /\ pending' = pending
        /\ \A p \in Publishers : s \notin pending[p]
    BY <1>4 DEF Subscribe, PendingInv, Publishing
  <2>6. RingInv'
    BY <2>5 DEF OrderInv, RingInv
  <2>7. SentInv'
    <3> SUFFICES ASSUME NEW q \in Subscribers, NEW i \in 1 .. Len(sent'[q])
                 PROVE  /\ sent'[q][i].seq <= count[sent'[q][i].src]
                        /\ q \in pending[sent'[q][i].src]
                             => sent'[q][i].seq < count[sent'[q][i].src]
      BY <2>5 DEF SentInv
    <3>1. CASE q # s
      BY <2>4, <3>1 DEF OrderInv, SentInv
    <3>2. CASE q = s
      <4>1. pos[i] \in 1 .. Len(ring) /\ sent'[q][i] = ring[pos[i]]
        BY <2>2, <2>4, <3>2
      <4>2. ring[pos[i]].src \in Publishers
        BY <1>b, <4>1, ElementOfSeq DEF TypeOK
      <4> QED
        BY <2>5, <3>2, <4>1, <4>2 DEF OrderInv, RingInv
    <3> QED
      BY <3>1, <3>2
  <2>8. InOrderAtMostOnce'
    <3> SUFFICES ASSUME NEW q \in Subscribers,
                        NEW i \in 1 .. Len(sent'[q]), NEW j \in 1 .. Len(sent'[q]),
                        i < j, sent'[q][i].src = sent'[q][j].src
                 PROVE  sent'[q][i].seq < sent'[q][j].seq
      BY DEF InOrderAtMostOnce
    <3>1. CASE q # s
      BY <2>4, <3>1 DEF OrderInv, InOrderAtMostOnce
    <3>2. CASE q = s
      <4>1. pos[i] \in 1 .. Len(ring) /\ pos[j] \in 1 .. Len(ring) /\ pos[i] < pos[j]
        BY <2>2, <2>4, <3>2
      <4>2. sent'[q][i] = ring[pos[i]] /\ sent'[q][j] = ring[pos[j]]
        BY <2>4, <3>2
      <4> QED
        BY <4>1, <4>2 DEF OrderInv, RingInv
    <3> QED
      BY <3>1, <3>2
  <2> QED
    BY <2>6, <2>7, <2>8 DEF OrderInv
<1>5. ASSUME NEW s \in Subscribers, Close(s) \/ Receive(s)
      PROVE  OrderInv'
  BY <1>5 DEF Close, Receive, histVars, OrderInv, RingInv, SentInv, InOrderAtMostOnce
<1>6. CASE UNCHANGED vars
  BY <1>6 DEF vars, busVars, histVars, OrderInv, RingInv, SentInv, InOrderAtMostOnce
<1> QED
  BY <1>1, <1>2, <1>3, <1>4, <1>5, <1>6 DEF Next, Deliver

\* Whatever Publish, Subscribe and Close calls overlap, a subscriber sees no
\* record twice, and those of one publisher in the order they were published.
THEOREM OrderPreserved == Spec => []InOrderAtMostOnce
<1>1. Init => OrderInv
  BY InitOrder
<1>2. TypeOK /\ PendingInv /\ OrderInv /\ [Next]_vars => OrderInv'
  BY OrderStep
<1>3. OrderInv => InOrderAtMostOnce
  BY DEF OrderInv
<1> QED
  BY <1>1, <1>2, <1>3, TypeInvariant, PTL DEF Spec

-----------------------------------------------------------------------------
(***************************************************************************)
(* Accounting.  A record just published is in no drop count yet and a      *)
(* record a publisher still carries to s was not dropped for s before      *)
(* (DroppedInv); subscriptions start at a real position of log (SinceInv). *)
(***************************************************************************)
DroppedInv ==
  \A s \in Subscribers : \A r \in dropped[s] :
    /\ r.seq <= count[r.src]
    /\ s \in pending[r.src] => r.seq < count[r.src]

SinceInv == \A s \in Subscribers : since[s] <= Len(log)

AccountInv == DroppedInv /\ SinceInv /\ NoSilentLoss

LEMMA InitAccount == Init => AccountInv
<1> SUFFICES ASSUME Init PROVE AccountInv
  OBVIOUS
<1>1. Len(log) = 0
  BY EmptySeq DEF Init
<1> QED
  BY <1>1 DEF Init, AccountInv, DroppedInv, SinceInv, NoSilentLoss

\* A record that s is owed, with its type.
LEMMA LogType ==
  ASSUME TypeOK, NEW i \in 1 .. Len(log)
  PROVE  log[i] \in Records /\ log[i].src \in Publishers /\ log[i].seq \in Nat
<1>1. log[i] \in Records
  BY ElementOfSeq DEF TypeOK
<1> QED
  BY <1>1, BusAssumption DEF Records

LEMMA SinceType ==
  ASSUME TypeOK, NEW s \in Subscribers, NEW i \in since[s] + 1 .. Len(log)
  PROVE  i \in 1 .. Len(log)
BY LenProperties DEF TypeOK

\* Publish's critical section: what it publishes is in flight to every
\* registered subscription, and what p published before has been delivered.
LEMMA PublishAccounts ==
  ASSUME TypeOK, PendingInv, OrderInv, AccountInv,
         NEW p \in Publishers, PublishLock(p)
  PROVE  AccountInv'
<1> DEFINE r == [src |-> p, seq |-> count[p] + 1]
<1>1. r \in Records /\ r.src = p /\ r.seq = count[p] + 1
  BY BusAssumption DEF PublishLock, TypeOK, Records
<1>2. /\ count' = [count EXCEPT ![p] = @ + 1]
      /\ pending' = [pending EXCEPT ![p] = subs] /\ pending[p] = {}
      /\ log' = Append(log, r)
      /\ UNCHANGED <<subs, filter, dropped, since, sent, panicked>>
  BY DEF PublishLock, Publishing
<1>3. count \in [Publishers -> Nat] /\ count'[p] = count[p] + 1
  BY <1>2, BusAssumption DEF TypeOK
<1>4. \A q \in Publishers : q # p => count'[q] = count[q] /\ pending'[q] = pending[q]
  BY <1>2 DEF TypeOK
<1>5. /\ Len(log) \in Nat /\ Len(log') = Len(log) + 1
      /\ \A i \in 1 .. Len(log) : log'[i] = log[i]
      /\ log'[Len(log) + 1] = r
  BY <1>1, <1>2, AppendProperties, LenProperties DEF TypeOK
<1>6. \A q \in Records : q.src \in Publishers /\ q.seq \in Nat
  BY BusAssumption DEF Records
<1>7. \A s \in Subscribers : dropped[s] \subseteq Records
  BY DEF TypeOK
<1>8. \A s \in Subscribers : \A q \in Handed(s) :
        q \in Records /\ q.seq <= count[q.src]
  BY ElementOfSeq DEF TypeOK, Handed, OrderInv, SentInv
<1>9. DroppedInv'
  BY <1>2, <1>3, <1>4, <1>6, <1>7 DEF AccountInv, DroppedInv
<1>10. SinceInv'
  BY <1>2, <1>5 DEF AccountInv, SinceInv, TypeOK
<1>11. NoSilentLoss'
  <2> SUFFICES ASSUME NEW s \in subs, NEW i \in since[s] + 1 .. Len(log'),
                      NEW q, q = log'[i], q \in filter[s]
               PROVE  Accounted(q, s)'
    BY <1>2 DEF NoSilentLoss
  <2>1. s \in Subscribers /\ since[s] \in Nat
    BY DEF TypeOK
  <2>2. Handed(s)' = Handed(s)
    BY <1>2 DEF Handed
  <2>3. r \notin Handed(s) \cup dropped[s]
    BY <1>1, <1>3, <1>8, <2>1 DEF AccountInv, DroppedInv
  <2>4. Current(p)' = r /\ pending'[p] = subs
    BY <1>2, <1>3 DEF Current, TypeOK
  <2>5. CASE i = Len(log) + 1
    <3>1. q = r
      BY <1>5, <2>5
    <3>2. InFlight(q, s)'
      BY <1>1, <2>4, <3>1 DEF InFlight
    <3> QED
      BY <1>2, <2>2, <2>3, <3>1, <3>2 DEF Accounted
  <2>6. CASE i \in since[s] + 1 .. Len(log)
    <3>1. i \in 1 .. Len(log) /\ q = log[i]
      BY <1>5, <2>1, <2>6, SinceType
    <3>2. q.src \in Publishers
      BY <3>1, LogType
    <3>3. Accounted(q, s)
      BY <2>6, <3>1 DEF AccountInv, NoSilentLoss
    <3>4. CASE q.src = p
      <4>1. ~InFlight(q, s)
        BY <1>2, <3>4 DEF InFlight
      <4>2. InFlight(q, s)' => q = r
        BY <2>4, <3>4 DEF InFlight
      <4> QED
        BY <1>2, <2>2, <2>3, <3>3, <4>1, <4>2 DEF Accounted
    <3>5. CASE q.src # p
      <4>1. Current(q.src)' = Current(q.src) /\ pending'[q.src] = pending[q.src]
        BY <1>4, <3>2, <3>5 DEF Current
      <4>2. InFlight(q, s)' <=> InFlight(q, s)
        BY <4>1 DEF InFlight
      <4> QED
        BY <1>2, <2>2, <3>3, <4>2 DEF Accounted
    <3> QED
      BY <3>4, <3>5
  <2> QED
    BY <1>5, <2>1, <2>5, <2>6
<1> QED
  BY <1>9, <1>10, <1>11 DEF AccountInv

\* A send adds its record to what was handed over.
LEMMA HandedAppend ==
  ASSUME NEW t \in Subscribers, NEW r \in Records,
         sent[t] \in Seq(Records), sent'[t] = Append(sent[t], r)
  PROVE  Handed(t)' = Handed(t) \cup {r}
<1>1. /\ Len(sent[t]) \in Nat /\ Len(sent'[t]) = Len(sent[t]) + 1
      /\ \A i \in 1 .. Len(sent[t]) : sent'[t][i] = sent[t][i]
      /\ sent'[t][Len(sent[t]) + 1] = r
  BY AppendProperties, LenProperties
<1>2. 1 .. Len(sent'[t]) = 1 .. Len(sent[t]) \cup {Len(sent[t]) + 1}
  BY <1>1
<1> QED
  BY <1>1, <1>2 DEF Handed

\* One iteration of the delivery loop moves at most the record p carries.
LEMMA DeliverAccounts ==
  ASSUME TypeOK, PendingInv, OrderInv, AccountInv,
         NEW p \in Publishers, NEW t \in Subscribers, Deliver(p, t)
  PROVE  AccountInv'
<1> DEFINE r == Current(p)
<1>1. /\ UNCHANGED <<subs, filter, since, count, log>>
      /\ t \in pending[p]
      /\ \A q \in Publishers : pending'[q] \subseteq pending[q]
      /\ \A q \in Publishers : q # p => pending'[q] = pending[q]
      /\ t \notin pending'[p]
  BY DEF Deliver, FilterOut, Send, Drop, SendOnClosed, TypeOK, histVars
<1>2. r \in Records /\ r.src = p /\ r.seq = count[p]
  BY <1>1, CurrentType DEF Current, Publishing
<1>3. count \in [Publishers -> Nat]
  BY BusAssumption DEF TypeOK
<1>4. \A s \in Subscribers : dropped[s] \subseteq Records
  BY DEF TypeOK
<1>5. \A q \in Records : q.src \in Publishers /\ q.seq \in Nat
  BY BusAssumption DEF Records
<1>6. r \notin dropped[t] /\ r \notin Handed(t)
  <2>1. r \notin dropped[t]
    BY <1>1, <1>2, <1>3 DEF AccountInv, DroppedInv
  <2>2. r \notin Handed(t)
    BY <1>1, <1>2, <1>3 DEF Handed, OrderInv, SentInv
  <2> QED
    BY <2>1, <2>2
<1>7. SinceInv'
  BY <1>1 DEF AccountInv, SinceInv
<1>8. \A s \in Subscribers : \A q \in dropped'[s] :
        q \in dropped[s] \/ (s = t /\ q = r)
  BY DEF Deliver, FilterOut, Send, Drop, SendOnClosed, TypeOK, histVars
<1>9. DroppedInv'
  BY <1>1, <1>2, <1>3, <1>4, <1>5, <1>8 DEF AccountInv, DroppedInv
<1>10. \A s \in Subscribers : s # t => Handed(s)' = Handed(s) /\ dropped'[s] = dropped[s]
  BY DEF Deliver, FilterOut, Send, Drop, SendOnClosed, TypeOK, histVars, Handed
<1>11. panicked \subseteq panicked'
  BY DEF Deliver, FilterOut, Send, Drop, SendOnClosed, histVars
<1>12. r \in filter[t] =>
         \/ Handed(t)' = Handed(t) \cup {r} /\ dropped'[t] = dropped[t]
         \/ Handed(t)' = Handed(t) /\ dropped'[t] = dropped[t] \cup {r}
         \/ Handed(t)' = Handed(t) /\ dropped'[t] = dropped[t] /\ r \in panicked'
  <2>1. CASE Send(p, t)
    <3>1. sent'[t] = Append(sent[t], r) /\ dropped' = dropped
      BY <2>1 DEF Send, TypeOK
    <3>4. Handed(t)' = Handed(t) \cup {r}
      BY <1>2, <3>1, HandedAppend DEF TypeOK
    <3> QED
      BY <3>1, <3>4
  <2>2. CASE Drop(p, t)
    BY <2>2 DEF Drop, TypeOK, histVars, Handed
  <2>3. CASE SendOnClosed(p, t)
    BY <2>3 DEF SendOnClosed, Handed
  <2>4. CASE FilterOut(p, t)
    BY <2>4 DEF FilterOut
  <2> QED
    BY <2>1, <2>2, <2>3, <2>4 DEF Deliver
<1>13. \A s \in Subscribers : s # t /\ s \in pending[p] =>
         s \in pending'[p] \/ r \in panicked'
  BY DEF Deliver, FilterOut, Send, Drop, SendOnClosed, TypeOK, histVars
<1>14. r \notin filter[t] => Handed(t)' = Handed(t) /\ dropped'[t] = dropped[t]
  BY DEF Deliver, FilterOut, Send, Drop, SendOnClosed, TypeOK, histVars, Handed
<1>15. NoSilentLoss'
  <2> SUFFICES ASSUME NEW s \in subs, NEW i \in since[s] + 1 .. Len(log),
                      NEW q, q = log[i], q \in filter[s]
               PROVE  Accounted(q, s)'
    BY <1>1 DEF NoSilentLoss
  <2>1. s \in Subscribers /\ q.src \in Publishers
    BY SinceType, LogType DEF TypeOK
  <2>2. Accounted(q, s)
    BY DEF AccountInv, NoSilentLoss
  <2>3. InFlight(q, s)' => InFlight(q, s)
    BY <1>1, <2>1 DEF InFlight, Current
  <2>4. CASE q = r
    <3>1. CASE s = t
      <4>1. ~InFlight(q, s)'
        BY <1>1, <1>2, <2>4, <3>1 DEF InFlight
      <4>2. q \notin Handed(s) /\ q \notin dropped[s]
        BY <1>6, <2>4, <3>1
      <4>3. \/ Handed(s)' = Handed(s) \cup {q} /\ dropped'[s] = dropped[s]
            \/ Handed(s)' = Handed(s) /\ dropped'[s] = dropped[s] \cup {q}
            \/ Handed(s)' = Handed(s) /\ dropped'[s] = dropped[s] /\ q \in panicked'
        BY <1>12, <2>4, <3>1
      <4> QED
        BY <4>1, <4>2, <4>3 DEF Accounted
    <3>2. CASE s # t
      <4>1. InFlight(q, s) => InFlight(q, s)' \/ q \in panicked'
        <5>1. InFlight(q, s) => s \in pending[p]
          BY <1>2, <2>4 DEF InFlight
        <5>2. s \in pending'[p] => InFlight(q, s)'
          BY <1>1, <1>2, <2>4 DEF InFlight, Current
        <5> QED
          BY <1>13, <2>1, <2>4, <3>2, <5>1, <5>2
      <4>2. Handed(s)' = Handed(s) /\ dropped'[s] = dropped[s]
        BY <1>10, <2>1, <3>2
      <4> QED
        BY <1>11, <2>2, <2>3, <4>1, <4>2 DEF Accounted
    <3> QED
      BY <3>1, <3>2
  <2>5. CASE q # r
    <3>1. q \in Handed(s)' <=> q \in Handed(s)
      BY <1>10, <1>12, <1>14, <2>1, <2>5
    <3>2. q \in dropped'[s] <=> q \in dropped[s]
      BY <1>10, <1>12, <1>14, <2>1, <2>5
    <3>3. Current(q.src)' = Current(q.src)
      BY <1>1 DEF Current
    <3>4. InFlight(q, s) => InFlight(q, s)'
      <4>1. CASE q.src = p
        BY <2>5, <4>1 DEF InFlight
      <4>2. CASE q.src # p
        BY <1>1, <2>1, <3>3, <4>2 DEF InFlight
      <4> QED
        BY <4>1, <4>2
    <3> QED
      BY <1>11, <2>2, <2>3, <3>1, <3>2, <3>4 DEF Accounted
  <2> QED
    BY <2>4, <2>5
<1> QED
  BY <1>7, <1>9, <1>15 DEF AccountInv

LEMMA AccountStep ==
  TypeOK /\ PendingInv /\ OrderInv /\ AccountInv /\ [Next]_vars => AccountInv'
<1> SUFFICES ASSUME TypeOK, PendingInv, OrderInv, AccountInv, [Next]_vars
             PROVE  AccountInv'
  OBVIOUS
<1>1. ASSUME NEW p \in Publishers, PublishLock(p) PROVE AccountInv'
  BY <1>1, PublishAccounts
<1>2. ASSUME NEW p \in Publishers, NEW s \in Subscribers, Deliver(p, s)
      PROVE  AccountInv'
  BY <1>2, DeliverAccounts
<1>3. ASSUME NEW s \in Subscribers, NEW f \in Filters, NEW b \in BOOLEAN,
             Subscribe(s, f, b)
      PROVE  AccountInv'
  <2>1. /\ s \notin subs /\ subs' = subs \cup {s}
        /\ since' = [since EXCEPT ![s] = Len(log)]
        /\ UNCHANGED <<dropped, pending, count, log, panicked>>
        /\ \A q \in subs : filter'[q] = filter[q] /\ sent'[q] = sent[q]
    BY <1>3 DEF Subscribe, TypeOK
  <2>2. Len(log) \in Nat
    BY LenProperties DEF TypeOK
  <2>3. DroppedInv'
    BY <2>1 DEF AccountInv, DroppedInv
  <2>4. SinceInv'
    BY <2>1, <2>2 DEF AccountInv, SinceInv, TypeOK
  <2>5. NoSilentLoss'
    <3> SUFFICES ASSUME NEW q \in subs', NEW i \in since'[q] + 1 .. Len(log),
                        NEW r, r = log[i], r \in filter'[q]
                 PROVE  Accounted(r, q)'
      BY <2>1 DEF NoSilentLoss
    <3>1. q # s
      BY <2>1, <2>2 DEF TypeOK
    <3>2. q \in subs /\ since'[q] = since[q]
      BY <2>1, <3>1 DEF TypeOK
    <3>3. Accounted(r, q)
      BY <2>1, <3>2 DEF AccountInv, NoSilentLoss
    <3> QED
      BY <2>1, <3>2, <3>3 DEF Accounted, InFlight, Handed, Current
  <2> QED
    BY <2>3, <2>4, <2>5 DEF AccountInv
<1>4. ASSUME subs' \subseteq subs,
             UNCHANGED <<filter, since, dropped, pending, count, log, sent, panicked>>
      PROVE  AccountInv'
  <2>1. DroppedInv'
    BY <1>4 DEF AccountInv, DroppedInv
  <2>2. SinceInv'
    BY <1>4 DEF AccountInv, SinceInv
  <2>3. NoSilentLoss'
    <3> SUFFICES ASSUME NEW q \in subs', NEW i \in since[q] + 1 .. Len(log),
                        NEW r, r = log[i], r \in filter[q]
                 PROVE  Accounted(r, q)'
      BY <1>4 DEF NoSilentLoss
    <3>1. Accounted(r, q)
      BY <1>4 DEF AccountInv, NoSilentLoss
    <3> QED
      BY <1>4, <3>1 DEF Accounted, InFlight, Handed, Current
  <2> QED
    BY <2>1, <2>2, <2>3 DEF AccountInv
<1>5. ASSUME NEW s \in Subscribers, Close(s) \/ Receive(s)
      PROVE  AccountInv'
  <2>1. /\ subs' \subseteq subs
        /\ UNCHANGED <<filter, since, dropped, pending, count, log, sent, panicked>>
    BY <1>5 DEF Close, Receive, histVars
  <2> QED
    BY <1>4, <2>1
<1>6. CASE UNCHANGED vars
  <2>1. subs' = subs
        /\ UNCHANGED <<filter, since, dropped, pending, count, log, sent, panicked>>
    BY <1>6 DEF vars, busVars, histVars
  <2> QED
    BY <1>4, <2>1
<1> QED
  BY <1>1, <1>2, <1>3, <1>5, <1>6 DEF Next

\* Overflow is the only loss a registered subscriber suffers from the bus,
\* and Dropped() counts it, as long as no Publish panics.
THEOREM LossesCounted == Spec => []NoSilentLoss
<1>1. Init => OrderInv /\ AccountInv
  BY InitOrder, InitAccount
<1>2. TypeOK /\ PendingInv /\ OrderInv /\ AccountInv /\ [Next]_vars
        => (OrderInv /\ AccountInv)'
  BY OrderStep, AccountStep
<1>3. AccountInv => NoSilentLoss
  BY DEF AccountInv
<1> QED
  BY <1>1, <1>2, <1>3, TypeInvariant, PTL DEF Spec

-----------------------------------------------------------------------------
LEMMA RecentStep ==
  TypeOK /\ RecentIsLatest /\ [Next]_vars => RecentIsLatest'
<1> SUFFICES ASSUME TypeOK, RecentIsLatest, [Next]_vars
             PROVE  RecentIsLatest'
  OBVIOUS
<1> USE SizesType DEF Recent
<1>1. ASSUME NEW p \in Publishers, PublishLock(p)
      PROVE  RecentIsLatest'
  <2> DEFINE r == [src |-> p, seq |-> count[p] + 1]
             n == Len(log)
  <2>1. r \in Records /\ ring' = RingAppend(r) /\ log' = Append(log, r)
    BY <1>1, BusAssumption DEF PublishLock, TypeOK, Records
  <2>2. /\ n \in Nat /\ Len(log') = n + 1 /\ log'[n + 1] = r
        /\ \A i \in 1 .. n : log'[i] = log[i]
    BY <2>1, AppendProperties, LenProperties DEF TypeOK
  <2>3. Len(ring) = Kept /\ \A i \in 1 .. Kept : ring[i] = log[n - Kept + i]
    BY DEF RecentIsLatest
  <2>k. /\ Kept \in Nat
        /\ Kept = IF n < RingSize THEN n ELSE RingSize
        /\ Kept' = IF n + 1 < RingSize THEN n + 1 ELSE RingSize
    BY <2>2 DEF Kept
  <2> SUFFICES /\ Len(ring') = Kept'
               /\ \A i \in 1 .. Kept' : ring'[i] = log'[n + 1 - Kept' + i]
    BY <2>2, SMTT(30) DEF RecentIsLatest
  <2> HIDE DEF r, n
  <2>4. CASE RingSize = 0
    <3>1. Kept = 0 /\ Kept' = 0
      BY <2>2, <2>k, <2>4
    <3>2. ring' = ring
      BY <2>1, <2>4 DEF RingAppend
    <3> QED
      BY <2>3, <3>1, <3>2
  <2>5. CASE RingSize # 0 /\ Len(ring) >= RingSize
    <3>1. /\ Kept = RingSize /\ Kept' = RingSize /\ n >= RingSize
          /\ ring # <<>>
      BY <2>2, <2>3, <2>5, <2>k, EmptySeq
    <3>2. /\ Tail(ring) \in Seq(Records) /\ Len(Tail(ring)) = RingSize - 1
          /\ \A i \in 1 .. RingSize - 1 : Tail(ring)[i] = ring[i + 1]
      BY <2>3, <3>1, HeadTailProperties DEF TypeOK
    <3>3. ring' = Append(Tail(ring), r)
      BY <2>1, <2>5 DEF RingAppend
    <3>4. /\ Len(ring') = RingSize /\ ring'[RingSize] = r
          /\ \A i \in 1 .. RingSize - 1 : ring'[i] = ring[i + 1]
      BY <2>1, <2>5, <3>2, <3>3, AppendProperties
    <3>5. ASSUME NEW i \in 1 .. RingSize
          PROVE  ring'[i] = log'[n + 1 - RingSize + i]
      <4>1. CASE i = RingSize
        BY <2>2, <2>5, <3>4, <4>1
      <4>2. CASE i \in 1 .. RingSize - 1
        <5>1. i + 1 \in 1 .. RingSize /\ n - RingSize + (i + 1) \in 1 .. n
          BY <2>2, <3>1, <4>2
        <5>2. ring[i + 1] = log[n - RingSize + (i + 1)]
          BY <2>3, <3>1, <5>1
        <5>3. n - RingSize + (i + 1) = n + 1 - RingSize + i
          BY <2>2, <4>2
        <5>4. ring'[i] = log'[n - RingSize + (i + 1)]
          BY <2>2, <3>4, <4>2, <5>1, <5>2
        <5> QED
          BY <5>3, <5>4
      <4> QED
        BY <2>5, <4>1, <4>2
    <3> QED
      BY <3>1, <3>4, <3>5
  <2>6. CASE RingSize # 0 /\ ~(Len(ring) >= RingSize)
    <3>1. Kept = n /\ Kept' = n + 1
      BY <2>2, <2>3, <2>6, <2>k
    <3>2. /\ Len(ring') = n + 1 /\ ring'[n + 1] = r
          /\ \A i \in 1 .. n : ring'[i] = ring[i]
      BY <2>1, <2>3, <2>6, <3>1, AppendProperties DEF RingAppend, TypeOK
    <3>3. \A i \in 1 .. n : ring[i] = log[i]
      BY <2>2, <2>3, <3>1
    <3>4. \A i \in 1 .. n + 1 : ring'[i] = log'[i]
      BY <2>2, <3>2, <3>3
    <3>5. \A i \in 1 .. n + 1 : n + 1 - (n + 1) + i = i
      BY <2>2
    <3> QED
      BY <3>1, <3>2, <3>4, <3>5
  <2> QED
    BY <2>4, <2>5, <2>6
<1>2. CASE ring' = ring /\ log' = log
  BY <1>2 DEF RecentIsLatest, Kept
<1> QED
  BY <1>1, <1>2 DEF Next, Deliver, FilterOut, Send, Drop, SendOnClosed, Subscribe,
                    Close, Receive, vars, busVars, histVars

\* Recent returns the last records published, newest last, no matter how
\* Publish calls interleave.
THEOREM RecentCorrect == Spec => []RecentIsLatest
<1>1. Init => RecentIsLatest
  BY SizesType, EmptySeq DEF Init, RecentIsLatest, Recent, Kept
<1>2. TypeOK /\ RecentIsLatest /\ [Next]_vars => RecentIsLatest'
  BY RecentStep
<1> QED
  BY <1>1, <1>2, TypeCorrect, PTL DEF Spec

-----------------------------------------------------------------------------
(***************************************************************************)
(* For the modules that contain a bus.  A bus moves only records that were *)
(* published: to a ring, a channel or a drop count, never to the last two  *)
(* (Genuine); and a channel holds the rest of what it was handed, in order *)
(* (Queued).                                                               *)
(***************************************************************************)
Logged == {log[i] : i \in 1 .. Len(log)}

Genuine ==
  /\ \A r \in Logged : r.seq <= count[r.src]
  /\ \A p \in Publishers : Publishing(p) => Current(p) \in Logged
  /\ \A i \in 1 .. Len(ring) : ring[i] \in Logged
  /\ \A s \in Subscribers :
       /\ Handed(s) \subseteq Logged /\ dropped[s] \subseteq Logged
       /\ Handed(s) \cap dropped[s] = {}
       /\ s \notin subs \cup closed => dropped[s] = {}

Queued ==
  \A s \in Subscribers :
    /\ Len(ch[s]) <= Len(sent[s])
    /\ \A i \in 1 .. Len(ch[s]) :
         ch[s][i] = sent[s][Len(sent[s]) - Len(ch[s]) + i]

HistoryInv == Genuine /\ Queued

LEMMA InitHistory == Init => HistoryInv
<1> SUFFICES ASSUME Init PROVE HistoryInv
  OBVIOUS
<1>1. /\ Len(ring) = 0 /\ Len(log) = 0
      /\ \A s \in Subscribers : Len(sent[s]) = 0 /\ Len(ch[s]) = 0
  BY EmptySeq DEF Init
<1>2. Logged = {} /\ \A s \in Subscribers : Handed(s) = {}
  BY <1>1 DEF Logged, Handed
<1> QED
  BY <1>1, <1>2 DEF Init, HistoryInv, Genuine, Queued, Publishing

\* The elements of the ring after an append: old ones and the new one.
LEMMA RingAppendElements ==
  ASSUME TypeOK, NEW r \in Records, NEW i \in 1 .. Len(RingAppend(r))
  PROVE  RingAppend(r)[i] = r \/ \E j \in 1 .. Len(ring) : RingAppend(r)[i] = ring[j]
<1>t. ring \in Seq(Records) /\ Len(ring) \in Nat /\ RingSize \in Nat
  BY SizesType, LenProperties DEF TypeOK
<1>1. CASE RingSize = 0
  BY <1>1 DEF RingAppend
<1>2. CASE RingSize # 0 /\ Len(ring) >= RingSize
  <2>1. ring # <<>>
    BY <1>t, <1>2, EmptySeq
  <2>2. /\ Tail(ring) \in Seq(Records) /\ Len(Tail(ring)) = Len(ring) - 1
        /\ \A j \in 1 .. Len(ring) - 1 : Tail(ring)[j] = ring[j + 1]
    BY <1>t, <2>1, HeadTailProperties
  <2>3. RingAppend(r) = Append(Tail(ring), r)
    BY <1>2 DEF RingAppend
  <2>4. /\ Len(RingAppend(r)) = Len(ring)
        /\ RingAppend(r)[Len(ring)] = r
        /\ \A j \in 1 .. Len(ring) - 1 : RingAppend(r)[j] = ring[j + 1]
    BY <1>t, <2>2, <2>3, AppendProperties
  <2>5. i = Len(ring) \/ i \in 1 .. Len(ring) - 1
    BY <1>t, <2>4
  <2>6. i \in 1 .. Len(ring) - 1 => i + 1 \in 1 .. Len(ring)
    BY <1>t
  <2> QED
    BY <2>4, <2>5, <2>6
<1>3. CASE RingSize # 0 /\ ~(Len(ring) >= RingSize)
  <2>1. RingAppend(r) = Append(ring, r)
    BY <1>3 DEF RingAppend
  <2>2. /\ Len(RingAppend(r)) = Len(ring) + 1
        /\ RingAppend(r)[Len(ring) + 1] = r
        /\ \A j \in 1 .. Len(ring) : RingAppend(r)[j] = ring[j]
    BY <1>t, <2>1, AppendProperties
  <2>3. i = Len(ring) + 1 \/ i \in 1 .. Len(ring)
    BY <1>t, <2>2
  <2> QED
    BY <2>2, <2>3
<1> QED
  BY <1>1, <1>2, <1>3

LEMMA GenuineStep ==
  TypeOK /\ PendingInv /\ OrderInv /\ AccountInv /\ Genuine /\ [Next]_vars => Genuine'
<1> SUFFICES ASSUME TypeOK, PendingInv, OrderInv, AccountInv, Genuine, [Next]_vars
             PROVE  Genuine'
  OBVIOUS
<1>1. ASSUME NEW p \in Publishers, PublishLock(p)
      PROVE  Genuine'
  <2> DEFINE r == [src |-> p, seq |-> count[p] + 1]
  <2>1. r \in Records /\ r.src = p /\ r.seq = count[p] + 1
    BY <1>1, BusAssumption DEF PublishLock, TypeOK, Records
  <2>2. /\ count' = [count EXCEPT ![p] = @ + 1]
        /\ pending' = [pending EXCEPT ![p] = subs]
        /\ log' = Append(log, r) /\ ring' = RingAppend(r)
        /\ UNCHANGED <<subs, closed, dropped, sent>>
    BY <1>1 DEF PublishLock
  <2>3. /\ Len(log) \in Nat /\ Len(log') = Len(log) + 1
        /\ \A i \in 1 .. Len(log) : log'[i] = log[i]
        /\ log'[Len(log) + 1] = r
    BY <2>1, <2>2, AppendProperties, LenProperties DEF TypeOK
  <2>4. Logged' = Logged \cup {r}
    <3>1. 1 .. Len(log') = 1 .. Len(log) \cup {Len(log) + 1}
      BY <2>3
    <3> QED
      BY <2>3, <3>1 DEF Logged
  <2>5. Logged \subseteq Records
    BY LogType DEF Logged
  <2>6. \A q \in Records : q.src \in Publishers /\ q.seq \in Nat
    BY BusAssumption DEF Records
  <2>7. count \in [Publishers -> Nat]
    BY BusAssumption DEF TypeOK
  <2>8. Current(p)' = r /\ \A q \in Publishers : q # p =>
          Current(q)' = Current(q) /\ pending'[q] = pending[q]
    BY <2>2, <2>7 DEF Current, TypeOK
  <2> HIDE DEF r
  <2>9. \A q \in Logged' : q.seq <= count'[q.src]
    BY <2>1, <2>2, <2>4, <2>5, <2>6, <2>7 DEF Genuine
  <2>10. \A q \in Publishers : Publishing(q)' => Current(q)' \in Logged'
    BY <2>4, <2>8 DEF Genuine, Publishing
  <2>11. \A i \in 1 .. Len(ring') : ring'[i] \in Logged'
    BY <2>1, <2>2, <2>4, RingAppendElements DEF Genuine
  <2>12. \A s \in Subscribers : Handed(s)' = Handed(s)
    BY <2>2 DEF Handed
  <2> QED
    BY <2>2, <2>4, <2>9, <2>10, <2>11, <2>12 DEF Genuine
<1>2. ASSUME NEW p \in Publishers, NEW t \in Subscribers, Deliver(p, t)
      PROVE  Genuine'
  <2> DEFINE r == Current(p)
  <2>1. /\ UNCHANGED <<subs, closed, ring, count, log>>
        /\ t \in pending[p]
        /\ \A q \in Publishers : pending'[q] \subseteq pending[q]
    BY <1>2 DEF Deliver, FilterOut, Send, Drop, SendOnClosed, TypeOK, histVars
  <2>2. r \in Records /\ r.src = p /\ r.seq = count[p] /\ r \in Logged
    BY <2>1, CurrentType DEF Current, Publishing, Genuine
  <2>3. r \notin dropped[t] /\ r \notin Handed(t)
    <3>1. count \in [Publishers -> Nat]
      BY BusAssumption DEF TypeOK
    <3>2. r \notin dropped[t]
      BY <2>1, <2>2, <3>1 DEF AccountInv, DroppedInv
    <3>3. r \notin Handed(t)
      BY <2>1, <2>2, <3>1 DEF Handed, OrderInv, SentInv
    <3> QED
      BY <3>2, <3>3
  <2>4. t \in subs \cup closed
    BY <2>1 DEF PendingInv, Publishing
  <2>5. \A s \in Subscribers : s # t => Handed(s)' = Handed(s) /\ dropped'[s] = dropped[s]
    BY <1>2 DEF Deliver, FilterOut, Send, Drop, SendOnClosed, TypeOK, histVars, Handed
  <2>6. \/ Handed(t)' = Handed(t) \cup {r} /\ dropped'[t] = dropped[t]
        \/ Handed(t)' = Handed(t) /\ dropped'[t] = dropped[t] \cup {r}
        \/ Handed(t)' = Handed(t) /\ dropped'[t] = dropped[t]
    <3>1. CASE Send(p, t)
      <4>1. /\ sent'[t] = Append(sent[t], r) /\ dropped' = dropped
            /\ sent[t] \in Seq(Records)
        BY <3>1 DEF Send, TypeOK
      <4>2. Handed(t)' = Handed(t) \cup {r}
        BY <2>2, <4>1, HandedAppend
      <4> QED
        BY <4>1, <4>2
    <3>2. CASE ~Send(p, t)
      BY <1>2, <3>2 DEF Deliver, FilterOut, Drop, SendOnClosed, TypeOK, histVars, Handed
    <3> QED
      BY <3>1, <3>2
  <2>7. Logged' = Logged /\ \A q \in Publishers : Current(q)' = Current(q)
    BY <2>1 DEF Logged, Current
  <2>8. \A q \in Publishers : Publishing(q)' => Current(q)' \in Logged'
    BY <2>1, <2>7 DEF Genuine, Publishing
  <2>9. \A s \in Subscribers :
          /\ Handed(s)' \subseteq Logged /\ dropped'[s] \subseteq Logged
          /\ Handed(s)' \cap dropped'[s] = {}
          /\ s \notin subs \cup closed => dropped'[s] = {}
    <3> HIDE DEF r
    <3> QED
      BY <2>2, <2>3, <2>4, <2>5, <2>6 DEF Genuine
  <2> QED
    BY <2>1, <2>7, <2>8, <2>9 DEF Genuine
<1>3. ASSUME NEW s \in Subscribers, NEW f \in Filters, NEW b \in BOOLEAN,
             Subscribe(s, f, b)
      PROVE  Genuine'
  <2>1. PICK pos \in ReplayPositions(f, b) :
          sent' = [sent EXCEPT ![s] = [i \in DOMAIN pos |-> ring[pos[i]]]]
    BY <1>3 DEF Subscribe
  <2>2. PICK k \in Nat :
          /\ DOMAIN pos = 1 .. k
          /\ \A i \in 1 .. k : pos[i] \in 1 .. Len(ring)
    BY ReplayShape
  <2>3. /\ s \notin subs \cup closed /\ subs' = subs \cup {s}
        /\ UNCHANGED <<closed, ring, dropped, pending, count, log>>
    BY <1>3 DEF Subscribe
  <2>4. Handed(s)' \subseteq Logged
    <3>1. sent'[s] = [i \in 1 .. k |-> ring[pos[i]]]
      BY <2>1, <2>2 DEF TypeOK
    <3>2. Len(sent'[s]) = k
      BY <2>2, <3>1
    <3> QED
      BY <2>2, <3>1, <3>2 DEF Genuine, Handed
  <2>5. \A q \in Subscribers : q # s => Handed(q)' = Handed(q)
    BY <2>1 DEF Handed, TypeOK
  <2>6. Logged' = Logged /\ \A q \in Publishers :
          Current(q)' = Current(q) /\ (Publishing(q)' <=> Publishing(q))
    BY <2>3 DEF Logged, Current, Publishing
  <2> QED
    BY <2>3, <2>4, <2>5, <2>6 DEF Genuine
<1>6. ASSUME subs \cup closed \subseteq subs' \cup closed',
             UNCHANGED <<ring, dropped, pending, count, log, sent>>
      PROVE  Genuine'
  <2>1. /\ Logged' = Logged
        /\ \A s \in Subscribers : Handed(s)' = Handed(s)
        /\ \A p \in Publishers : Current(p)' = Current(p)
        /\ \A p \in Publishers : Publishing(p)' <=> Publishing(p)
    BY <1>6 DEF Logged, Handed, Publishing, Current
  <2> QED
    BY <1>6, <2>1 DEF Genuine
<1>4. ASSUME NEW s \in Subscribers, Close(s) \/ Receive(s)
      PROVE  Genuine'
  <2>1. /\ subs \cup closed \subseteq subs' \cup closed'
        /\ UNCHANGED <<ring, dropped, pending, count, log, sent>>
    BY <1>4 DEF Close, Receive, histVars
  <2> QED
    BY <1>6, <2>1
<1>5. CASE UNCHANGED vars
  <2>1. /\ subs \cup closed \subseteq subs' \cup closed'
        /\ UNCHANGED <<ring, dropped, pending, count, log, sent>>
    BY <1>5 DEF vars, busVars, histVars
  <2> QED
    BY <1>6, <2>1
<1> QED
  BY <1>1, <1>2, <1>3, <1>4, <1>5 DEF Next

LEMMA QueuedStep ==
  TypeOK /\ PendingInv /\ Queued /\ [Next]_vars => Queued'
<1> SUFFICES ASSUME TypeOK, PendingInv, Queued, [Next]_vars
             PROVE  Queued'
  OBVIOUS
<1>t. \A s \in Subscribers : /\ ch[s] \in Seq(Records) /\ sent[s] \in Seq(Records)
                             /\ Len(ch[s]) \in Nat /\ Len(sent[s]) \in Nat
  BY LenProperties DEF TypeOK
<1>1. ASSUME NEW p \in Publishers, NEW t \in Subscribers, Send(p, t)
      PROVE  Queued'
  <2> DEFINE r == Current(p)
  <2>1. r \in Records
    BY <1>1, CurrentType DEF Send, Publishing
  <2>2. /\ ch' = [ch EXCEPT ![t] = Append(@, r)]
        /\ sent' = [sent EXCEPT ![t] = Append(@, r)]
    BY <1>1 DEF Send
  <2> HIDE DEF r
  <2> SUFFICES ASSUME NEW s \in Subscribers
               PROVE  /\ Len(ch'[s]) <= Len(sent'[s])
                      /\ \A i \in 1 .. Len(ch'[s]) :
                           ch'[s][i] = sent'[s][Len(sent'[s]) - Len(ch'[s]) + i]
    BY DEF Queued
  <2>3. CASE s # t
    BY <2>2, <2>3 DEF Queued, TypeOK
  <2>4. CASE s = t
    <3> DEFINE a == Len(ch[s])
               b == Len(sent[s])
    <3>1. /\ a \in Nat /\ b \in Nat /\ a <= b
          /\ \A i \in 1 .. a : ch[s][i] = sent[s][b - a + i]
      BY <1>t DEF Queued
    <3>2. ch'[s] = Append(ch[s], r) /\ sent'[s] = Append(sent[s], r)
      BY <2>2, <2>4 DEF TypeOK
    <3>3. /\ Len(ch'[s]) = a + 1 /\ Len(sent'[s]) = b + 1
          /\ \A i \in 1 .. a : ch'[s][i] = ch[s][i]
          /\ ch'[s][a + 1] = r
          /\ \A i \in 1 .. b : sent'[s][i] = sent[s][i]
          /\ sent'[s][b + 1] = r
      BY <1>t, <2>1, <3>2, AppendProperties
    <3> HIDE DEF a, b
    <3>4. ASSUME NEW i \in 1 .. a + 1
          PROVE  ch'[s][i] = sent'[s][(b + 1) - (a + 1) + i]
      <4>1. CASE i = a + 1
        <5>1. (b + 1) - (a + 1) + i = b + 1
          BY <3>1, <4>1
        <5> QED
          BY <3>3, <4>1, <5>1
      <4>2. CASE i \in 1 .. a
        <5>1. (b + 1) - (a + 1) + i = b - a + i /\ b - a + i \in 1 .. b
          BY <3>1, <4>2
        <5> QED
          BY <3>1, <3>3, <4>2, <5>1
      <4> QED
        BY <3>1, <4>1, <4>2
    <3> QED
      BY <3>1, <3>3, <3>4
  <2> QED
    BY <2>3, <2>4
<1>2. ASSUME NEW s \in Subscribers, NEW f \in Filters, NEW b \in BOOLEAN,
             Subscribe(s, f, b)
      PROVE  Queued'
  <2>1. PICK pos \in ReplayPositions(f, b) :
          /\ ch' = [ch EXCEPT ![s] = [i \in DOMAIN pos |-> ring[pos[i]]]]
          /\ sent' = [sent EXCEPT ![s] = [i \in DOMAIN pos |-> ring[pos[i]]]]
    BY <1>2 DEF Subscribe
  <2>2. PICK k \in Nat : DOMAIN pos = 1 .. k
    BY ReplayShape
  <2>3. /\ ch'[s] = [i \in 1 .. k |-> ring[pos[i]]]
        /\ sent'[s] = [i \in 1 .. k |-> ring[pos[i]]]
        /\ \A q \in Subscribers : q # s => ch'[q] = ch[q] /\ sent'[q] = sent[q]
    BY <2>1, <2>2 DEF TypeOK
  <2>4. Len(ch'[s]) = k /\ Len(sent'[s]) = k
    BY <2>2, <2>3
  <2>5. \A i \in 1 .. k : k - k + i = i
    BY <2>2
  <2>6. \A i \in 1 .. k : ch'[s][i] = sent'[s][k - k + i]
    <3> TAKE i \in 1 .. k
    <3>1. ch'[s][i] = ring[pos[i]] /\ sent'[s][i] = ring[pos[i]]
      BY <2>3
    <3> QED
      BY <2>5, <3>1
  <2>7. ASSUME NEW q \in Subscribers, q # s
        PROVE  /\ Len(ch'[q]) <= Len(sent'[q])
               /\ \A i \in 1 .. Len(ch'[q]) :
                    ch'[q][i] = sent'[q][Len(sent'[q]) - Len(ch'[q]) + i]
    <3>1. ch'[q] = ch[q] /\ sent'[q] = sent[q]
      BY <2>3, <2>7
    <3> QED
      BY <3>1 DEF Queued
  <2>8. /\ Len(ch'[s]) <= Len(sent'[s])
        /\ \A i \in 1 .. Len(ch'[s]) :
             ch'[s][i] = sent'[s][Len(sent'[s]) - Len(ch'[s]) + i]
    BY <2>4, <2>6
  <2> QED
    BY <2>7, <2>8 DEF Queued
<1>3. ASSUME NEW t \in Subscribers, Receive(t)
      PROVE  Queued'
  <2>1. ch[t] # <<>> /\ ch' = [ch EXCEPT ![t] = Tail(@)] /\ sent' = sent
    BY <1>3 DEF Receive, histVars
  <2>2. /\ ch'[t] = Tail(ch[t]) /\ Len(ch'[t]) = Len(ch[t]) - 1
        /\ Len(ch'[t]) \in Nat
        /\ \A i \in 1 .. Len(ch[t]) - 1 : ch'[t][i] = ch[t][i + 1]
    BY <1>t, <2>1, HeadTailProperties, LenProperties DEF TypeOK
  <2> SUFFICES ASSUME NEW s \in Subscribers
               PROVE  /\ Len(ch'[s]) <= Len(sent'[s])
                      /\ \A i \in 1 .. Len(ch'[s]) :
                           ch'[s][i] = sent'[s][Len(sent'[s]) - Len(ch'[s]) + i]
    BY DEF Queued
  <2>5. sent'[s] = sent[s]
    BY <2>1
  <2>3. CASE s # t
    <3>1. ch'[s] = ch[s]
      BY <2>1, <2>3 DEF TypeOK
    <3> QED
      BY <2>5, <3>1 DEF Queued
  <2>4. CASE s = t
    <3> DEFINE a == Len(ch[s])
               b == Len(sent[s])
    <3>1. /\ a \in Nat /\ b \in Nat /\ a <= b
          /\ \A i \in 1 .. a : ch[s][i] = sent[s][b - a + i]
      BY <1>t DEF Queued
    <3>2. /\ Len(ch'[s]) = a - 1
          /\ \A i \in 1 .. a - 1 : ch'[s][i] = ch[s][i + 1]
      BY <2>2, <2>4
    <3> HIDE DEF a, b
    <3>3. ASSUME NEW i \in 1 .. a - 1
          PROVE  ch'[s][i] = sent[s][b - (a - 1) + i]
      <4>1. i + 1 \in 1 .. a /\ b - a + (i + 1) = b - (a - 1) + i
        BY <3>1
      <4> QED
        BY <3>1, <3>2, <4>1
    <3> QED
      BY <2>5, <3>1, <3>2, <3>3 DEF b
  <2> QED
    BY <2>3, <2>4
<1>4. CASE UNCHANGED <<ch, sent>>
  BY <1>4 DEF Queued
<1>5. ASSUME NEW p \in Publishers PROVE PublishLock(p) => UNCHANGED <<ch, sent>>
  BY DEF PublishLock
<1>6. ASSUME NEW p \in Publishers, NEW s \in Subscribers
      PROVE  Deliver(p, s) => Send(p, s) \/ UNCHANGED <<ch, sent>>
  BY DEF Deliver, FilterOut, Drop, SendOnClosed, histVars
<1>7. ASSUME NEW s \in Subscribers PROVE Close(s) => UNCHANGED <<ch, sent>>
  BY DEF Close, histVars
<1>8. UNCHANGED vars => UNCHANGED <<ch, sent>>
  BY DEF vars, busVars, histVars
<1> QED
  BY <1>1, <1>2, <1>3, <1>4, <1>5, <1>6, <1>7, <1>8 DEF Next

\* All of it, as one inductive invariant.
BusInv == TypeOK /\ PendingInv /\ OrderInv /\ AccountInv /\ HistoryInv

LEMMA InitBus == Init => BusInv
BY InitType, InitOrder, InitAccount, InitHistory DEF BusInv

LEMMA BusStep == BusInv /\ [Next]_vars => BusInv'
BY TypeStep, OrderStep, AccountStep, GenuineStep, QueuedStep DEF BusInv, HistoryInv

=============================================================================
