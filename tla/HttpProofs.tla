----------------------------- MODULE HttpProofs -----------------------------
(***************************************************************************)
(* Proofs about the HTTP edge: each part has its inductive invariant, and  *)
(* the invariants hold together since the parts share no state.            *)
(***************************************************************************)
EXTENDS Http, FiniteSetTheorems, SequenceTheorems, TLAPS

(***************************************************************************)
(* The rate limit.  The level of every bucket is the textbook credit: that *)
(* a refill is linear up to the brim (RefillTick), and that GcAge is long  *)
(* enough to fill any bucket (OldIsFull).                                  *)
(***************************************************************************)
Bucket == [tokens : 0 .. Full, age : 0 .. GcAge + 1]

LimitInv ==
  /\ DOMAIN buckets \subseteq Addrs
  /\ buckets = [a \in DOMAIN buckets |-> buckets[a]]
  /\ \A a \in DOMAIN buckets : buckets[a] \in Bucket
  /\ credit \in [Addrs -> 0 .. Full]
  /\ \A a \in Addrs : Level(buckets, a) = credit[a]

LEMMA LimitNumbers ==
  /\ Rpm \in Nat /\ Rpm > 0 /\ Full \in Nat /\ Full = Rpm * Minute
  /\ Minute \in Nat /\ Minute > 0 /\ Full >= Minute
  /\ GcAge \in Nat /\ GcAge >= Minute /\ Rpm * 0 = 0
<1>1. Rpm \in Nat /\ Rpm > 0
  BY RateLimitAssumption DEF Rpm
<1>2. Minute \in Nat /\ Minute > 0 /\ GcAge \in Nat /\ GcAge >= Minute
  BY RateLimitAssumption
<1>3. \A r, m \in Nat : r > 0 => r * m \in Nat /\ r * m >= m /\ r * 0 = 0
  OBVIOUS
<1> QED
  BY <1>1, <1>2, <1>3 DEF Full

LEMMA OldIsFull ==
  ASSUME NEW n \in Nat, n >= Minute
  PROVE  Rpm * n \in Nat /\ Rpm * n >= Full
<1>1. \A r, m, d \in Nat : r * (m + d) = r * m + r * d /\ r * d \in Nat /\ r * m \in Nat
  OBVIOUS
<1>2. PICK d \in Nat : n = Minute + d
  <2>1. n - Minute \in Nat /\ n = Minute + (n - Minute)
    BY LimitNumbers
  <2> QED
    BY <2>1
<1>3. Rpm * n = Full + Rpm * d /\ Rpm * d \in Nat /\ Rpm * n \in Nat
  BY <1>1, <1>2, LimitNumbers
<1> QED
  BY <1>3, LimitNumbers

LEMMA RefillTick ==
  ASSUME NEW t \in 0 .. Full, NEW n \in 0 .. GcAge + 1
  PROVE  AtMost(t + Rpm * AtMost(n + 1, GcAge + 1), Full)
           = AtMost(AtMost(t + Rpm * n, Full) + Rpm, Full)
<1>n. n \in Nat /\ t \in Nat /\ Rpm \in Nat /\ Full \in Nat /\ Rpm * n \in Nat
  <2>1. \A r, m \in Nat : r * m \in Nat
    OBVIOUS
  <2> QED
    BY <2>1, LimitNumbers
<1>1. CASE n <= GcAge
  <2>1. AtMost(n + 1, GcAge + 1) = n + 1
    BY <1>1, <1>n, LimitNumbers DEF AtMost
  <2>2. Rpm * (n + 1) = Rpm * n + Rpm
    <3>1. \A r, m \in Nat : r * (m + 1) = r * m + r
      OBVIOUS
    <3> QED
      BY <3>1, <1>n
  <2>3. \A x, r, f \in Nat : AtMost(x + r, f) = AtMost(AtMost(x, f) + r, f)
    BY DEF AtMost
  <2>4. t + Rpm * (n + 1) = (t + Rpm * n) + Rpm /\ t + Rpm * n \in Nat
    BY <1>n, <2>2
  <2> QED
    BY <1>n, <2>1, <2>3, <2>4
<1>2. CASE ~(n <= GcAge)
  <2>1. n = GcAge + 1 /\ AtMost(n + 1, GcAge + 1) = GcAge + 1 /\ n >= Minute
    BY <1>2, <1>n, LimitNumbers DEF AtMost
  <2>2. Rpm * n >= Full
    BY <1>n, <2>1, OldIsFull
  <2>3. AtMost(t + Rpm * n, Full) = Full /\ AtMost(Full + Rpm, Full) = Full
    BY <1>n, <2>2, LimitNumbers DEF AtMost
  <2> QED
    BY <2>1, <2>3
<1> QED
  BY <1>1, <1>2

LEMMA InitLimit == LimitInit => LimitInv
<1> SUFFICES ASSUME LimitInit PROVE LimitInv
  OBVIOUS
<1>1. DOMAIN buckets = {} /\ buckets = [a \in DOMAIN buckets |-> buckets[a]]
  BY DEF LimitInit
<1>2. credit = [a \in Addrs |-> Full] /\ Full \in 0 .. Full
  BY LimitNumbers DEF LimitInit
<1> QED
  BY <1>1, <1>2 DEF LimitInv, Level

LEMMA LimitTickStep ==
  ASSUME LimitInv, LimitTick
  PROVE  LimitInv'
<1>1. /\ DOMAIN buckets' = DOMAIN buckets
      /\ buckets' = [a \in DOMAIN buckets |->
                       [buckets[a] EXCEPT !.age = AtMost(buckets[a].age + 1, GcAge + 1)]]
      /\ credit' = [a \in Addrs |-> AtMost(credit[a] + Rpm, Full)]
  BY DEF LimitTick
<1>2. ASSUME NEW a \in DOMAIN buckets
      PROVE  /\ buckets'[a] \in Bucket
             /\ buckets'[a].tokens = buckets[a].tokens
             /\ buckets'[a].age = AtMost(buckets[a].age + 1, GcAge + 1)
  <2>1. buckets[a] \in Bucket
    BY DEF LimitInv
  <2>2. AtMost(buckets[a].age + 1, GcAge + 1) \in 0 .. GcAge + 1
    BY <2>1, LimitNumbers DEF Bucket, AtMost
  <2> QED
    BY <1>1, <2>1, <2>2 DEF Bucket
<1>3. ASSUME NEW a \in Addrs
      PROVE  credit'[a] \in 0 .. Full /\ credit'[a] = AtMost(credit[a] + Rpm, Full)
  <2>1. credit[a] \in 0 .. Full
    BY DEF LimitInv
  <2> QED
    BY <1>1, <2>1, LimitNumbers DEF AtMost
<1>4. ASSUME NEW a \in Addrs
      PROVE  Level(buckets', a) = credit'[a]
  <2>1. Level(buckets, a) = credit[a]
    BY DEF LimitInv
  <2>2. CASE a \in DOMAIN buckets
    <3>1. buckets[a].tokens \in 0 .. Full /\ buckets[a].age \in 0 .. GcAge + 1
      BY <2>2 DEF LimitInv, Bucket
    <3>2. credit[a] = AtMost(buckets[a].tokens + Rpm * buckets[a].age, Full)
      BY <2>1, <2>2 DEF Level
    <3>3. Level(buckets', a) =
            AtMost(buckets[a].tokens + Rpm * AtMost(buckets[a].age + 1, GcAge + 1), Full)
      BY <1>1, <1>2, <2>2 DEF Level
    <3> QED
      BY <1>3, <3>1, <3>2, <3>3, RefillTick
  <2>3. CASE a \notin DOMAIN buckets
    <3>1. credit[a] = Full /\ Level(buckets', a) = Full
      BY <1>1, <2>1, <2>3 DEF Level
    <3>2. AtMost(Full + Rpm, Full) = Full
      BY LimitNumbers DEF AtMost
    <3> QED
      BY <1>3, <3>1, <3>2
  <2> QED
    BY <2>2, <2>3
<1>5. credit' \in [Addrs -> 0 .. Full]
  BY <1>1, <1>3
<1>6. buckets' = [a \in DOMAIN buckets' |-> buckets'[a]] /\ DOMAIN buckets' \subseteq Addrs
  BY <1>1 DEF LimitInv
<1>7. \A a \in DOMAIN buckets' : buckets'[a] \in Bucket
  BY <1>1, <1>2
<1> QED
  BY <1>4, <1>5, <1>6, <1>7 DEF LimitInv

LEMMA AllowStep ==
  ASSUME LimitInv, NEW a \in Addrs, Allow(a)
  PROVE  LimitInv'
<1> DEFINE collects == (calls + 1) % GcEvery = 0
<1>1. PICK kept : kept = IF collects THEN Collected(buckets) ELSE buckets
  OBVIOUS
<1>2. /\ DOMAIN kept \subseteq DOMAIN buckets
      /\ \A b \in DOMAIN kept : kept[b] = buckets[b]
      /\ \A b \in DOMAIN buckets : b \notin DOMAIN kept => ~(buckets[b].age <= GcAge)
  BY <1>1 DEF Collected
<1>3. ASSUME NEW b \in Addrs PROVE Level(kept, b) = credit[b]
  <2>1. Level(buckets, b) = credit[b]
    BY DEF LimitInv
  <2>2. CASE b \in DOMAIN kept \/ b \notin DOMAIN buckets
    BY <1>2, <2>1, <2>2 DEF Level
  <2>3. CASE b \in DOMAIN buckets /\ b \notin DOMAIN kept
    <3>1. /\ buckets[b].tokens \in Nat /\ buckets[b].age \in Nat
          /\ buckets[b].age >= Minute
      BY <1>2, <2>3, LimitNumbers DEF LimitInv, Bucket
    <3>2. Rpm * buckets[b].age \in Nat /\ Rpm * buckets[b].age >= Full
      BY <3>1, OldIsFull
    <3>3. Level(buckets, b) = Full
      BY <2>3, <3>1, <3>2, LimitNumbers DEF Level, AtMost
    <3> QED
      BY <2>1, <2>3, <3>3 DEF Level
  <2> QED
    BY <2>2, <2>3
<1>4. PICK left : left = IF credit[a] >= Minute THEN credit[a] - Minute ELSE credit[a]
  OBVIOUS
<1>5. /\ buckets' = [b \in DOMAIN kept \cup {a} |->
                       IF b = a THEN [tokens |-> left, age |-> 0] ELSE kept[b]]
      /\ credit' = [credit EXCEPT ![a] =
                      credit[a] - IF credit[a] >= Minute THEN Minute ELSE 0]
  BY <1>1, <1>3, <1>4 DEF Allow
<1>6. credit[a] \in 0 .. Full /\ left \in 0 .. Full /\ credit'[a] = left
  <2>1. credit[a] \in 0 .. Full /\ credit \in [Addrs -> 0 .. Full]
    BY DEF LimitInv
  <2> QED
    BY <1>4, <1>5, <2>1, LimitNumbers
<1>7. credit' \in [Addrs -> 0 .. Full] /\ \A b \in Addrs : b # a => credit'[b] = credit[b]
  BY <1>5, <1>6 DEF LimitInv
<1>8. ASSUME NEW b \in Addrs PROVE Level(buckets', b) = credit'[b]
  <2>1. CASE b = a
    <3>1. buckets'[a] = [tokens |-> left, age |-> 0] /\ a \in DOMAIN buckets'
      BY <1>5
    <3>2. Level(buckets', a) = AtMost(left + Rpm * 0, Full)
      BY <3>1 DEF Level
    <3> QED
      BY <1>6, <2>1, <3>2, LimitNumbers DEF AtMost
  <2>2. CASE b # a
    <3>1. Level(buckets', b) = Level(kept, b)
      BY <1>5, <2>2 DEF Level
    <3> QED
      BY <1>3, <1>7, <2>2, <3>1
  <2> QED
    BY <2>1, <2>2
<1>9. /\ DOMAIN buckets' = DOMAIN kept \cup {a}
      /\ buckets' = [b \in DOMAIN buckets' |-> buckets'[b]]
  BY <1>5
<1>10. \A b \in DOMAIN buckets' : buckets'[b] \in Bucket
  <2>1. [tokens |-> left, age |-> 0] \in Bucket
    BY <1>6, LimitNumbers DEF Bucket
  <2> QED
    BY <1>2, <1>5, <2>1 DEF LimitInv
<1> QED
  BY <1>2, <1>7, <1>8, <1>9, <1>10 DEF LimitInv

LEMMA LimitStep == LimitInv /\ [LimitNext]_limitVars => LimitInv'
<1> SUFFICES ASSUME LimitInv, [LimitNext]_limitVars PROVE LimitInv'
  OBVIOUS
<1>1. CASE UNCHANGED limitVars
  BY <1>1 DEF limitVars, LimitInv, Level
<1> QED
  BY <1>1, LimitTickStep, AllowStep DEF LimitNext

LEMMA LimitImplies == LimitInv => LimitExact
BY LimitNumbers DEF LimitInv, LimitExact

-----------------------------------------------------------------------------
(***************************************************************************)
(* The streams.  What is promised is inductive, once the handlers that are *)
(* counted are known to be finitely many.                                  *)
(***************************************************************************)
At(places) == {c \in Clients : handler[c] \in places}

StreamsInv ==
  /\ handler \in [Clients -> Counted \cup {"idle"}]
  /\ IsFiniteSet(At(Counted)) /\ streamCount = Cardinality(At(Counted))
  /\ Cardinality(At(Passed)) <= MaxStreams
  /\ subscribed = At(Upgraded)

LEMMA StreamsSize ==
  ASSUME StreamsInv
  PROVE  /\ streamCount \in Nat /\ IsFiniteSet(At(Passed))
         /\ Cardinality(At(Passed)) \in Nat
         /\ Cardinality(At(Passed)) <= streamCount
<1>1. IsFiniteSet(At(Counted)) /\ streamCount = Cardinality(At(Counted))
  BY DEF StreamsInv
<1>2. At(Passed) \subseteq At(Counted)
  BY DEF At, Counted
<1> QED
  BY <1>1, <1>2, FS_Subset, FS_CardinalityType

LEMMA InitStreams == StreamsInit => StreamsInv
<1> SUFFICES ASSUME StreamsInit PROVE StreamsInv
  OBVIOUS
<1>1. handler = [c \in Clients |-> "idle"] /\ streamCount = 0 /\ subscribed = {}
  BY DEF StreamsInit
<1>2. At(Counted) = {} /\ At(Passed) = {} /\ At(Upgraded) = {}
  BY <1>1 DEF At, Counted, Passed, Upgraded
<1>3. IsFiniteSet({}) /\ Cardinality({}) = 0
  BY FS_EmptySet
<1> QED
  BY <1>1, <1>2, <1>3, StreamsAssumption DEF StreamsInv

\* A handler moves from one place to another: how the sets of handlers at some
\* of the places change.
LEMMA Moves ==
  ASSUME handler \in [Clients -> Counted \cup {"idle"}], NEW c \in Clients,
         NEW place, Go(c, place), NEW places
  PROVE  At(places)' = IF place \in places THEN At(places) \cup {c} ELSE At(places) \ {c}
<1>1. \A d \in Clients : handler'[d] = IF d = c THEN place ELSE handler[d]
  BY DEF Go
<1> QED
  BY <1>1 DEF At

\* A handler moves between places that are counted, and passes no cap.
LEMMA MoveWithin ==
  ASSUME StreamsInv, NEW c \in Clients, NEW place \in Counted, Go(c, place),
         handler[c] \in Counted, place \in Passed => handler[c] \in Passed,
         streamCount' = streamCount,
         subscribed' = IF place \in Upgraded THEN subscribed \cup {c} ELSE subscribed \ {c}
  PROVE  StreamsInv'
<1>t. handler \in [Clients -> Counted \cup {"idle"}]
  BY DEF StreamsInv
<1>1. /\ At(Counted)' = At(Counted) \cup {c} /\ c \in At(Counted)
      /\ At(Passed)' = IF place \in Passed THEN At(Passed) \cup {c} ELSE At(Passed) \ {c}
      /\ At(Upgraded)' = IF place \in Upgraded THEN At(Upgraded) \cup {c}
                                               ELSE At(Upgraded) \ {c}
  <2>1. c \in At(Counted)
    BY DEF At
  <2>2. /\ At(Counted)' = IF place \in Counted THEN At(Counted) \cup {c}
                                               ELSE At(Counted) \ {c}
        /\ At(Passed)' = IF place \in Passed THEN At(Passed) \cup {c} ELSE At(Passed) \ {c}
        /\ At(Upgraded)' = IF place \in Upgraded THEN At(Upgraded) \cup {c}
                                                 ELSE At(Upgraded) \ {c}
    BY <1>t, Moves
  <2> QED
    BY <2>1, <2>2
<1>2. At(Counted)' = At(Counted) /\ At(Passed)' \subseteq At(Passed)
  BY <1>1 DEF At
<1>3. Cardinality(At(Passed)') <= MaxStreams
  BY <1>2, StreamsSize, FS_Subset, FS_CardinalityType, StreamsAssumption DEF StreamsInv
<1>4. handler' \in [Clients -> Counted \cup {"idle"}]
  BY <1>t DEF Go
<1> QED
  BY <1>1, <1>2, <1>3, <1>4 DEF StreamsInv

LEMMA EnterStep ==
  ASSUME StreamsInv, NEW c \in Clients, Enter(c)
  PROVE  StreamsInv'
<1>t. /\ handler \in [Clients -> Counted \cup {"idle"}]
      /\ IsFiniteSet(At(Counted)) /\ streamCount = Cardinality(At(Counted))
      /\ Cardinality(At(Passed)) <= MaxStreams /\ subscribed = At(Upgraded)
      /\ streamCount \in Nat /\ IsFiniteSet(At(Passed)) /\ MaxStreams \in Nat
      /\ Cardinality(At(Passed)) \in Nat /\ Cardinality(At(Passed)) <= streamCount
  BY StreamsSize, StreamsAssumption DEF StreamsInv
<1>1. PICK place : place = IF streamCount + 1 > MaxStreams THEN "refusing" ELSE "accepting"
  OBVIOUS
<1>2. /\ handler[c] = "idle" /\ Go(c, place) /\ streamCount' = streamCount + 1
      /\ subscribed' = subscribed
  BY <1>1 DEF Enter
<1>3. place \in Counted /\ place \notin Upgraded /\ "idle" \notin Counted
  BY <1>1 DEF Counted, Passed, Upgraded
<1>4. /\ At(Counted)' = At(Counted) \cup {c} /\ c \notin At(Counted)
      /\ At(Upgraded)' = At(Upgraded) \ {c} /\ c \notin At(Upgraded)
      /\ At(Passed)' = IF place \in Passed THEN At(Passed) \cup {c} ELSE At(Passed) \ {c}
  <2>1. "idle" \notin Upgraded
    BY DEF Upgraded
  <2>2. c \notin At(Counted) /\ c \notin At(Upgraded)
    BY <1>2, <1>3, <2>1 DEF At
  <2>3. /\ At(Counted)' = IF place \in Counted THEN At(Counted) \cup {c}
                                               ELSE At(Counted) \ {c}
        /\ At(Passed)' = IF place \in Passed THEN At(Passed) \cup {c} ELSE At(Passed) \ {c}
        /\ At(Upgraded)' = IF place \in Upgraded THEN At(Upgraded) \cup {c}
                                                 ELSE At(Upgraded) \ {c}
    BY <1>t, <1>2, Moves
  <2> QED
    BY <1>3, <2>2, <2>3
<1>5. IsFiniteSet(At(Counted)') /\ streamCount' = Cardinality(At(Counted)')
  BY <1>t, <1>2, <1>4, FS_AddElement
<1>6. Cardinality(At(Passed)') <= MaxStreams
  <2>1. CASE streamCount + 1 > MaxStreams
    <3>1. place \notin Passed
      BY <1>1, <2>1 DEF Passed, Upgraded
    <3>2. At(Passed)' \subseteq At(Passed)
      BY <1>4, <3>1
    <3> QED
      BY <1>t, <3>2, FS_Subset, FS_CardinalityType
  <2>2. CASE ~(streamCount + 1 > MaxStreams)
    <3>1. At(Passed)' \subseteq At(Passed) \cup {c}
      BY <1>4
    <3>2. /\ IsFiniteSet(At(Passed) \cup {c})
          /\ Cardinality(At(Passed) \cup {c}) \in
               {Cardinality(At(Passed)), Cardinality(At(Passed)) + 1}
      BY <1>t, FS_AddElement
    <3>3. /\ Cardinality(At(Passed)') \in Nat
          /\ Cardinality(At(Passed)') <= Cardinality(At(Passed) \cup {c})
      BY <3>1, <3>2, FS_Subset, FS_CardinalityType
    <3> QED
      BY <1>t, <2>2, <3>2, <3>3
  <2> QED
    BY <2>1, <2>2
<1>7. handler' \in [Clients -> Counted \cup {"idle"}]
  BY <1>t, <1>2, <1>3 DEF Go
<1> QED
  BY <1>t, <1>2, <1>4, <1>5, <1>6, <1>7 DEF StreamsInv

\* Refuse and Leave give the count back.
LEMMA GiveBackStep ==
  ASSUME StreamsInv, NEW c \in Clients, Refuse(c) \/ Leave(c)
  PROVE  StreamsInv'
<1>t. /\ handler \in [Clients -> Counted \cup {"idle"}]
      /\ IsFiniteSet(At(Counted)) /\ streamCount = Cardinality(At(Counted))
      /\ Cardinality(At(Passed)) <= MaxStreams /\ subscribed = At(Upgraded)
      /\ IsFiniteSet(At(Passed)) /\ MaxStreams \in Nat
      /\ Cardinality(At(Passed)) \in Nat
  BY StreamsSize, StreamsAssumption DEF StreamsInv
<1>1. /\ handler[c] \in {"refusing", "leaving"} /\ Go(c, "idle")
      /\ streamCount' = streamCount - 1 /\ subscribed' = subscribed
  BY DEF Refuse, Leave
<1>2. /\ handler[c] \in Counted /\ handler[c] \notin Upgraded
      /\ "idle" \notin Counted /\ "idle" \notin Passed /\ "idle" \notin Upgraded
  BY <1>1 DEF Counted, Passed, Upgraded
<1>3. /\ At(Counted)' = At(Counted) \ {c} /\ c \in At(Counted)
      /\ At(Upgraded)' = At(Upgraded) \ {c} /\ c \notin At(Upgraded)
      /\ At(Passed)' = At(Passed) \ {c}
  <2>1. c \in At(Counted) /\ c \notin At(Upgraded)
    BY <1>2 DEF At
  <2>2. /\ At(Counted)' = IF "idle" \in Counted THEN At(Counted) \cup {c}
                                                ELSE At(Counted) \ {c}
        /\ At(Passed)' = IF "idle" \in Passed THEN At(Passed) \cup {c}
                                              ELSE At(Passed) \ {c}
        /\ At(Upgraded)' = IF "idle" \in Upgraded THEN At(Upgraded) \cup {c}
                                                  ELSE At(Upgraded) \ {c}
    BY <1>t, <1>1, Moves
  <2> QED
    BY <1>2, <2>1, <2>2
<1>4. IsFiniteSet(At(Counted)') /\ streamCount' = Cardinality(At(Counted)')
  BY <1>t, <1>1, <1>3, FS_RemoveElement
<1>5. Cardinality(At(Passed)') <= MaxStreams
  BY <1>t, <1>3, FS_Subset, FS_CardinalityType
<1>6. handler' \in [Clients -> Counted \cup {"idle"}]
  BY <1>t, <1>1 DEF Go
<1> QED
  BY <1>t, <1>1, <1>3, <1>4, <1>5, <1>6 DEF StreamsInv

LEMMA WithinSteps ==
  ASSUME StreamsInv, NEW c \in Clients,
         \/ Accept(c) \/ ContextDone(c) \/ PingDue(c) \/ TakeRecord(c) \/ Written(c)
         \/ WaitEnds(c) \/ PeerGone(c) \/ Unsubscribe(c)
  PROVE  StreamsInv'
<1>t. subscribed = At(Upgraded) /\ c \in Clients
  BY DEF StreamsInv
<1>1. PICK place \in Counted :
        /\ Go(c, place) /\ handler[c] \in Counted
        /\ place \in Passed /\ handler[c] \in Passed
        /\ streamCount' = streamCount
        /\ IF place \in Upgraded
           THEN subscribed' = subscribed \cup {c}
           ELSE subscribed' = subscribed \ {c}
  <2>1. CASE Accept(c)
    <3>1. c \notin subscribed
      BY <1>t, <2>1 DEF Accept, At, Upgraded
    <3>2. CASE Go(c, "leaving") /\ UNCHANGED <<subscribed, backlog>>
      BY <2>1, <3>1, <3>2 DEF Accept, Counted, Passed, Upgraded
    <3>3. CASE Go(c, "loop") /\ subscribed' = subscribed \cup {c}
      BY <2>1, <3>3 DEF Accept, Counted, Passed, Upgraded
    <3> QED
      BY <2>1, <3>2, <3>3 DEF Accept
  <2>2. CASE ContextDone(c) \/ PingDue(c) \/ TakeRecord(c) \/ Written(c) \/ WaitEnds(c) \/ PeerGone(c)
    <3>1. handler[c] \in Upgraded
      BY <2>2 DEF ContextDone, PingDue, TakeRecord, Written, WaitEnds, PeerGone, Upgraded
    <3>2. subscribed' = subscribed /\ subscribed \cup {c} = subscribed
      BY <1>t, <2>2, <3>1 DEF At, ContextDone, PingDue, TakeRecord, Written, WaitEnds, PeerGone
    <3>3. PICK place \in Upgraded : Go(c, place) /\ streamCount' = streamCount
      BY <2>2 DEF ContextDone, PingDue, TakeRecord, Written, WaitEnds, PeerGone, Upgraded
    <3> QED
      BY <3>1, <3>2, <3>3 DEF Counted, Passed
  <2>3. CASE Unsubscribe(c)
    BY <2>3 DEF Unsubscribe, Counted, Passed, Upgraded
  <2> QED
    BY <2>1, <2>2, <2>3
<1> QED
  BY <1>1, MoveWithin

LEMMA StreamsStep == StreamsInv /\ [StreamsNext]_streamVars => StreamsInv'
<1> SUFFICES ASSUME StreamsInv, [StreamsNext]_streamVars PROVE StreamsInv'
  OBVIOUS
<1>1. CASE UNCHANGED streamVars \/ StreamsTick \/ Publish
  <2>1. UNCHANGED <<handler, streamCount, subscribed>>
    BY <1>1 DEF streamVars, StreamsTick, Publish
  <2> QED
    BY <2>1 DEF StreamsInv, At
<1> QED
  BY <1>1, EnterStep, GiveBackStep, WithinSteps DEF StreamsNext, Work, Expire

LEMMA StreamsImply == StreamsInv => StreamsCounted
BY DEF StreamsInv, StreamsCounted, At

-----------------------------------------------------------------------------
(***************************************************************************)
(* Logging in.  What an answer of the provider says is as old as the       *)
(* callback that waits for it at most (Keys), the flow cookie is that of   *)
(* the round trip that started last (Cookies), and a round trip has what   *)
(* its refusal will need (Trip), until it is refused (Cause).              *)
(***************************************************************************)
Places == {"none", "away", "done", "failed"} \cup Called
Whys == {"", "missing", "mismatch", "late", "disabled", "unsigned", "kid",
         "provider", "restart"}

RoundTrip == [at : Places, start : Nat, life : Nat, since : Nat, kid : Nat,
              answer : SUBSET Nat, beaten : BOOLEAN, why : Whys]

SessionsType ==
  /\ clock \in Nat /\ life \in Nat
  /\ tab \in [Tabs -> RoundTrip]
  /\ signing \in 1 .. MaxKeys
  /\ withdrawn \in [1 .. MaxKeys -> Nat \cup {Never}]

Keys ==
  /\ \A k \in 1 .. MaxKeys : k < signing <=> withdrawn[k] # Never
  /\ \A k \in cache :
       /\ k \in 1 .. signing /\ fetched \in Nat /\ fetched <= clock
       /\ withdrawn[k] # Never => fetched - withdrawn[k] <= CallbackMax

Cookies ==
  /\ \A c \in session :
       /\ c.life \in Nat /\ c.life <= life /\ c.issued \in Nat /\ c.issued <= clock
       /\ c.expiry = c.issued + SessionTTL
  /\ \A c \in flow :
       /\ c.life \in Nat /\ c.life <= life /\ c.issued \in Nat /\ c.issued <= clock
       /\ latest = {c.state}
  /\ flow = {} =>
       \/ \A t \in Tabs : tab[t].at = "none"
       \/ \E t \in Tabs : tab[t].at = "done"

Cause(t) ==
  LET r == tab[t] IN
  /\ r.why # ""
  /\ r.why = "missing" => \E u \in Tabs : u # t /\ tab[u].at = "done"
  /\ r.why = "mismatch" => t \notin latest
  /\ r.why = "late" => r.since - r.start > FlowTTL
  /\ r.why = "disabled" => life > r.life
  /\ r.why = "unsigned" => ~fixedKey /\ life > r.life
  /\ r.why = "kid" =>
       r.kid \in 1 .. MaxKeys /\ (withdrawn[r.kid] # Never \/ r.beaten)

Trip(t) ==
  LET r == tab[t] IN
  /\ r.since <= clock
  /\ r.at \in Called => clock - r.since <= CallbackMax
  /\ r.at = "away" =>
       /\ r.start <= clock /\ r.life <= life /\ (~oidc => r.life < life)
       /\ \A c \in flow : r.start <= c.issued /\ r.life <= c.life
  /\ r.at \in {"verify", "fetch", "answered", "recheck"} => r.kid \in 1 .. signing
  /\ r.at = "answered" =>
       \E k \in 1 .. signing :
         /\ r.answer = {k} /\ r.kid <= k
         /\ withdrawn[k] # Never => withdrawn[k] >= r.since
  /\ r.at = "recheck" =>
       r.beaten \/ \E k \in 1 .. signing : cache = {k} /\ r.kid <= k
  /\ r.at = "failed" => Cause(t)

SessionsInv == SessionsType /\ Keys /\ Cookies /\ \A t \in Tabs : Trip(t)

LEMMA SessionsNumbers ==
  /\ SessionTTL \in Nat /\ FlowTTL \in Nat /\ JwksMaxAge \in Nat /\ CallbackMax \in Nat
  /\ MaxKeys \in Nat /\ MaxKeys > 0 /\ Never \notin Nat
BY SessionsAssumption DEF Never

LEMMA SessionsImply == SessionsInv => LoginsSound
<1> SUFFICES ASSUME SessionsInv PROVE LoginsSound
  OBVIOUS
<1>1. WithdrawnKeysExpire
  <2> SUFFICES ASSUME NEW k \in Usable, withdrawn[k] # Never
               PROVE  clock - withdrawn[k] < JwksMaxAge + CallbackMax
    BY DEF WithdrawnKeysExpire
  <2>1. k \in cache /\ clock - fetched < JwksMaxAge
    BY DEF Usable
  <2>2. /\ k \in 1 .. MaxKeys /\ fetched \in Nat /\ fetched - withdrawn[k] <= CallbackMax
        /\ withdrawn[k] \in Nat /\ clock \in Nat
    BY <2>1, SessionsNumbers DEF SessionsInv, SessionsType, Keys
  <2> QED
    BY <2>1, <2>2, SessionsNumbers
<1>2. RefusalHasCause
  <2> SUFFICES ASSUME NEW t \in Tabs, tab[t].at = "failed"
               PROVE  CASE tab[t].why = "missing" -> \E u \in Tabs \ {t} : tab[u].at = "done"
                        [] tab[t].why = "mismatch" -> t \notin latest
                        [] tab[t].why = "late" -> tab[t].since - tab[t].start > FlowTTL
                        [] tab[t].why = "disabled" -> life > tab[t].life
                        [] tab[t].why = "unsigned" -> ~fixedKey /\ life > tab[t].life
                        [] tab[t].why = "kid" ->
                             withdrawn[tab[t].kid] # Never \/ tab[t].beaten
                        [] OTHER -> tab[t].why \in {"provider", "restart"}
    BY DEF RefusalHasCause
  <2>1. Cause(t) /\ tab[t].why \in Whys
    BY DEF SessionsInv, SessionsType, Trip, RoundTrip
  <2> QED
    BY <2>1 DEF Cause, Whys
<1>3. SessionsLast
  <2> SUFFICES ASSUME NEW c \in session, ~Valid(c), ~(clock - c.issued > SessionTTL)
               PROVE  ~fixedKey /\ c.life < life
    BY DEF SessionsLast
  <2>1. /\ c.life \in Nat /\ c.life <= life /\ c.issued \in Nat /\ c.issued <= clock
        /\ c.expiry = c.issued + SessionTTL /\ clock \in Nat /\ life \in Nat
    BY DEF SessionsInv, SessionsType, Cookies
  <2>2. ~Signed(c)
    BY <2>1, SessionsNumbers DEF Valid
  <2> QED
    BY <2>1, <2>2 DEF Signed
<1> QED
  BY <1>1, <1>2, <1>3 DEF LoginsSound

LEMMA InitSessions == Init => SessionsInv
<1> SUFFICES ASSUME Init PROVE SessionsInv
  OBVIOUS
<1>1. /\ clock = 0 /\ life = 1 /\ session = {} /\ flow = {} /\ tab = [t \in Tabs |-> Fresh]
      /\ signing = 1 /\ withdrawn = [k \in 1 .. MaxKeys |-> Never] /\ cache = {}
  BY DEF Init, NewProvider
<1>2. Fresh \in RoundTrip /\ Fresh.at = "none" /\ Fresh.since = 0
  BY DEF Fresh, RoundTrip, Places, Whys
<1>3. SessionsType
  BY <1>1, <1>2, SessionsNumbers DEF SessionsType
<1>4. Keys
  BY <1>1, SessionsNumbers DEF Keys
<1>5. Cookies
  BY <1>1, <1>2 DEF Cookies
<1>6. ASSUME NEW t \in Tabs PROVE Trip(t)
  BY <1>1, <1>2 DEF Trip, Called
<1> QED
  BY <1>3, <1>4, <1>5, <1>6 DEF SessionsInv

\* What a step of one tab leaves to the others.
Bystands(u) ==
  /\ tab'[u] = tab[u]
  /\ UNCHANGED <<clock, fixedKey, life, oidc, signing, withdrawn, cache>>
  /\ latest' = latest \/ u \notin latest'
  /\ \A c \in flow' : c \in flow \/ (c.issued = clock /\ c.life = life)
  /\ \A v \in Tabs : tab[v].at = "done" => tab'[v].at = "done"

LEMMA BystanderKept ==
  ASSUME SessionsType, NEW u \in Tabs, Trip(u), Bystands(u)
  PROVE  Trip(u)'
<1>1. Cause(u) => Cause(u)'
  BY DEF Cause, Bystands
<1>2. tab[u].at = "away" => \A c \in flow' : tab[u].start <= c.issued /\ tab[u].life <= c.life
  BY DEF Trip, Bystands
<1> QED
  BY <1>1, <1>2 DEF Trip, Bystands

\* A step of the round trip of t: its record becomes r, and the callback's end
\* may hand out a session and clear the flow cookie.
LEMMA TripStep ==
  ASSUME SessionsInv, NEW t \in Tabs, NEW r \in RoundTrip,
         tab' = [tab EXCEPT ![t] = r], tab[t].at \notin {"none", "done"},
         UNCHANGED <<clock, fixedKey, latest, provider, server>>,
         \/ UNCHANGED <<session, flow>>
         \/ session' = {Issued} /\ flow' = {} /\ r.at = "done",
         Trip(t)'
  PROVE  SessionsInv'
<1>t. /\ SessionsType /\ Keys /\ Cookies /\ tab \in [Tabs -> RoundTrip]
      /\ UNCHANGED <<clock, fixedKey, latest, signing, withdrawn, life, oidc, cache, fetched>>
      /\ clock \in Nat /\ life \in Nat
  BY DEF SessionsInv, SessionsType, provider, server
<1>1. /\ tab' \in [Tabs -> RoundTrip] /\ tab'[t] = r
      /\ \A u \in Tabs : u # t => tab'[u] = tab[u]
  BY <1>t
<1>2. SessionsType'
  BY <1>t, <1>1 DEF SessionsType
<1>3. Keys'
  BY <1>t DEF Keys
<1>4. \A u \in Tabs : tab[u].at = "done" => tab'[u].at = "done"
  BY <1>1
<1>5. Cookies'
  <2>1. \A c \in session' :
          /\ c.life \in Nat /\ c.life <= life /\ c.issued \in Nat /\ c.issued <= clock
          /\ c.expiry = c.issued + SessionTTL
    <3>1. CASE session' = session
      BY <1>t, <3>1 DEF Cookies
    <3>2. CASE session' = {Issued}
      BY <1>t, <3>2 DEF Issued
    <3> QED
      BY <3>1, <3>2
  <2>2. flow' = flow \/ flow' = {}
    OBVIOUS
  <2>3. \A c \in flow' :
          /\ c.life \in Nat /\ c.life <= life /\ c.issued \in Nat /\ c.issued <= clock
          /\ latest = {c.state}
    BY <1>t, <2>2 DEF Cookies
  <2>4. flow' = {} => \E u \in Tabs : tab'[u].at = "done"
    BY <1>t, <1>1, <1>4 DEF Cookies
  <2> QED
    BY <1>t, <2>1, <2>3, <2>4 DEF Cookies
<1>6. ASSUME NEW u \in Tabs, u # t PROVE Trip(u)'
  <2>1. Bystands(u)
    BY <1>t, <1>1, <1>4, <1>6 DEF Bystands
  <2> QED
    BY <1>t, <2>1, BystanderKept DEF SessionsInv
<1> QED
  BY <1>2, <1>3, <1>5, <1>6 DEF SessionsInv

LEMMA NatIsNotNegative == \A n \in Nat : 0 <= n
OBVIOUS

LEMMA FreshIs ==
  /\ Fresh \in RoundTrip /\ Fresh.at = "none" /\ Fresh.since = 0 /\ Fresh.start = 0
  /\ Fresh.life = 0
BY DEF Fresh, RoundTrip, Places, Whys

\* What a tab keeps when its round trip is over.
LEMMA EndsIs ==
  ASSUME NEW place \in {"done", "failed"}, NEW why \in {"", "provider", "restart"},
         place = "failed" => why # ""
  PROVE  \E r \in RoundTrip :
           /\ r.at = place /\ r.why = why /\ r.since = 0
           /\ \A t \in Tabs : Ends(t, place, why) = [tab EXCEPT ![t] = r]
<1> DEFINE r == [[Fresh EXCEPT !.at = place] EXCEPT !.why = why]
<1>1. place \in Places /\ why \in Whys
  BY DEF Places, Whys
<1>2. r \in RoundTrip /\ r.at = place /\ r.why = why /\ r.since = 0
  BY <1>1, FreshIs DEF RoundTrip
<1>3. \A t \in Tabs : Ends(t, place, why) = [tab EXCEPT ![t] = r]
  BY DEF Ends
<1> QED
  BY <1>2, <1>3

LEMMA EndsStep ==
  ASSUME SessionsInv, NEW t \in Tabs, NEW place \in {"done", "failed"},
         NEW why \in {"", "provider"}, place = "failed" => why # "",
         tab' = Ends(t, place, why), tab[t].at \notin {"none", "done"},
         UNCHANGED <<clock, fixedKey, latest, provider, server>>,
         \/ UNCHANGED <<session, flow>>
         \/ session' = {Issued} /\ flow' = {} /\ place = "done"
  PROVE  SessionsInv'
<1>1. PICK r \in RoundTrip :
        /\ r.at = place /\ r.why = why /\ r.since = 0
        /\ \A u \in Tabs : Ends(u, place, why) = [tab EXCEPT ![u] = r]
  <2>1. why \in {"", "provider", "restart"}
    OBVIOUS
  <2> QED
    BY <2>1, EndsIs
<1>2. tab' = [tab EXCEPT ![t] = r] /\ tab'[t] = r
  BY <1>1 DEF SessionsInv, SessionsType
<1>3. clock' \in Nat
  BY DEF SessionsInv, SessionsType
<1>4. Trip(t)'
  <2>1. r.at = "failed" => Cause(t)'
    BY <1>1, <1>2 DEF Cause
  <2>2. r.at \in {"done", "failed"} /\ r.since <= clock'
    <3>1. r.at = place /\ r.since = 0
      BY <1>1
    <3>3. 0 <= clock'
      BY <1>3, NatIsNotNegative
    <3>4. r.at \in {"done", "failed"}
      BY <3>1
    <3> QED
      BY <3>1, <3>3, <3>4, Zenon
  <2> QED
    BY <1>2, <2>1, <2>2 DEF Trip, Called
<1> QED
  BY <1>1, <1>2, <1>4, TripStep

\* What a tab keeps when its round trip is refused.
LEMMA FailsIs ==
  ASSUME tab \in [Tabs -> RoundTrip], clock \in Nat, NEW t \in Tabs, NEW why \in Whys
  PROVE  \E r \in RoundTrip :
           /\ Fails(t, why) = [tab EXCEPT ![t] = r]
           /\ r.at = "failed" /\ r.why = why /\ r.since = clock
           /\ r.start = tab[t].start /\ r.life = tab[t].life
           /\ r.kid = tab[t].kid /\ r.beaten = tab[t].beaten
<1> DEFINE r == [[[tab[t] EXCEPT !.at = "failed"] EXCEPT !.since = clock] EXCEPT !.why = why]
<1>1. tab[t] \in RoundTrip
  OBVIOUS
<1>2. /\ r \in RoundTrip /\ r.at = "failed" /\ r.why = why /\ r.since = clock
      /\ r.start = tab[t].start /\ r.life = tab[t].life
      /\ r.kid = tab[t].kid /\ r.beaten = tab[t].beaten
  BY <1>1 DEF RoundTrip, Places
<1>3. Fails(t, why) = [tab EXCEPT ![t] = r]
  BY DEF Fails
<1> QED
  BY <1>2, <1>3

LEMMA MoveIs ==
  ASSUME tab \in [Tabs -> RoundTrip], NEW t \in Tabs, NEW place \in Places
  PROVE  \E r \in RoundTrip :
           /\ [tab EXCEPT ![t].at = place] = [tab EXCEPT ![t] = r]
           /\ r.at = place /\ r.since = tab[t].since /\ r.kid = tab[t].kid
<1> DEFINE r == [tab[t] EXCEPT !.at = place]
<1>1. tab[t] \in RoundTrip
  OBVIOUS
<1>2. r \in RoundTrip /\ r.at = place /\ r.since = tab[t].since /\ r.kid = tab[t].kid
  BY <1>1 DEF RoundTrip
<1>3. [tab EXCEPT ![t].at = place] = [tab EXCEPT ![t] = r]
  OBVIOUS
<1> QED
  BY <1>2, <1>3

LEMMA StartStep ==
  ASSUME SessionsInv, NEW t \in Tabs, Start(t)
  PROVE  SessionsInv'
<1>t. /\ SessionsType /\ Keys /\ Cookies /\ tab \in [Tabs -> RoundTrip]
      /\ clock \in Nat /\ life \in Nat /\ tab[t].at = "none" /\ oidc
      /\ UNCHANGED <<clock, fixedKey, session, signing, withdrawn, life, oidc, cache, fetched>>
  BY DEF SessionsInv, SessionsType, Start, provider, server
<1>1. PICK r \in RoundTrip :
        /\ tab' = [tab EXCEPT ![t] = r]
        /\ r.at = "away" /\ r.since = clock /\ r.start = clock /\ r.life = life
  <2> DEFINE r == [[[[Fresh EXCEPT !.at = "away"] EXCEPT !.since = clock]
                       EXCEPT !.start = clock] EXCEPT !.life = life]
  <2>1. "away" \in Places
    BY DEF Places
  <2>2. /\ r \in RoundTrip /\ r.at = "away" /\ r.since = clock /\ r.start = clock
        /\ r.life = life
    BY <1>t, <2>1, FreshIs DEF RoundTrip
  <2>3. tab' = [tab EXCEPT ![t] = r]
    BY DEF Start
  <2> QED
    BY <2>2, <2>3
<1>2. /\ tab' \in [Tabs -> RoundTrip] /\ tab'[t] = r
      /\ \A u \in Tabs : u # t => tab'[u] = tab[u]
  BY <1>t, <1>1
<1>3. SessionsType' /\ Keys'
  BY <1>t, <1>2 DEF SessionsType, Keys
<1>4. latest' = {t} /\ flow' = {[state |-> t, life |-> life, issued |-> clock]}
  BY DEF Start
<1>5. Cookies'
  <2>1. /\ \A c \in flow' : c.state = t /\ c.life = life /\ c.issued = clock
        /\ flow' # {}
    BY <1>4
  <2>2. \A c \in flow' :
          /\ c.life \in Nat /\ c.life <= life /\ c.issued \in Nat /\ c.issued <= clock
          /\ latest' = {c.state}
    BY <1>t, <1>4, <2>1
  <2> QED
    BY <1>t, <2>1, <2>2 DEF Cookies
<1>6. Trip(t)'
  <2>1. \A c \in flow' : c.life = life /\ c.issued = clock
    BY <1>4
  <2> QED
    BY <1>t, <1>1, <1>2, <2>1 DEF Trip, Called
<1>7. ASSUME NEW u \in Tabs, u # t PROVE Trip(u)'
  <2>1. Bystands(u)
    BY <1>t, <1>2, <1>4, <1>7 DEF Bystands
  <2> QED
    BY <1>t, <2>1, BystanderKept DEF SessionsInv
<1> QED
  BY <1>3, <1>5, <1>6, <1>7 DEF SessionsInv

LEMMA CallbackStep ==
  ASSUME SessionsInv, NEW t \in Tabs, Callback(t)
  PROVE  SessionsInv'
<1>t. /\ SessionsType /\ Cookies /\ Trip(t) /\ tab \in [Tabs -> RoundTrip]
      /\ tab[t] \in RoundTrip /\ clock \in Nat /\ life \in Nat /\ tab[t].at = "away"
      /\ tab[t].start \in Nat /\ tab[t].life \in Nat /\ FlowTTL \in Nat /\ CallbackMax \in Nat
      /\ UNCHANGED <<clock, fixedKey, latest, provider, server, session, flow>>
  BY SessionsNumbers DEF SessionsInv, SessionsType, Callback, RoundTrip
<1>1. CASE Refusal(t) = ""
  <2> DEFINE r == [[Fresh EXCEPT !.at = "exchange"] EXCEPT !.since = clock]
  <2>1. "exchange" \in Places
    BY DEF Places, Called
  <2>2. r \in RoundTrip /\ r.at = "exchange" /\ r.since = clock
    BY <1>t, <2>1, FreshIs DEF RoundTrip
  <2>3. tab' = [tab EXCEPT ![t] = r]
    BY <1>1 DEF Callback, Begins
  <2>4. PICK q \in RoundTrip : q = r
    BY <2>2
  <2>5. tab' = [tab EXCEPT ![t] = q] /\ tab'[t] = q /\ q.at = "exchange" /\ q.since = clock
    BY <1>t, <2>2, <2>3, <2>4
  <2>6. Trip(t)'
    BY <1>t, <2>5 DEF Trip, Called
  <2> QED
    BY <1>t, <2>5, <2>6, TripStep
<1>2. CASE Refusal(t) # ""
  <2>1. Refusal(t) \in Whys
    BY DEF Refusal, Whys
  <2>2. PICK r \in RoundTrip :
          /\ Fails(t, Refusal(t)) = [tab EXCEPT ![t] = r]
          /\ r.at = "failed" /\ r.why = Refusal(t) /\ r.since = clock
          /\ r.start = tab[t].start /\ r.life = tab[t].life
    BY <1>t, <2>1, FailsIs
  <2>3. tab' = [tab EXCEPT ![t] = r] /\ tab'[t] = r
    BY <1>t, <1>2, <2>2 DEF Callback
  <2>4. UNCHANGED <<clock, fixedKey, latest, life, oidc, flow>>
    BY <1>t DEF server
  <2>5. /\ tab[t].start <= clock /\ tab[t].life <= life /\ (~oidc => tab[t].life < life)
        /\ \A c \in flow : tab[t].start <= c.issued /\ tab[t].life <= c.life
    BY <1>t DEF Trip
  <2>6. r.why = "missing" => \E u \in Tabs : u # t /\ tab'[u].at = "done"
    <3>1. ASSUME r.why = "missing" PROVE flow = {}
      BY <2>2, <3>1 DEF Refusal
    <3>2. ASSUME flow = {} PROVE \E u \in Tabs : u # t /\ tab[u].at = "done"
      BY <1>t, <3>2 DEF Cookies
    <3> QED
      BY <1>t, <2>3, <3>1, <3>2
  <2>7. r.why = "disabled" => life > r.life
    <3>1. ASSUME r.why = "disabled" PROVE ~oidc
      BY <2>2, <3>1 DEF Refusal
    <3> QED
      BY <1>t, <2>2, <2>5, <3>1
  <2>8. r.why = "unsigned" => ~fixedKey /\ life > r.life
    <3>1. ASSUME r.why = "unsigned" PROVE \E c \in flow : ~Signed(c)
      BY <2>2, <3>1 DEF Refusal
    <3>2. ASSUME NEW c \in flow, ~Signed(c) PROVE ~fixedKey /\ life > tab[t].life
      BY <1>t, <2>5, <3>2 DEF Signed, Cookies
    <3> QED
      BY <2>2, <3>1, <3>2
  <2>9. r.why = "late" => r.since - r.start > FlowTTL
    <3>1. ASSUME r.why = "late" PROVE \E c \in flow : clock - c.issued > FlowTTL
      BY <2>2, <3>1 DEF Refusal
    <3>2. ASSUME NEW c \in flow, clock - c.issued > FlowTTL
          PROVE  clock - tab[t].start > FlowTTL
      BY <1>t, <2>5, <3>2 DEF Cookies
    <3> QED
      BY <2>2, <3>1, <3>2
  <2>10. r.why = "mismatch" => t \notin latest
    <3>1. ASSUME r.why = "mismatch" PROVE \E c \in flow : c.state # t
      BY <2>2, <3>1 DEF Refusal
    <3> QED
      BY <1>t, <3>1 DEF Cookies
  <2>11. r.why \notin {"", "kid"}
    BY <1>2, <2>2 DEF Refusal
  <2>12. Cause(t)'
    BY <2>3, <2>4, <2>6, <2>7, <2>8, <2>9, <2>10, <2>11 DEF Cause
  <2>13. r.since <= clock'
    BY <1>t, <2>2, <2>4
  <2>14. Trip(t)'
    BY <2>2, <2>3, <2>12, <2>13 DEF Trip, Called
  <2> QED
    BY <1>t, <2>3, <2>14, TripStep
<1> QED
  BY <1>1, <1>2

LEMMA ExchangeStep ==
  ASSUME SessionsInv, NEW t \in Tabs, Exchange(t)
  PROVE  SessionsInv'
<1>t. /\ Trip(t) /\ tab \in [Tabs -> RoundTrip] /\ tab[t] \in RoundTrip
      /\ clock \in Nat /\ signing \in 1 .. MaxKeys /\ tab[t].at = "exchange"
      /\ UNCHANGED <<clock, fixedKey, latest, provider, server, session, flow>>
  BY DEF SessionsInv, SessionsType, Exchange
<1>1. CASE tab' = [tab EXCEPT ![t].at = "verify", ![t].kid = signing]
  <2> DEFINE r == [[tab[t] EXCEPT !.at = "verify"] EXCEPT !.kid = signing]
  <2>1. r \in RoundTrip /\ r.at = "verify" /\ r.kid = signing /\ r.since = tab[t].since
    <3>1. "verify" \in Places /\ signing \in Nat
      BY <1>t, SessionsNumbers DEF Places, Called
    <3> QED
      BY <1>t, <3>1 DEF RoundTrip
  <2>2. tab' = [tab EXCEPT ![t] = r]
    BY <1>1
  <2>3. PICK q \in RoundTrip : q = r
    BY <2>1
  <2>4. tab' = [tab EXCEPT ![t] = q] /\ tab'[t] = q /\ q.at = "verify" /\ q.kid = signing
        /\ q.since = tab[t].since
    BY <1>t, <2>1, <2>2, <2>3
  <2>5. UNCHANGED <<clock, signing>>
    BY <1>t DEF provider
  <2>6. Trip(t)'
    BY <1>t, <2>4, <2>5, SessionsNumbers DEF Trip, Called
  <2> QED
    BY <1>t, <2>4, <2>6, TripStep
<1>2. CASE tab' = Ends(t, "failed", "provider")
  BY <1>t, <1>2, EndsStep
<1> QED
  BY <1>1, <1>2 DEF Exchange

\* VerifyIDToken once it has its key.
LEMMA FinishStep ==
  ASSUME SessionsInv, NEW t \in Tabs, Finish(t), tab[t].at \in {"verify", "recheck"},
         UNCHANGED <<clock, fixedKey, latest, provider, server>>
  PROVE  SessionsInv'
<1>1. CASE Mint(t)
  BY <1>1, EndsStep DEF Mint
<1>2. CASE tab' = Ends(t, "failed", "provider") /\ UNCHANGED <<session, flow>>
  BY <1>2, EndsStep
<1> QED
  BY <1>1, <1>2 DEF Finish

LEMMA PublicKeyStep ==
  ASSUME SessionsInv, NEW t \in Tabs, PublicKey(t)
  PROVE  SessionsInv'
<1>t. /\ Trip(t) /\ tab \in [Tabs -> RoundTrip] /\ tab[t].at = "verify" /\ clock \in Nat
      /\ UNCHANGED <<clock, fixedKey, latest, provider, server>>
  BY DEF SessionsInv, SessionsType, PublicKey
<1>1. CASE Finish(t)
  BY <1>t, <1>1, FinishStep
<1>2. CASE Move(t, "fetch") /\ UNCHANGED <<session, flow>>
  <2>1. PICK r \in RoundTrip :
          /\ [tab EXCEPT ![t].at = "fetch"] = [tab EXCEPT ![t] = r]
          /\ r.at = "fetch" /\ r.since = tab[t].since /\ r.kid = tab[t].kid
    BY <1>t, MoveIs DEF Places, Called
  <2>2. tab' = [tab EXCEPT ![t] = r] /\ tab'[t] = r
    BY <1>t, <1>2, <2>1 DEF Move
  <2>3. UNCHANGED <<clock, signing>>
    BY <1>t DEF provider
  <2>4. Trip(t)'
    BY <1>t, <2>1, <2>2, <2>3 DEF Trip, Called
  <2> QED
    BY <1>t, <1>2, <2>2, <2>4, TripStep
<1> QED
  BY <1>1, <1>2 DEF PublicKey

LEMMA AnswerStep ==
  ASSUME SessionsInv, NEW t \in Tabs, Answer(t)
  PROVE  SessionsInv'
<1>t. /\ Trip(t) /\ Keys /\ tab \in [Tabs -> RoundTrip] /\ tab[t] \in RoundTrip
      /\ tab[t].at = "fetch" /\ clock \in Nat /\ signing \in 1 .. MaxKeys
      /\ UNCHANGED <<clock, fixedKey, latest, provider, server, session, flow>>
  BY DEF SessionsInv, SessionsType, Answer
<1> DEFINE r == [[tab[t] EXCEPT !.at = "answered"] EXCEPT !.answer = {signing}]
<1>1. /\ r \in RoundTrip /\ r.at = "answered" /\ r.answer = {signing}
      /\ r.kid = tab[t].kid /\ r.since = tab[t].since
  <2>1. "answered" \in Places /\ {signing} \in SUBSET Nat
    BY <1>t, SessionsNumbers DEF Places, Called
  <2> QED
    BY <1>t, <2>1 DEF RoundTrip
<1>2. tab' = [tab EXCEPT ![t] = r]
  BY DEF Answer
<1>3. PICK q \in RoundTrip : q = r
  BY <1>1
<1>4. /\ tab' = [tab EXCEPT ![t] = q] /\ tab'[t] = q /\ q.at = "answered"
      /\ q.answer = {signing} /\ q.kid = tab[t].kid /\ q.since = tab[t].since
  BY <1>t, <1>1, <1>2, <1>3
<1>5. UNCHANGED <<clock, signing, withdrawn>>
  BY <1>t DEF provider
<1>6. /\ signing \in 1 .. signing /\ withdrawn[signing] = Never /\ q.kid <= signing
      /\ q.kid \in 1 .. signing
  BY <1>t, <1>4, SessionsNumbers DEF Keys, Trip
<1>7. Trip(t)'
  BY <1>t, <1>4, <1>5, <1>6 DEF Trip, Called
<1> QED
  BY <1>t, <1>4, <1>7, TripStep

LEMMA FetchFailsStep ==
  ASSUME SessionsInv, NEW t \in Tabs, FetchFails(t)
  PROVE  SessionsInv'
BY EndsStep DEF FetchFails

LEMMA RecheckStep ==
  ASSUME SessionsInv, NEW t \in Tabs, Recheck(t)
  PROVE  SessionsInv'
<1>t. /\ Trip(t) /\ Keys /\ tab \in [Tabs -> RoundTrip] /\ tab[t].at = "recheck"
      /\ clock \in Nat /\ signing \in 1 .. MaxKeys
      /\ UNCHANGED <<clock, fixedKey, latest, provider, server>>
  BY DEF SessionsInv, SessionsType, Recheck
<1>1. CASE tab[t].kid \in cache
  BY <1>t, <1>1, FinishStep DEF Recheck
<1>2. CASE tab[t].kid \notin cache
  <2>1. PICK r \in RoundTrip :
          /\ Fails(t, "kid") = [tab EXCEPT ![t] = r]
          /\ r.at = "failed" /\ r.why = "kid" /\ r.since = clock
          /\ r.kid = tab[t].kid /\ r.beaten = tab[t].beaten
    <3>1. "kid" \in Whys
      BY DEF Whys
    <3> QED
      BY <1>t, <3>1, FailsIs
  <2>2. tab' = [tab EXCEPT ![t] = r] /\ tab'[t] = r /\ UNCHANGED <<session, flow>>
    BY <1>t, <1>2, <2>1 DEF Recheck
  <2>3. UNCHANGED <<clock, signing, withdrawn>>
    BY <1>t DEF provider
  <2>4. tab[t].kid \in 1 .. MaxKeys /\ (withdrawn[tab[t].kid] # Never \/ tab[t].beaten)
    <3>1. tab[t].kid \in 1 .. signing
      BY <1>t DEF Trip
    <3>2. tab[t].kid \in 1 .. MaxKeys
      BY <1>t, <3>1, SessionsNumbers
    <3>3. CASE ~tab[t].beaten
      <4>1. PICK k \in 1 .. signing : cache = {k} /\ tab[t].kid <= k
        BY <1>t, <3>3 DEF Trip
      <4>2. tab[t].kid < signing
        BY <1>t, <1>2, <3>1, <4>1
      <4> QED
        BY <1>t, <3>2, <4>2 DEF Keys
    <3> QED
      BY <3>2, <3>3
  <2>5. Cause(t)'
    BY <2>1, <2>2, <2>3, <2>4 DEF Cause
  <2>6. r.since <= clock'
    BY <1>t, <2>1, <2>3
  <2>7. Trip(t)'
    BY <2>1, <2>2, <2>5, <2>6 DEF Trip, Called
  <2> QED
    BY <1>t, <2>2, <2>7, TripStep
<1> QED
  BY <1>1, <1>2

\* A round trip of which it is noted whether its answer was overwritten.
LEMMA BeatenIs ==
  ASSUME NEW r \in RoundTrip, NEW y \in BOOLEAN
  PROVE  \E q \in RoundTrip :
           /\ q = [r EXCEPT !.beaten = y] /\ q.beaten = y
           /\ q.at = r.at /\ q.start = r.start /\ q.life = r.life /\ q.since = r.since
           /\ q.kid = r.kid /\ q.answer = r.answer /\ q.why = r.why
<1> DEFINE q == [r EXCEPT !.beaten = y]
<1>1. /\ q \in RoundTrip /\ q.beaten = y
      /\ q.at = r.at /\ q.start = r.start /\ q.life = r.life /\ q.since = r.since
      /\ q.kid = r.kid /\ q.answer = r.answer /\ q.why = r.why
  BY DEF RoundTrip
<1> QED
  BY <1>1

LEMMA StoreStep ==
  ASSUME SessionsInv, NEW t \in Tabs, Store(t)
  PROVE  SessionsInv'
<1>t. /\ SessionsType /\ Keys /\ Cookies /\ tab \in [Tabs -> RoundTrip]
      /\ tab[t] \in RoundTrip /\ Trip(t) /\ tab[t].at = "answered"
      /\ clock \in Nat /\ life \in Nat /\ signing \in 1 .. MaxKeys
      /\ withdrawn \in [1 .. MaxKeys -> Nat \cup {Never}] /\ tab[t].since \in Nat
      /\ CallbackMax \in Nat /\ MaxKeys \in Nat
      /\ UNCHANGED <<clock, fixedKey, life, oidc, session, flow, latest, signing, withdrawn>>
      /\ cache' = tab[t].answer /\ fetched' = clock
  BY SessionsNumbers DEF SessionsInv, SessionsType, Store, RoundTrip, provider
<1>1. PICK r \in RoundTrip :
        /\ r = [[tab[t] EXCEPT !.at = "recheck"] EXCEPT !.answer = {}]
        /\ r.at = "recheck" /\ r.since = tab[t].since /\ r.kid = tab[t].kid
  <2>1. "recheck" \in Places /\ {} \in SUBSET Nat
    BY DEF Places, Called
  <2>2. \A q \in RoundTrip : [[q EXCEPT !.at = "recheck"] EXCEPT !.answer = {}] \in RoundTrip
    BY <2>1 DEF RoundTrip
  <2>3. \A q \in RoundTrip :
          LET p == [[q EXCEPT !.at = "recheck"] EXCEPT !.answer = {}] IN
          p.at = "recheck" /\ p.since = q.since /\ p.kid = q.kid
    BY DEF RoundTrip
  <2> QED
    BY <1>t, <2>2, <2>3
<1>2. /\ tab' = [u \in Tabs |->
                   IF u = t THEN r
                   ELSE [tab[u] EXCEPT !.beaten =
                           tab[u].beaten \/ tab[u].at = "recheck"]]
      /\ tab'[t] = r
  BY <1>1 DEF Store
<1>3. ASSUME NEW u \in Tabs, u # t
      PROVE  /\ tab'[u] \in RoundTrip
             /\ tab[u].beaten \/ tab[u].at = "recheck" => tab'[u].beaten
             /\ tab'[u].at = tab[u].at /\ tab'[u].start = tab[u].start
             /\ tab'[u].life = tab[u].life /\ tab'[u].since = tab[u].since
             /\ tab'[u].kid = tab[u].kid /\ tab'[u].answer = tab[u].answer
             /\ tab'[u].why = tab[u].why
  <2>1. tab'[u] = [tab[u] EXCEPT !.beaten = tab[u].beaten \/ tab[u].at = "recheck"]
    BY <1>2, <1>3
  <2>2. tab[u] \in RoundTrip
    BY <1>t
  <2>3. PICK y \in BOOLEAN : y <=> (tab[u].beaten \/ tab[u].at = "recheck")
    <3>1. TRUE \in BOOLEAN /\ FALSE \in BOOLEAN
      OBVIOUS
    <3>2. CASE tab[u].beaten \/ tab[u].at = "recheck"
      BY <3>1, <3>2, Zenon
    <3>3. CASE ~(tab[u].beaten \/ tab[u].at = "recheck")
      BY <3>1, <3>3, Zenon
    <3> QED
      BY <3>2, <3>3
  <2>4. y = (tab[u].beaten \/ tab[u].at = "recheck")
    BY <2>3
  <2>5. tab'[u] = [tab[u] EXCEPT !.beaten = y]
    BY <2>1, <2>4
  <2>6. PICK q \in RoundTrip :
          /\ q = [tab[u] EXCEPT !.beaten = y] /\ q.beaten = y
          /\ q.at = tab[u].at /\ q.start = tab[u].start
          /\ q.life = tab[u].life /\ q.since = tab[u].since
          /\ q.kid = tab[u].kid /\ q.answer = tab[u].answer /\ q.why = tab[u].why
    BY <2>2, BeatenIs
  <2>7. tab'[u] = q
    BY <2>5, <2>6
  <2> QED
    BY <2>3, <2>6, <2>7
<1>4. tab' \in [Tabs -> RoundTrip]
  <2>1. \A u \in Tabs : tab'[u] \in RoundTrip
    BY <1>2, <1>3
  <2>2. tab' = [u \in Tabs |-> tab'[u]]
    BY <1>2
  <2> QED
    BY <2>1, <2>2
<1>5. SessionsType'
  BY <1>t, <1>4 DEF SessionsType
<1>6. PICK k \in 1 .. signing :
        /\ cache' = {k} /\ tab[t].kid <= k /\ tab[t].kid \in 1 .. signing
        /\ withdrawn[k] # Never => withdrawn[k] >= tab[t].since
  BY <1>t DEF Trip
<1>7. tab[t].since <= clock /\ clock - tab[t].since <= CallbackMax
  BY <1>t DEF Trip, Called
<1>8. Keys'
  <2>1. k \in 1 .. MaxKeys /\ (withdrawn[k] # Never => withdrawn[k] \in Nat)
    BY <1>t
  <2>2. withdrawn[k] # Never => clock - withdrawn[k] <= CallbackMax
    BY <1>t, <1>6, <1>7, <2>1
  <2> QED
    BY <1>t, <1>6, <2>2 DEF Keys
<1>9. Cookies'
  <2>1. \A u \in Tabs : tab[u].at = "done" => tab'[u].at = "done"
    BY <1>t, <1>3
  <2> QED
    BY <1>t, <2>1 DEF Cookies
<1>10. Trip(t)'
  BY <1>t, <1>1, <1>2, <1>6, <1>7 DEF Trip, Called
<1>11. ASSUME NEW u \in Tabs, u # t PROVE Trip(u)'
  <2>1. Trip(u)
    BY DEF SessionsInv
  <2>2. Cause(u) => Cause(u)'
    <3>1. \A v \in Tabs : tab[v].at = "done" => tab'[v].at = "done"
      BY <1>t, <1>3
    <3> QED
      BY <1>t, <1>3, <1>11, <3>1 DEF Cause
  <2> QED
    BY <1>t, <1>3, <1>11, <2>1, <2>2 DEF Trip
<1> QED
  BY <1>5, <1>8, <1>9, <1>10, <1>11 DEF SessionsInv

LEMMA CookieStep ==
  ASSUME SessionsInv, Login \/ Logout
  PROVE  SessionsInv'
<1>t. /\ SessionsType /\ Keys /\ Cookies /\ clock \in Nat /\ life \in Nat
      /\ UNCHANGED <<clock, fixedKey, flow, tab, latest, signing, withdrawn, life, oidc,
                     cache, fetched>>
  BY DEF SessionsInv, SessionsType, Login, Logout, provider, server
<1>1. SessionsType' /\ Keys'
  BY <1>t DEF SessionsType, Keys
<1>2. Cookies'
  <2>1. session' = {Issued} \/ session' = {}
    BY DEF Login, Logout
  <2>2. \A c \in session' :
          /\ c.life \in Nat /\ c.life <= life /\ c.issued \in Nat /\ c.issued <= clock
          /\ c.expiry = c.issued + SessionTTL
    BY <1>t, <2>1 DEF Issued
  <2> QED
    BY <1>t, <2>2 DEF Cookies
<1>3. ASSUME NEW u \in Tabs PROVE Trip(u)'
  BY <1>t, BystanderKept DEF SessionsInv, Bystands
<1> QED
  BY <1>1, <1>2, <1>3 DEF SessionsInv

LEMMA RestartStep ==
  ASSUME SessionsInv, Restart
  PROVE  SessionsInv'
<1>t. /\ SessionsType /\ Keys /\ Cookies /\ tab \in [Tabs -> RoundTrip]
      /\ clock \in Nat /\ life \in Nat /\ life' = life + 1 /\ cache' = {}
      /\ UNCHANGED <<clock, fixedKey, session, flow, latest, signing, withdrawn>>
  BY DEF SessionsInv, SessionsType, Restart, NewProvider, provider
<1>1. PICK r \in RoundTrip :
        /\ r.at = "failed" /\ r.why = "restart" /\ r.since = 0
        /\ \A t \in Tabs : Ends(t, "failed", "restart") = [tab EXCEPT ![t] = r]
  BY EndsIs
<1>2. /\ tab' = [t \in Tabs |-> IF tab[t].at \in Called THEN r ELSE tab[t]]
      /\ tab' \in [Tabs -> RoundTrip]
  BY <1>t, <1>1 DEF Restart
<1>3. SessionsType' /\ Keys'
  BY <1>t, <1>2 DEF SessionsType, Keys
<1>4. \A u \in Tabs : tab[u].at = "done" => tab'[u].at = "done"
  BY <1>2 DEF Called
<1>5. Cookies'
  <2>1. (\A u \in Tabs : tab[u].at = "none") => \A u \in Tabs : tab'[u].at = "none"
    BY <1>2 DEF Called
  <2>2. \A n \in Nat : n <= life => n <= life + 1
    BY <1>t
  <2> QED
    BY <1>t, <1>4, <2>1, <2>2 DEF Cookies
<1>6. ASSUME NEW u \in Tabs PROVE Trip(u)'
  <2>1. CASE tab[u].at \in Called
    <3>1. tab'[u] = r
      BY <1>2, <2>1
    <3>2. r.at = "failed" /\ r.why = "restart" /\ r.since <= clock'
      BY <1>t, <1>1
    <3>3. Cause(u)'
      BY <3>1, <3>2 DEF Cause
    <3> QED
      BY <3>1, <3>2, <3>3 DEF Trip, Called
  <2>2. CASE tab[u].at \notin Called
    <3>1. tab'[u] = tab[u] /\ tab[u] \in RoundTrip /\ tab[u].life \in Nat
      BY <1>t, <1>2, <2>2 DEF RoundTrip
    <3>2. life > tab[u].life => life' > tab'[u].life
      <4>1. \A m, n \in Nat : m > n => m + 1 > n
        OBVIOUS
      <4> QED
        BY <1>t, <3>1, <4>1
    <3>3. /\ fixedKey' = fixedKey /\ latest' = latest /\ withdrawn' = withdrawn
          /\ tab'[u] = tab[u]
      BY <1>t, <3>1
    <3>4. (\E v \in Tabs : v # u /\ tab[v].at = "done") =>
            \E v \in Tabs : v # u /\ tab'[v].at = "done"
      BY <1>4
    <3>5. Cause(u) => Cause(u)'
      BY <3>2, <3>3, <3>4, Zenon DEF Cause
    <3> QED
      BY <1>t, <2>2, <3>1, <3>5 DEF SessionsInv, Trip, Called
  <2> QED
    BY <2>1, <2>2
<1> QED
  BY <1>3, <1>5, <1>6 DEF SessionsInv

LEMMA RotateStep ==
  ASSUME SessionsInv, Rotate
  PROVE  SessionsInv'
<1>t. /\ SessionsType /\ Keys /\ Cookies /\ tab \in [Tabs -> RoundTrip]
      /\ clock \in Nat /\ signing \in 1 .. MaxKeys /\ MaxKeys \in Nat /\ CallbackMax \in Nat
      /\ withdrawn \in [1 .. MaxKeys -> Nat \cup {Never}] /\ Never \notin Nat
      /\ UNCHANGED <<clock, fixedKey, session, flow, tab, latest, life, oidc, cache, fetched>>
      /\ signing < MaxKeys /\ signing' = signing + 1
      /\ withdrawn' = [withdrawn EXCEPT ![signing] = clock]
  BY SessionsNumbers DEF SessionsInv, SessionsType, Rotate, server
<1>1. /\ withdrawn' \in [1 .. MaxKeys -> Nat \cup {Never}] /\ signing' \in 1 .. MaxKeys
      /\ withdrawn'[signing] = clock
      /\ \A k \in 1 .. MaxKeys : k # signing => withdrawn'[k] = withdrawn[k]
  BY <1>t
<1>2. SessionsType'
  BY <1>t, <1>1 DEF SessionsType
<1>3. Keys'
  <2>1. \A k \in 1 .. MaxKeys : k < signing' <=> withdrawn'[k] # Never
    BY <1>t, <1>1 DEF Keys
  <2>2. ASSUME NEW k \in cache
        PROVE  /\ k \in 1 .. signing' /\ fetched \in Nat /\ fetched <= clock
               /\ withdrawn'[k] # Never => fetched - withdrawn'[k] <= CallbackMax
    <3>1. /\ k \in 1 .. signing /\ fetched \in Nat /\ fetched <= clock
          /\ withdrawn[k] # Never => fetched - withdrawn[k] <= CallbackMax
      BY <1>t DEF Keys
    <3> QED
      BY <1>t, <1>1, <3>1
  <2> QED
    BY <1>t, <2>1, <2>2 DEF Keys
<1>4. Cookies'
  BY <1>t DEF Cookies
<1>5. ASSUME NEW u \in Tabs PROVE Trip(u)'
  <2>1. Trip(u) /\ tab[u].since \in Nat
    BY <1>t DEF SessionsInv, RoundTrip
  <2>2. \A k \in 1 .. MaxKeys : withdrawn[k] # Never => withdrawn'[k] # Never
    BY <1>t, <1>1
  <2>3. Cause(u) => Cause(u)'
    BY <1>t, <2>2 DEF Cause
  <2>4. ASSUME NEW k \in 1 .. signing, withdrawn[k] # Never => withdrawn[k] >= tab[u].since
        PROVE  k \in 1 .. signing' /\ (withdrawn'[k] # Never => withdrawn'[k] >= tab[u].since)
    BY <1>t, <1>1, <2>1, <2>4 DEF Trip
  <2>5. \A k \in 1 .. signing : k \in 1 .. signing'
    BY <1>t
  <2> QED
    BY <1>t, <2>1, <2>3, <2>4, <2>5 DEF Trip
<1> QED
  BY <1>2, <1>3, <1>4, <1>5 DEF SessionsInv

LEMMA TickStep ==
  ASSUME SessionsInv, Tick
  PROVE  SessionsInv'
<1>t. /\ SessionsType /\ Keys /\ Cookies /\ tab \in [Tabs -> RoundTrip]
      /\ clock \in Nat /\ CallbackMax \in Nat /\ clock' = clock + 1
      /\ \A t \in Tabs : tab[t].at \in Called => clock - tab[t].since < CallbackMax
      /\ UNCHANGED <<fixedKey, session, flow, tab, latest, signing, withdrawn, life, oidc,
                     cache, fetched>>
  BY SessionsNumbers DEF SessionsInv, SessionsType, Tick, provider, server
<1>1. \A n \in Nat : n <= clock => n <= clock'
  BY <1>t
<1>2. SessionsType' /\ Keys' /\ Cookies'
  BY <1>t, <1>1 DEF SessionsType, Keys, Cookies
<1>3. ASSUME NEW u \in Tabs PROVE Trip(u)'
  <2>1. Trip(u) /\ tab[u].since \in Nat /\ tab[u].start \in Nat
    BY <1>t DEF SessionsInv, RoundTrip
  <2>2. Cause(u) => Cause(u)'
    BY <1>t DEF Cause
  <2>3. tab[u].at \in Called => clock' - tab[u].since <= CallbackMax
    BY <1>t, <2>1
  <2> QED
    BY <1>t, <1>1, <2>1, <2>2, <2>3 DEF Trip
<1> QED
  BY <1>2, <1>3 DEF SessionsInv

LEMMA SessionsStep == SessionsInv /\ [Next]_authVars => SessionsInv'
<1> SUFFICES ASSUME SessionsInv, [Next]_authVars PROVE SessionsInv'
  OBVIOUS
<1>1. CASE UNCHANGED authVars
  <2>1. UNCHANGED <<clock, fixedKey, life, oidc, session, flow, tab, latest, signing,
                    withdrawn, cache, fetched>>
    BY <1>1 DEF authVars
  <2>2. \A u \in Tabs : Trip(u)'
    BY <2>1, BystanderKept DEF SessionsInv, Bystands
  <2> QED
    BY <2>1, <2>2 DEF SessionsInv, SessionsType, Keys, Cookies
<1> QED
  BY <1>1, CookieStep, RestartStep, RotateStep, TickStep, StartStep, CallbackStep,
     ExchangeStep, PublicKeyStep, AnswerStep, FetchFailsStep, StoreStep, RecheckStep
  DEF Next

-----------------------------------------------------------------------------
(***************************************************************************)
(* The page.  What a channel brings is new to its socket, and every record *)
(* is received, dropped from a full channel, kept back by a filter,        *)
(* missed, or still in the channel.                                        *)
(***************************************************************************)
Entry == [rec : Nat, socket : Nat, again : BOOLEAN]
States == {"none", "connecting", "open", "closing"}

LiveType ==
  /\ replay \in BOOLEAN /\ mounted \in BOOLEAN /\ frame \in BOOLEAN
  /\ connected \in BOOLEAN /\ stale \in BOOLEAN
  /\ effect \in Effects /\ sock \in [Effects -> States] /\ due \subseteq Effects
  /\ buf \in Seq(Entry)
  /\ published \in Nat /\ chan \in [Effects -> SUBSET Seq(Nat)]
  /\ opened \in Nat \ {0} /\ received \subseteq 1 .. published
  /\ overflow \subseteq Nat /\ others \subseteq Nat /\ missed \in 0 .. published
  /\ size \in Nat

\* The socket of the effect that runs is there, and the channel behind it may
\* yet bring something.
Reads == sock[effect] \in {"connecting", "open"}
Waiting(q) == {q[i] : i \in 1 .. Len(q)}
Rising(q) == \A i, j \in 1 .. Len(q) : i < j => q[i] < q[j]

\* What the channel brings is new to its socket, and new without replay.
NewTo(q) ==
  /\ Rising(q) /\ Waiting(q) \subseteq 1 .. published
  /\ \A w \in Waiting(q) :
       /\ \A j \in 1 .. Len(buf) : buf[j].socket = opened => buf[j].rec < w
       /\ ~replay => \A r \in received : r < w

Told(k) == k \in received \cup overflow \cup others \/ k <= missed

\* Every record that was published is accounted for.
Gaps ==
  /\ \A r \in received : \A k \in 1 .. r : Told(k)
  /\ Reads => \A q \in chan[effect] : \A k \in 1 .. published : Told(k) \/ k \in Waiting(q)

\* An effect that has not run has nothing, and no socket no channel.
OneAhead ==
  /\ \A e \in Effects : e > effect => sock[e] = "none" /\ e \notin due
  /\ \A e \in Effects : sock[e] = "none" => chan[e] = {}

\* The buffer holds what was received, by sockets made so far.
BufKnown ==
  \A i \in 1 .. Len(buf) : buf[i].socket <= opened /\ buf[i].rec \in received

\* A socket without a subscription has brought nothing.
Unread ==
  Reads /\ chan[effect] = {} =>
    /\ \A i \in 1 .. Len(buf) : buf[i].socket < opened
    /\ opened = 1 => received = {}

Channel == Reads => \A q \in chan[effect] : NewTo(q)

LiveInv ==
  /\ LiveType /\ OneSocket /\ OneAhead /\ ConnectedMeansOpen /\ ViewFollows
  /\ BufKnown /\ Unread /\ Channel /\ Gaps

LEMMA LiveNumbers ==
  /\ Sizes \subseteq Nat /\ RingSize \in Nat /\ Room \in Nat /\ MaxEffects \in Nat
  /\ MaxEffects > 0 /\ 1 \in Effects
BY LiveStreamAssumption DEF Effects

LEMMA HeadWaits ==
  ASSUME NEW q \in Seq(Nat), q # <<>>, Rising(q)
  PROVE  /\ Head(q) \in Nat /\ Tail(q) \in Seq(Nat)
         /\ Waiting(q) = {Head(q)} \cup Waiting(Tail(q))
         /\ Rising(Tail(q)) /\ \A w \in Waiting(Tail(q)) : Head(q) < w
<1>1. /\ Head(q) \in Nat /\ Tail(q) \in Seq(Nat) /\ Head(q) = q[1]
      /\ Len(q) \in Nat /\ Len(q) > 0 /\ Len(Tail(q)) = Len(q) - 1
      /\ \A i \in 1 .. Len(Tail(q)) : Tail(q)[i] = q[i + 1]
  BY HeadTailProperties, EmptySeq, LenProperties
<1>2. \A n \in Nat : n > 0 =>
        /\ 1 \in 1 .. n
        /\ \A i \in 1 .. n : i = 1 \/ (i - 1 \in 1 .. n - 1 /\ (i - 1) + 1 = i)
        /\ \A i \in 1 .. n - 1 : i + 1 \in 1 .. n /\ 1 < i + 1
  OBVIOUS
<1>3. ASSUME NEW i \in 1 .. Len(q) PROVE q[i] \in {Head(q)} \cup Waiting(Tail(q))
  <2>1. CASE i = 1
    BY <1>1, <2>1
  <2>2. CASE i # 1
    <3>1. i - 1 \in 1 .. Len(q) - 1 /\ (i - 1) + 1 = i
      BY <1>1, <1>2, <2>2
    <3>2. Tail(q)[i - 1] = q[i]
      BY <1>1, <3>1
    <3> QED
      BY <1>1, <3>1, <3>2 DEF Waiting
  <2> QED
    BY <2>1, <2>2
<1>4. ASSUME NEW i \in 1 .. Len(Tail(q))
      PROVE  Tail(q)[i] \in Waiting(q) /\ Head(q) < Tail(q)[i]
  <2>1. i + 1 \in 1 .. Len(q) /\ 1 < i + 1 /\ 1 \in 1 .. Len(q)
    BY <1>1, <1>2
  <2> QED
    BY <1>1, <2>1 DEF Waiting, Rising
<1>5. Head(q) \in Waiting(q)
  BY <1>1, <1>2 DEF Waiting
<1>6. Rising(Tail(q))
  <2> SUFFICES ASSUME NEW i \in 1 .. Len(Tail(q)), NEW j \in 1 .. Len(Tail(q)), i < j
               PROVE  Tail(q)[i] < Tail(q)[j]
    BY DEF Rising
  <2>1. i + 1 \in 1 .. Len(q) /\ j + 1 \in 1 .. Len(q) /\ i + 1 < j + 1
    BY <1>1
  <2> QED
    BY <1>1, <2>1 DEF Rising
<1> QED
  BY <1>1, <1>3, <1>4, <1>5, <1>6 DEF Waiting

LEMMA AppendWaits ==
  ASSUME NEW q \in Seq(Nat), NEW n \in Nat
  PROVE  /\ Append(q, n) \in Seq(Nat)
         /\ Waiting(Append(q, n)) = Waiting(q) \cup {n}
         /\ Rising(q) /\ (\A w \in Waiting(q) : w < n) => Rising(Append(q, n))
<1>1. /\ Append(q, n) \in Seq(Nat) /\ Len(Append(q, n)) = Len(q) + 1 /\ Len(q) \in Nat
      /\ Append(q, n)[Len(q) + 1] = n
      /\ \A i \in 1 .. Len(q) : Append(q, n)[i] = q[i]
  BY AppendProperties, LenProperties
<1>2. 1 .. Len(q) + 1 = (1 .. Len(q)) \cup {Len(q) + 1}
  BY <1>1
<1>3. Waiting(Append(q, n)) = Waiting(q) \cup {n}
  BY <1>1, <1>2 DEF Waiting
<1>4. ASSUME Rising(q), \A w \in Waiting(q) : w < n,
             NEW i \in 1 .. Len(q) + 1, NEW j \in 1 .. Len(q) + 1, i < j
      PROVE  Append(q, n)[i] < Append(q, n)[j]
  <2>1. i \in 1 .. Len(q) /\ (j \in 1 .. Len(q) \/ j = Len(q) + 1)
    BY <1>1, <1>4
  <2>2. q[i] \in Waiting(q)
    BY <2>1 DEF Waiting
  <2>3. CASE j \in 1 .. Len(q)
    BY <1>1, <1>4, <2>1, <2>3 DEF Rising
  <2>4. CASE j = Len(q) + 1
    BY <1>1, <1>4, <2>1, <2>2, <2>4
  <2> QED
    BY <2>1, <2>3, <2>4
<1> QED
  BY <1>1, <1>3, <1>4 DEF Rising

LEMMA OldestBounds == ASSUME published \in Nat PROVE Oldest \in 0 .. published
BY LiveNumbers DEF Oldest

\* What a replay puts into the channel.
LEMMA ReplayWaits ==
  ASSUME published \in Nat, NEW q \in Replays
  PROVE  /\ q \in Seq(Nat) /\ Rising(q) /\ Waiting(q) \subseteq Ring \cap wanted
         /\ \A r \in Ring \cap wanted : r \in Waiting(q) \/ \A i \in DOMAIN q : q[i] # r
<1>1. Ring \subseteq Nat
  BY OldestBounds DEF Ring
<1>2. PICK n \in 0 .. Room : q \in [1 .. n -> Ring \cap wanted]
  BY DEF Replays
<1>3. n \in Nat
  BY LiveNumbers
<1>4. q \in Seq(Nat) /\ Len(q) = n /\ DOMAIN q = 1 .. n
  <2>1. q \in [1 .. n -> Nat]
    BY <1>1, <1>2
  <2> QED
    BY <1>3, <2>1, IsASeq, LenProperties
<1> QED
  BY <1>2, <1>4 DEF Replays, Rising, Waiting

LEMMA InitLive == LiveInit => LiveInv
<1> SUFFICES ASSUME LiveInit PROVE LiveInv
  OBVIOUS
<1>1. 1 \in Effects /\ Effects \subseteq Nat /\ (\A e \in Effects : e >= 1)
  BY LiveNumbers DEF Effects
<1>2. buf = <<>> /\ buf \in Seq(Entry) /\ Len(buf) = 0
  BY EmptySeq DEF LiveInit
<1>3. LiveType
  <2>1. chan \in [Effects -> SUBSET Seq(Nat)] /\ sock \in [Effects -> States]
    BY DEF LiveInit, States
  <2>2. /\ published \in Nat /\ opened \in Nat \ {0} /\ missed \in 0 .. published
        /\ received \subseteq 1 .. published /\ overflow \subseteq Nat
        /\ others \subseteq Nat /\ size \in Nat
    BY LiveNumbers DEF LiveInit
  <2>3. /\ replay \in BOOLEAN /\ mounted \in BOOLEAN /\ frame \in BOOLEAN
        /\ connected \in BOOLEAN /\ stale \in BOOLEAN
        /\ effect \in Effects /\ due \subseteq Effects
    BY <1>1 DEF LiveInit
  <2> QED
    BY <1>2, <2>1, <2>2, <2>3 DEF LiveType
<1>4. OneSocket /\ OneAhead /\ ConnectedMeansOpen
  BY <1>1, <1>3 DEF LiveInit, LiveType, OneSocket, OneAhead, ConnectedMeansOpen, Stopped
<1>5. ViewFollows /\ BufKnown /\ Unread
  BY <1>2, LiveNumbers DEF LiveInit, ViewFollows, BufKnown, Unread
<1>6. chan[effect] = {}
  BY <1>1 DEF LiveInit
<1>7. Channel /\ Gaps
  BY <1>6 DEF LiveInit, Channel, Gaps
<1> QED
  BY <1>3, <1>4, <1>5, <1>6, <1>7 DEF LiveInv, Gaps

\* A step that leaves the records alone and opens nothing.
LEMMA RecordsKept ==
  ASSUME LiveInv, effect' = effect, Reads' => Reads,
         UNCHANGED <<options, buf, serverVars, opened, received>>
  PROVE  BufKnown' /\ Unread' /\ Channel' /\ Gaps'
<1>1. Gaps'
  BY DEF LiveInv, serverVars, Gaps, Told
<1>2. \A q : NewTo(q) => NewTo(q)'
  BY DEF serverVars, options, NewTo
<1> QED
  BY <1>1, <1>2 DEF LiveInv, BufKnown, Unread, Channel, serverVars

\* A step that opens another socket: the one of the effect that runs now.
LEMMA OpensStep ==
  ASSUME LiveInv, opened' = opened + 1, chan[effect'] = {}, effect' \in Effects,
         UNCHANGED <<buf, serverVars, received>>
  PROVE  BufKnown' /\ Unread' /\ Channel' /\ Gaps'
<1>t. opened \in Nat \ {0} /\ buf \in Seq(Entry)
  BY DEF LiveInv, LiveType
<1>1. ASSUME NEW i \in 1 .. Len(buf) PROVE buf[i].socket \in Nat
  <2>1. buf[i] \in Entry
    BY <1>t, ElementOfSeq
  <2> QED
    BY <2>1 DEF Entry
<1>2. BufKnown' /\ Unread'
  BY <1>t, <1>1 DEF LiveInv, BufKnown, Unread, serverVars
<1>3. chan'[effect'] = {}
  BY DEF serverVars
<1>4. Channel' /\ Gaps'
  BY <1>3 DEF LiveInv, Channel, Gaps, Told, serverVars
<1> QED
  BY <1>2, <1>4

\* A step that tears an effect down keeps the view.
LEMMA CleanupKeepsView ==
  ASSUME LiveInv, Cleanup, UNCHANGED shown, size' \in Nat,
         stale' = (stale \/ frame \/ Len(buf) > size')
  PROVE  ViewFollows'
<1>1. Len(buf) \in Nat
  BY LenProperties DEF LiveInv, LiveType
<1>2. buf' = buf /\ ~frame' /\ shown' = shown
  BY DEF Cleanup
<1>3. ~stale' => ~frame /\ ~stale /\ ~(Len(buf) > size')
  OBVIOUS
<1>4. ~(Len(buf) > size') => Len(buf) <= size'
  BY <1>1
<1> QED
  BY <1>2, <1>3, <1>4 DEF LiveInv, ViewFollows

LEMMA SockIs ==
  ASSUME LiveInv, NEW e \in Effects
  PROVE  /\ WsClosed(e) \in [Effects -> States]
         /\ \A d \in Effects : d # e => WsClosed(e)[d] = sock[d]
         /\ WsClosed(e)[e] \notin {"connecting", "open"}
         /\ \A d \in Effects : WsClosed(e)[d] = "none" <=> sock[d] = "none"
         /\ \A d \in Effects : sock[d] \in {"open", "closing"}
              => WsClosed(e)[d] \in {"open", "closing"}
BY DEF LiveInv, LiveType, WsClosed, States

LEMMA EffectsAre ==
  LiveInv => effect \in Effects /\ effect \in Nat /\ Effects \subseteq Nat
             /\ (\A e \in Effects : e < effect \/ e = effect \/ e > effect)
BY LiveNumbers DEF LiveInv, LiveType, Effects

LEMMA UnmountStep == LiveInv /\ Unmount => LiveInv'
<1> SUFFICES ASSUME LiveInv, Unmount PROVE LiveInv'
  OBVIOUS
<1>t. LiveType /\ OneSocket /\ OneAhead /\ ConnectedMeansOpen
  BY DEF LiveInv
<1>e. effect \in Effects
  BY EffectsAre
<1>1. sock' = WsClosed(effect) /\ mounted' = FALSE /\ effect' = effect
      /\ frame' = FALSE /\ stale' = (stale \/ frame) /\ UNCHANGED due
      /\ UNCHANGED <<options, buf, shown, connected, serverVars, opened, received>>
  BY DEF Unmount, Cleanup
<1>2. LiveType'
  BY <1>t, <1>1, <1>e, SockIs DEF LiveType, serverVars, options
<1>3. OneSocket' /\ OneAhead'
  <2>1. ASSUME NEW e \in Effects PROVE sock'[e] \notin {"connecting", "open"}
    <3>1. CASE e = effect
      BY <1>1, <1>e, <3>1, SockIs
    <3>2. CASE e # effect
      BY <1>t, <1>1, <1>e, <3>2, SockIs, EffectsAre
         DEF OneSocket, OneAhead, Stopped
    <3> QED
      BY <3>1, <3>2
  <2> QED
    BY <2>1, <1>t, <1>1, <1>e, SockIs DEF OneSocket, OneAhead, Stopped, serverVars
<1>4. ConnectedMeansOpen'
  BY <1>t, <1>1, <1>e, SockIs DEF ConnectedMeansOpen
<1>5. ViewFollows'
  BY <1>1 DEF LiveInv, ViewFollows, options
<1>6. Reads' => Reads
  BY <1>1, <1>e, SockIs DEF Reads
<1> QED
  BY <1>1, <1>2, <1>3, <1>4, <1>5, <1>6, RecordsKept DEF LiveInv

LEMMA RerunStep == LiveInv /\ Rerun => LiveInv'
<1> SUFFICES ASSUME LiveInv, Rerun PROVE LiveInv'
  OBVIOUS
<1>t. LiveType /\ OneSocket /\ OneAhead /\ ConnectedMeansOpen
  BY DEF LiveInv
<1>e. effect \in Effects /\ effect \in Nat /\ opened \in Nat \ {0}
  BY <1>t, EffectsAre DEF LiveType
<1> DEFINE now == effect + 1
<1>1. /\ sock' = [WsClosed(effect) EXCEPT ![now] = "connecting"]
      /\ mounted /\ mounted' = mounted /\ effect' = now
      /\ frame' = FALSE /\ stale' = (stale \/ frame \/ Len(buf) > size') /\ UNCHANGED due
      /\ opened' = opened + 1 /\ size' \in Nat /\ replay' \in BOOLEAN
      /\ UNCHANGED <<buf, shown, connected, serverVars, received>>
  BY LiveNumbers DEF Rerun, Cleanup
<1>n. /\ now \in Effects /\ now # effect /\ now > effect /\ now > 1
      /\ \A e \in Effects : e > now => e > effect
      /\ \A e \in Effects : e < effect => e < now
      /\ effect < now /\ ~(now < now)
      /\ \A e \in Effects : ~(e < now) => e = now \/ e > effect
      /\ opened + 1 \in Nat \ {0}
  BY <1>e, LiveNumbers DEF Rerun, Effects
<1> HIDE DEF now
<1>s. /\ sock' \in [Effects -> States] /\ sock'[now] = "connecting"
      /\ \A e \in Effects : e # now => sock'[e] = WsClosed(effect)[e]
      /\ sock[now] = "none" /\ now \notin due /\ chan[now] = {}
  <2>1. WsClosed(effect) \in [Effects -> States]
    BY <1>e, SockIs
  <2> QED
    BY <1>t, <1>1, <1>n, <2>1 DEF States, OneAhead
<1>2. LiveType'
  BY <1>t, <1>1, <1>n, <1>s DEF LiveType, serverVars
<1>3. OneSocket'
  <2>1. ASSUME NEW e \in Effects, sock'[e] \in {"connecting", "open"} PROVE e = now
    <3>1. CASE e = effect
      BY <1>e, <1>n, <1>s, <2>1, <3>1, SockIs
    <3>2. CASE e # effect /\ e # now
      <4>1. sock'[e] = sock[e]
        BY <1>e, <1>s, <3>2, SockIs
      <4> QED
        BY <1>t, <2>1, <3>2, <4>1, EffectsAre DEF OneSocket, OneAhead, Stopped
    <3> QED
      BY <3>1, <3>2
  <2>2. ASSUME NEW e \in due PROVE e < now
    <3>1. e \in Effects
      BY <1>t DEF LiveType
    <3> QED
      BY <1>t, <1>n, <1>s, <2>2, <3>1 DEF OneAhead
  <2> QED
    BY <1>1, <1>n, <2>1, <2>2 DEF OneSocket, Stopped
<1>4. OneAhead'
  BY <1>t, <1>1, <1>e, <1>n, <1>s, SockIs DEF OneAhead, serverVars
<1>5. ConnectedMeansOpen'
  <2>1. ASSUME connected PROVE \E e \in Effects : sock'[e] \in {"open", "closing"}
    <3>1. PICK e \in Effects : sock[e] \in {"open", "closing"}
      BY <1>t, <2>1 DEF ConnectedMeansOpen
    <3>2. e # now
      BY <1>s, <3>1
    <3> QED
      BY <1>e, <1>s, <3>1, <3>2, SockIs
  <2> QED
    BY <1>1, <1>n, <2>1 DEF ConnectedMeansOpen
<1>6. ViewFollows'
  BY <1>1, CleanupKeepsView DEF Cleanup
<1>7. BufKnown' /\ Unread' /\ Channel' /\ Gaps'
  BY <1>1, <1>n, <1>s, OpensStep
<1> QED
  BY <1>2, <1>3, <1>4, <1>5, <1>6, <1>7 DEF LiveInv

\* A step of the events of one socket that leaves the records alone.
LEMMA OnOpenStep ==
  ASSUME LiveInv, NEW e \in Effects, OnOpen(e) PROVE LiveInv'
<1>t. LiveType /\ OneSocket /\ OneAhead /\ ConnectedMeansOpen /\ ViewFollows
  BY DEF LiveInv
<1>1. /\ sock[e] = "connecting" /\ sock' = [sock EXCEPT ![e] = "open"] /\ connected'
      /\ UNCHANGED <<options, effect, mounted, due, frame, buf, shown, stale,
                     serverVars, opened, received>>
  BY DEF OnOpen
<1>s. /\ sock' \in [Effects -> States] /\ sock'[e] = "open"
      /\ \A d \in Effects : d # e => sock'[d] = sock[d]
  BY <1>t, <1>1 DEF LiveType, States
<1>2. LiveType'
  BY <1>t, <1>s, <1>1, Zenon DEF LiveType, serverVars, options, OnOpen
<1>3. OneSocket' /\ OneAhead'
  BY <1>t, <1>1, <1>s DEF OneSocket, OneAhead, Stopped, serverVars, LiveType
<1>4. ConnectedMeansOpen' /\ ViewFollows'
  BY <1>t, <1>1, <1>s DEF ConnectedMeansOpen, ViewFollows, options
<1>5. Reads' => Reads
  BY <1>1, <1>s, EffectsAre DEF Reads
<1> QED
  BY <1>1, <1>2, <1>3, <1>4, <1>5, RecordsKept DEF LiveInv

LEMMA OnErrorStep ==
  ASSUME LiveInv, NEW e \in Effects, OnError(e) PROVE LiveInv'
<1>t. LiveType /\ OneSocket /\ OneAhead /\ ConnectedMeansOpen /\ ViewFollows
  BY DEF LiveInv
<1>1. /\ sock[e] \in {"connecting", "open"} /\ sock' = WsClosed(e)
      /\ chan' = [chan EXCEPT ![e] = {}]
      /\ UNCHANGED <<options, effect, mounted, due, frame, buf, shown, connected,
                     stale, published, overflow, others, missed, opened, received>>
  BY DEF OnError
<1>s. /\ sock' \in [Effects -> States] /\ sock'[e] \notin {"connecting", "open"}
      /\ \A d \in Effects : d # e => sock'[d] = sock[d]
      /\ \A d \in Effects : sock'[d] = "none" <=> sock[d] = "none"
      /\ \A d \in Effects : sock[d] \in {"open", "closing"}
           => sock'[d] \in {"open", "closing"}
  BY <1>1, SockIs
<1>c. /\ chan' \in [Effects -> SUBSET Seq(Nat)] /\ chan'[e] = {}
      /\ \A d \in Effects : d # e => chan'[d] = chan[d]
  BY <1>t, <1>1 DEF LiveType
<1>2. LiveType'
  BY <1>t, <1>1, <1>s, <1>c DEF LiveType, options
<1>3. OneSocket' /\ OneAhead'
  BY <1>t, <1>1, <1>s, <1>c DEF OneSocket, OneAhead, Stopped, LiveType
<1>4. ConnectedMeansOpen' /\ ViewFollows'
  <2>1. mounted /\ sock'[effect] = "open" => sock[effect] = "open"
    BY <1>s, EffectsAre
  <2> QED
    BY <1>t, <1>1, <1>s, <2>1 DEF ConnectedMeansOpen, ViewFollows, options
<1>5. Reads' => Reads /\ chan'[effect'] = chan[effect]
  BY <1>1, <1>s, <1>c, EffectsAre DEF Reads
<1>6. Gaps' /\ (\A q : NewTo(q) => NewTo(q)')
  BY <1>1, <1>5 DEF LiveInv, Gaps, Told, NewTo, options
<1>7. BufKnown' /\ Unread' /\ Channel'
  BY <1>1, <1>5, <1>6 DEF LiveInv, BufKnown, Unread, Channel
<1> QED
  BY <1>2, <1>3, <1>4, <1>6, <1>7 DEF LiveInv

LEMMA OnCloseStep ==
  ASSUME LiveInv, NEW e \in Effects, OnClose(e) PROVE LiveInv'
<1>t. LiveType /\ OneSocket /\ OneAhead /\ ConnectedMeansOpen /\ ViewFollows
  BY DEF LiveInv
<1>1. /\ sock[e] # "none" /\ sock' = [sock EXCEPT ![e] = "none"] /\ connected' = FALSE
      /\ due' = IF Stopped(e) THEN due ELSE due \cup {e}
      /\ chan' = [chan EXCEPT ![e] = {}]
      /\ UNCHANGED <<options, effect, mounted, frame, buf, shown, stale, published,
                     overflow, others, missed, opened, received>>
  BY DEF OnClose
<1>s. /\ sock' \in [Effects -> States] /\ sock'[e] = "none"
      /\ \A d \in Effects : d # e => sock'[d] = sock[d] /\ chan'[d] = chan[d]
      /\ chan' \in [Effects -> SUBSET Seq(Nat)] /\ chan'[e] = {}
  BY <1>t, <1>1 DEF LiveType, States
<1>2. LiveType'
  BY <1>t, <1>1, <1>s DEF LiveType, options
<1>3. OneSocket'
  BY <1>t, <1>1, <1>s DEF OneSocket, Stopped, LiveType
<1>4. OneAhead'
  BY <1>t, <1>1, <1>s, EffectsAre DEF OneAhead, Stopped, LiveType
<1>5. ConnectedMeansOpen'
  <2>1. e # effect => effect > 1 \/ sock'[effect] # "open"
    <3>1. ASSUME e # effect PROVE effect > 1
      <4>1. ~(e > effect) /\ effect \in Nat /\ e \in Nat /\ e >= 1
        BY <1>t, <1>1, EffectsAre DEF OneAhead, Effects
      <4> QED
        BY <3>1, <4>1
    <3> QED
      BY <3>1
  <2> QED
    BY <1>1, <1>s, <2>1 DEF ConnectedMeansOpen
<1>6. ViewFollows' /\ BufKnown'
  BY <1>t, <1>1 DEF ViewFollows, BufKnown, LiveInv, options
<1>7. Reads' => Reads /\ chan'[effect'] = chan[effect]
  BY <1>1, <1>s, EffectsAre DEF Reads
<1>8. Gaps' /\ (\A q : NewTo(q) => NewTo(q)')
  BY <1>1, <1>7 DEF LiveInv, Gaps, Told, NewTo, options
<1>9. Unread' /\ Channel'
  BY <1>1, <1>7, <1>8 DEF LiveInv, Unread, Channel
<1> QED
  BY <1>2, <1>3, <1>4, <1>5, <1>6, <1>8, <1>9 DEF LiveInv

LEMMA ConnectStep ==
  ASSUME LiveInv, NEW e \in Effects, Connect(e) PROVE LiveInv'
<1>t. LiveType /\ OneSocket /\ OneAhead /\ ConnectedMeansOpen /\ ViewFollows
  BY DEF LiveInv
<1>1. /\ e \in due /\ due' = due \ {e}
      /\ UNCHANGED <<options, effect, mounted, frame, buf, shown, connected, stale,
                     serverVars, received>>
  BY DEF Connect
<1>2. CASE Stopped(e)
  <2>1. UNCHANGED <<sock, opened>>
    BY <1>2 DEF Connect
  <2>2. LiveType' /\ OneSocket' /\ OneAhead' /\ ConnectedMeansOpen' /\ ViewFollows'
    BY <1>t, <1>1, <2>1
       DEF LiveType, OneSocket, OneAhead, ConnectedMeansOpen, ViewFollows, Stopped, serverVars,
           options
  <2>3. Reads' => Reads
    BY <1>1, <2>1 DEF Reads
  <2> QED
    BY <1>1, <2>1, <2>2, <2>3, RecordsKept DEF LiveInv
<1>3. CASE ~Stopped(e)
  <2>1. opened' = opened + 1 /\ sock' = [sock EXCEPT ![e] = "connecting"]
    BY <1>3 DEF Connect
  <2>2. e = effect /\ mounted /\ sock[e] = "none" /\ chan[e] = {}
    BY <1>t, <1>1, <1>3, EffectsAre DEF OneSocket, OneAhead, Stopped
  <2>s. /\ sock' \in [Effects -> States] /\ sock'[e] = "connecting"
        /\ \A d \in Effects : d # e => sock'[d] = sock[d]
    BY <1>t, <2>1 DEF LiveType, States
  <2>3. LiveType'
    BY <1>t, <1>1, <2>1, <2>s DEF LiveType, serverVars, options
  <2>7. OneSocket'
    <3>1. ASSUME NEW d \in Effects, sock'[d] \in {"connecting", "open"}
          PROVE  ~Stopped(d)'
      BY <1>t, <1>1, <1>3, <2>2, <2>s, <3>1 DEF OneSocket, Stopped
    <3>2. ASSUME NEW d \in due', ~Stopped(d)' PROVE sock'[d] = "none"
      <4>1. d \in due /\ d # e /\ d \in Effects /\ ~Stopped(d)
        BY <1>t, <1>1, <3>2 DEF Stopped, LiveType
      <4> QED
        BY <1>t, <2>s, <4>1 DEF OneSocket
    <3> QED
      BY <3>1, <3>2 DEF OneSocket
  <2>4. OneAhead'
    BY <1>t, <1>1, <2>2, <2>s DEF OneAhead, serverVars
  <2>5. ConnectedMeansOpen' /\ ViewFollows'
    BY <1>t, <1>1, <2>2, <2>s DEF ConnectedMeansOpen, ViewFollows, options
  <2>6. BufKnown' /\ Unread' /\ Channel' /\ Gaps'
    BY <1>1, <2>1, <2>2, OpensStep
  <2> QED
    BY <2>3, <2>4, <2>5, <2>6, <2>7 DEF LiveInv
<1> QED
  BY <1>2, <1>3

LEMMA FlushStep == LiveInv /\ Flush => LiveInv'
<1> SUFFICES ASSUME LiveInv, Flush PROVE LiveInv'
  OBVIOUS
<1>t. LiveType /\ OneSocket /\ OneAhead /\ ConnectedMeansOpen /\ ViewFollows
  BY DEF LiveInv
<1> DEFINE kept == IF Len(buf) > size THEN size ELSE Len(buf)
<1>1. /\ frame' = FALSE /\ stale' = FALSE /\ buf' = SubSeq(buf, 1, kept) /\ shown' = buf'
      /\ UNCHANGED <<options, effect, mounted, sock, due, connected, serverVars,
                     opened, received>>
  BY DEF Flush
<1>2. /\ size \in Nat /\ kept \in Nat /\ kept <= Len(buf) /\ kept <= size
      /\ buf \in Seq(Entry) /\ Len(buf) \in Nat
  BY <1>t, LiveNumbers, LenProperties DEF LiveType
<1> HIDE DEF kept
<1>3. /\ buf' \in Seq(Entry) /\ Len(buf') = kept
      /\ \A i \in 1 .. kept : i \in 1 .. Len(buf) /\ buf'[i] = buf[i]
  <2>1. \A i \in 1 .. kept : i \in 1 .. Len(buf)
    BY <1>2
  <2>2. \A i \in 1 .. kept : buf[i] \in Entry
    BY <1>2, <2>1, ElementOfSeq
  <2>3. /\ buf' \in Seq(Entry)
        /\ Len(buf') = IF 1 <= kept THEN kept - 1 + 1 ELSE 0
        /\ \A i \in 1 .. kept - 1 + 1 : buf'[i] = buf[1 + i - 1]
    BY <1>1, <1>2, <2>2, SubSeqProperties
  <2> QED
    BY <1>2, <2>1, <2>3
<1>4. LiveType'
  BY <1>t, <1>1, <1>3 DEF LiveType, serverVars, options
<1>5. OneSocket' /\ OneAhead' /\ ConnectedMeansOpen'
  BY <1>t, <1>1 DEF OneSocket, OneAhead, ConnectedMeansOpen, Stopped, serverVars
<1>6. ViewFollows'
  BY <1>t, <1>1, <1>2, <1>3 DEF ViewFollows, options
<1>7. BufKnown' /\ Unread'
  BY <1>1, <1>3 DEF LiveInv, BufKnown, Unread, Reads, serverVars
<1>8. \A q : NewTo(q) => NewTo(q)'
  BY <1>1, <1>3 DEF NewTo, serverVars, options
<1>9. Gaps'
  BY <1>1 DEF LiveInv, Gaps, Told, Reads, serverVars
<1>10. Channel'
  BY <1>1, <1>8 DEF LiveInv, Channel, Reads, serverVars
<1> QED
  BY <1>4, <1>5, <1>6, <1>7, <1>9, <1>10 DEF LiveInv

\* A step of the server: what the page has got is kept.
LEMMA ServerStep ==
  ASSUME LiveInv, chan' \in [Effects -> SUBSET Seq(Nat)], overflow' \subseteq Nat,
         others' \subseteq Nat, missed' \in 0 .. published', published' \in Nat, published' >= published,
         \A e \in Effects : sock[e] = "none" => chan'[e] = {},
         UNCHANGED <<options, clientVars, opened, received>>
  PROVE  /\ LiveType' /\ OneSocket' /\ OneAhead' /\ ConnectedMeansOpen'
         /\ ViewFollows' /\ BufKnown'
<1>t. LiveType /\ OneSocket /\ OneAhead /\ ConnectedMeansOpen /\ ViewFollows /\ BufKnown
  BY DEF LiveInv
<1>1. received' \subseteq 1 .. published'
  BY <1>t DEF LiveType
<1>2. LiveType'
  BY <1>t, <1>1 DEF LiveType, clientVars, options
<1>3. OneSocket' /\ OneAhead' /\ ConnectedMeansOpen' /\ ViewFollows' /\ BufKnown'
  BY <1>t
     DEF OneSocket, OneAhead, ConnectedMeansOpen, ViewFollows, BufKnown, Stopped, clientVars,
         options
<1> QED
  BY <1>2, <1>3

LEMMA SubscribeStep ==
  ASSUME LiveInv, NEW e \in Effects, LiveSubscribe(e) PROVE LiveInv'
<1>t. LiveType /\ OneSocket /\ OneAhead /\ published \in Nat /\ missed \in 0 .. published
      /\ overflow \subseteq Nat /\ others \subseteq Nat /\ opened \in Nat \ {0}
      /\ received \subseteq 1 .. published
  BY DEF LiveInv, LiveType
<1>o. Oldest \in Nat /\ Oldest <= published /\ Ring = Oldest + 1 .. published
      /\ Ring \subseteq Nat
  BY <1>t, OldestBounds DEF Ring
<1>1. PICK c :
        /\ c \in IF replay THEN Replays ELSE {<<>>}
        /\ chan' = [chan EXCEPT ![e] = {c}]
        /\ overflow' = IF replay
                       THEN overflow
                            \cup {r \in Ring \cap wanted : \A i \in DOMAIN c : c[i] # r}
                       ELSE overflow
  BY DEF LiveSubscribe
<1>2. /\ sock[e] \in {"connecting", "open"} /\ chan[e] = {}
      /\ others' = IF replay THEN others \cup (Ring \ wanted) ELSE others
      /\ missed' = IF ~replay THEN published
                   ELSE IF Oldest > missed THEN Oldest ELSE missed
      /\ UNCHANGED <<options, clientVars, published, opened, received>>
  BY DEF LiveSubscribe
<1>3. /\ c \in Seq(Nat) /\ Rising(c) /\ Waiting(c) \subseteq Ring
      /\ ~replay => Waiting(c) = {}
      /\ replay => \A r \in Ring : r \in Waiting(c) \/ r \in overflow' \/ r \in others'
  <2>1. CASE replay
    <3>1. /\ c \in Seq(Nat) /\ Rising(c) /\ Waiting(c) \subseteq Ring \cap wanted
          /\ \A r \in Ring \cap wanted : r \in Waiting(c) \/ \A i \in DOMAIN c : c[i] # r
      BY <1>t, <1>1, <2>1, ReplayWaits
    <3> QED
      BY <1>1, <1>2, <2>1, <3>1
  <2>2. CASE ~replay
    <3>1. c = <<>>
      BY <1>1, <2>2
    <3>2. Len(c) = 0 /\ c \in Seq(Nat) /\ 1 .. 0 = {}
      BY <3>1, EmptySeq
    <3> QED
      BY <2>2, <3>2 DEF Rising, Waiting
  <2> QED
    BY <2>1, <2>2
<1>4. e = effect
  BY <1>t, <1>2, EffectsAre DEF OneSocket, OneAhead, Stopped
<1>5. /\ chan' \in [Effects -> SUBSET Seq(Nat)] /\ chan'[e] = {c}
      /\ \A d \in Effects : d # e => chan'[d] = chan[d]
  BY <1>t, <1>1, <1>3 DEF LiveType
<1>6. /\ missed' \in 0 .. published /\ missed <= missed'
      /\ IF replay THEN Oldest <= missed' ELSE missed' = published
      /\ overflow' \subseteq Nat /\ others' \subseteq Nat
      /\ overflow \subseteq overflow' /\ others \subseteq others'
  <2>1. /\ missed' \in 0 .. published /\ missed <= missed'
        /\ IF replay THEN Oldest <= missed' ELSE missed' = published
    BY <1>t, <1>o, <1>2
  <2> QED
    BY <1>t, <1>o, <1>1, <1>2, <2>1
<1>7. /\ LiveType' /\ OneSocket' /\ OneAhead' /\ ConnectedMeansOpen'
      /\ ViewFollows' /\ BufKnown'
  <2>1. \A d \in Effects : sock[d] = "none" => chan'[d] = {}
    BY <1>t, <1>2, <1>5 DEF OneAhead
  <2>2. published' \in Nat /\ published' >= published /\ missed' \in 0 .. published'
    BY <1>t, <1>2, <1>6
  <2> QED
    BY <1>2, <1>5, <1>6, <2>1, <2>2, ServerStep
<1>8. effect' = effect /\ chan'[effect] = {c}
      /\ UNCHANGED <<replay, buf, published, opened, received>>
  BY <1>2, <1>4, <1>5 DEF clientVars, options
<1>9. Unread'
  BY <1>8 DEF Unread
<1>10. Channel'
  <2>1. \A i \in 1 .. Len(buf) : buf[i].socket < opened
    BY <1>2, <1>4 DEF LiveInv, Unread, Reads
  <2>2. \A i \in 1 .. Len(buf) : buf[i].socket # opened
    <3>1. ASSUME NEW i \in 1 .. Len(buf) PROVE buf[i].socket # opened
      <4>1. buf[i] \in Entry
        BY ElementOfSeq DEF LiveInv, LiveType
      <4>2. buf[i].socket \in Nat /\ buf[i].socket < opened
        BY <2>1, <4>1 DEF Entry
      <4> QED
        BY <1>t, <4>2
    <3> QED
      BY <3>1
  <2>3. Waiting(c) \subseteq 1 .. published /\ (~replay => Waiting(c) = {})
    BY <1>o, <1>t, <1>3
  <2>4. NewTo(c)'
    BY <1>3, <1>8, <2>2, <2>3 DEF NewTo
  <2> QED
    BY <1>8, <2>4 DEF Channel
<1>11. Gaps'
  <2>1. \A k : Told(k) => Told(k)' \/ k \notin Nat
    <3>1. ASSUME NEW k \in Nat, Told(k) PROVE Told(k)'
      BY <1>t, <1>6, <1>8, <3>1 DEF Told
    <3> QED
      BY <3>1
  <2>2. ASSUME NEW r \in received, NEW k \in 1 .. r PROVE Told(k)'
    <3>1. k \in Nat
      BY <1>t, <2>2
    <3> QED
      BY <2>1, <2>2, <3>1 DEF LiveInv, Gaps
  <2>3. ASSUME NEW k \in 1 .. published PROVE Told(k)' \/ k \in Waiting(c)
    <3>1. CASE k <= missed'
      BY <3>1 DEF Told
    <3>2. CASE ~(k <= missed')
      <4>1. replay /\ k \in Ring
        BY <1>t, <1>o, <1>6, <2>3, <3>2
      <4> QED
        BY <1>3, <4>1 DEF Told
    <3> QED
      BY <3>1, <3>2
  <2> QED
    BY <1>8, <2>2, <2>3 DEF Gaps
<1> QED
  BY <1>7, <1>9, <1>10, <1>11 DEF LiveInv

LEMMA PublishStep == LiveInv /\ LivePublish => LiveInv'
<1> SUFFICES ASSUME LiveInv, LivePublish PROVE LiveInv'
  OBVIOUS
<1>t. LiveType /\ OneSocket /\ OneAhead /\ published \in Nat /\ missed \in 0 .. published
      /\ overflow \subseteq Nat /\ others \subseteq Nat /\ opened \in Nat \ {0}
      /\ effect \in Effects /\ received \subseteq 1 .. published /\ Room \in Nat
  BY LiveNumbers DEF LiveInv, LiveType
<1>n. PICK n \in Nat : n = published + 1 /\ published' = n
  BY <1>t DEF LivePublish
<1> DEFINE Push(q) == IF n \in wanted /\ Len(q) < Room THEN Append(q, n) ELSE q
<1>1. UNCHANGED <<options, clientVars, missed, opened, received>>
  BY DEF LivePublish
<1>c. /\ \A d \in Effects : d # effect => chan'[d] = chan[d]
      /\ chan'[effect] = {Push(q) : q \in chan[effect]}
      /\ chan' \in [Effects -> SUBSET Seq(Nat)]
  <2>1. CASE n \in wanted
    <3>1. chan' = [chan EXCEPT ![effect] =
                     {IF Len(q) < Room THEN Append(q, n) ELSE q : q \in @}]
      BY <1>n, <2>1 DEF LivePublish
    <3>2. \A q \in chan[effect] : (IF Len(q) < Room THEN Append(q, n) ELSE q) \in Seq(Nat)
      BY <1>t, <1>n, AppendWaits DEF LiveType
    <3>3. {IF Len(q) < Room THEN Append(q, n) ELSE q : q \in chan[effect]}
            = {Push(q) : q \in chan[effect]}
      BY <2>1
    <3> HIDE DEF Push
    <3> QED
      BY <1>t, <3>1, <3>2, <3>3 DEF LiveType
  <2>2. CASE n \notin wanted
    <3>1. chan' = chan
      BY <1>n, <2>2 DEF LivePublish
    <3> QED
      BY <1>t, <2>2, <3>1 DEF LiveType
  <2> QED
    BY <2>1, <2>2
<1>o. /\ overflow \subseteq overflow' /\ overflow' \subseteq overflow \cup {n}
      /\ others \subseteq others' /\ others' \subseteq others \cup {n}
      /\ n \in wanted /\ (\E q \in chan[effect] : Len(q) >= Room) => n \in overflow'
      /\ n \notin wanted /\ chan[effect] # {} => n \in others'
  BY <1>n DEF LivePublish
<1>2. ASSUME NEW q \in chan[effect]
      PROVE  /\ q \in Seq(Nat) /\ Push(q) \in Seq(Nat)
             /\ Push(q) = q \/ Push(q) = Append(q, n)
             /\ n \in Waiting(Push(q)) \/ n \in overflow' \/ n \in others'
             /\ Waiting(q) \subseteq Waiting(Push(q))
             /\ Waiting(Push(q)) \subseteq Waiting(q) \cup {n}
  <2>1. q \in Seq(Nat) /\ Len(q) \in Nat
    BY <1>t, <1>2, LenProperties DEF LiveType
  <2>2. CASE n \in wanted /\ Len(q) < Room
    BY <1>n, <2>1, <2>2, AppendWaits
  <2>3. CASE n \in wanted /\ ~(Len(q) < Room)
    <3>1. Len(q) >= Room
      BY <1>t, <2>1, <2>3
    <3> QED
      BY <1>o, <1>2, <2>1, <2>3, <3>1
  <2>4. CASE n \notin wanted
    BY <1>o, <1>2, <2>1, <2>4
  <2> QED
    BY <2>2, <2>3, <2>4
<1> HIDE DEF Push
<1>3. \A e \in Effects : chan[e] = {} => chan'[e] = {}
  BY <1>t, <1>c
<1>4. /\ LiveType' /\ OneSocket' /\ OneAhead' /\ ConnectedMeansOpen'
      /\ ViewFollows' /\ BufKnown'
  <2>1. /\ overflow' \subseteq Nat /\ others' \subseteq Nat
        /\ missed' \in 0 .. published' /\ published' \in Nat /\ published' >= published
    <3>1. missed' = missed
      BY <1>1
    <3> QED
      BY <1>t, <1>n, <1>o, <3>1
  <2>2. \A e \in Effects : sock[e] = "none" => chan'[e] = {}
    BY <1>t, <1>3 DEF OneAhead
  <2> QED
    BY <1>1, <1>c, <2>1, <2>2, ServerStep
<1>5. /\ effect' = effect /\ sock' = sock
      /\ UNCHANGED <<replay, buf, opened, received, missed>> /\ Reads' = Reads
  BY <1>1 DEF clientVars, options, Reads
<1>6. Unread'
  <2>1. chan'[effect] = {} => chan[effect] = {}
    BY <1>c
  <2> QED
    BY <1>5, <2>1 DEF LiveInv, Unread
<1>7. Channel'
  <2> SUFFICES ASSUME Reads, NEW p \in chan'[effect] PROVE NewTo(p)'
    BY <1>5 DEF Channel
  <2>1. PICK q \in chan[effect] : p = Push(q)
    BY <1>c
  <2>2. NewTo(q)
    BY DEF LiveInv, Channel
  <2>3. \A w \in Waiting(q) : w \in Nat /\ w < n
    BY <1>t, <1>n, <2>2 DEF NewTo
  <2>4. Rising(p)
    <3>1. q \in Seq(Nat) /\ (p = q \/ p = Append(q, n))
      BY <1>t, <1>2, <2>1
    <3>2. Rising(q) /\ Rising(Append(q, n))
      BY <2>2, <2>3, <3>1, AppendWaits DEF NewTo
    <3> QED
      BY <3>1, <3>2
  <2>5. Waiting(p) \subseteq 1 .. published'
    BY <1>t, <1>2, <1>n, <2>1, <2>2 DEF NewTo
  <2>6. ASSUME NEW j \in 1 .. Len(buf) PROVE buf[j].rec < n
    <3>1. buf[j].rec \in 1 .. published
      BY <1>t, <2>6 DEF LiveInv, BufKnown
    <3> QED
      BY <1>t, <1>n, <3>1
  <2>7. ASSUME NEW r \in received PROVE r < n
    <3>1. r \in 1 .. published
      BY <1>t
    <3> QED
      BY <1>t, <1>n, <3>1
  <2> QED
    BY <1>t, <1>2, <1>5, <2>1, <2>2, <2>4, <2>5, <2>6, <2>7 DEF NewTo
<1>8. Gaps'
  <2>1. \A k : Told(k) => Told(k)'
    BY <1>o, <1>5 DEF Told
  <2>2. ASSUME Reads, NEW p \in chan'[effect], NEW k \in 1 .. n
        PROVE  Told(k)' \/ k \in Waiting(p)
    <3>1. PICK q \in chan[effect] : p = Push(q)
      BY <1>c, <2>2
    <3>2. \A m \in 1 .. published : Told(m) \/ m \in Waiting(q)
      BY <2>2 DEF LiveInv, Gaps
    <3>3. k \in 1 .. published \/ k = n
      BY <1>t, <1>n, <2>2
    <3>4. Told(n)' \/ n \in Waiting(p)
      BY <1>2, <3>1 DEF Told
    <3> QED
      BY <1>2, <2>1, <3>1, <3>2, <3>3, <3>4
  <2> QED
    BY <1>5, <1>n, <2>1, <2>2 DEF LiveInv, Gaps
<1> QED
  BY <1>4, <1>6, <1>7, <1>8 DEF LiveInv

LEMMA MessageStep ==
  ASSUME LiveInv, NEW e \in Effects, OnMessage(e) PROVE LiveInv'
<1>t. LiveType /\ OneSocket /\ OneAhead /\ ConnectedMeansOpen /\ ViewFollows /\ BufKnown
      /\ published \in Nat /\ opened \in Nat \ {0} /\ effect \in Effects
      /\ received \subseteq 1 .. published /\ buf \in Seq(Entry) /\ replay \in BOOLEAN
      /\ Len(buf) \in Nat
  BY LenProperties DEF LiveInv, LiveType
<1>e. e = effect /\ sock[e] = "open" /\ Reads
  BY <1>t, EffectsAre DEF OnMessage, OneSocket, OneAhead, Stopped, Reads
<1>1. PICK q \in chan[e] :
        /\ q # <<>> /\ chan' = [chan EXCEPT ![e] = {Tail(q)}]
        /\ buf' = <<[rec |-> Head(q), socket |-> opened, again |-> replay]>> \o buf
        /\ received' = received \cup {Head(q)}
        /\ frame' = TRUE
        /\ UNCHANGED <<options, effect, mounted, sock, due, shown, connected, stale,
                       published, overflow, others, missed, opened>>
  BY DEF OnMessage
<1>q. q \in Seq(Nat) /\ NewTo(q) /\ Rising(q) /\ Waiting(q) \subseteq 1 .. published
  BY <1>t, <1>e DEF LiveInv, LiveType, Channel, NewTo
<1> DEFINE h == Head(q)
           more == Tail(q)
           new == [rec |-> h, socket |-> opened, again |-> replay]
<1>2. /\ h \in Nat /\ more \in Seq(Nat) /\ Waiting(q) = {h} \cup Waiting(more)
      /\ Rising(more) /\ \A w \in Waiting(more) : h < w
  BY <1>1, <1>q, HeadWaits
<1> HIDE DEF h, more
<1>3. /\ chan' \in [Effects -> SUBSET Seq(Nat)] /\ chan'[effect] = {more}
      /\ \A d \in Effects : d # e => chan'[d] = chan[d]
      /\ received' = received \cup {h} /\ h \in 1 .. published
  <2>1. chan' = [chan EXCEPT ![e] = {more}] /\ received' = received \cup {h}
    BY <1>1 DEF more, h
  <2> QED
    BY <1>t, <1>e, <1>q, <1>2, <2>1 DEF LiveType
<1>4. /\ buf' \in Seq(Entry) /\ Len(buf') = Len(buf) + 1
      /\ buf'[1] = new
      /\ \A i \in 1 .. Len(buf') : i = 1 \/ (i - 1 \in 1 .. Len(buf) /\ buf'[i] = buf[i - 1])
  <2>1. buf' = <<new>> \o buf
    BY <1>1 DEF h
  <2>2. new \in Entry
    BY <1>t, <1>2 DEF Entry
  <2> HIDE DEF new
  <2>3. /\ <<new>> \in Seq(Entry) /\ Len(<<new>>) = 1
        /\ <<new>>[1] = new
    BY <2>2
  <2>4. /\ buf' \in Seq(Entry) /\ Len(buf') = 1 + Len(buf)
        /\ \A i \in 1 .. 1 + Len(buf) :
             buf'[i] = (IF i <= 1 THEN <<new>>[i] ELSE buf[i - 1])
    BY <1>t, <2>1, <2>3, ConcatProperties
  <2>5. /\ 1 \in 1 .. 1 + Len(buf)
        /\ \A i \in 1 .. 1 + Len(buf) : i = 1 \/ (i - 1 \in 1 .. Len(buf) /\ ~(i <= 1))
    BY <1>t
  <2> QED
    BY <1>t, <2>3, <2>4, <2>5
<1>b. \A i \in 1 .. Len(buf) : buf[i].rec \in received /\ buf[i].rec \in Nat
        /\ buf[i].socket \in Nat /\ buf[i].socket <= opened
  <2>1. ASSUME NEW i \in 1 .. Len(buf) PROVE buf[i].rec \in Nat /\ buf[i].socket \in Nat
    <3>1. buf[i] \in Entry
      BY <1>t, ElementOfSeq
    <3> QED
      BY <3>1 DEF Entry
  <2> QED
    BY <1>t, <2>1 DEF BufKnown
<1>n. new.rec = h /\ new.socket = opened /\ new.again = replay
  OBVIOUS
<1> HIDE DEF new
<1>5. LiveType'
  <2>1. received' \subseteq 1 .. published'
    BY <1>t, <1>1, <1>3
  <2> QED
    BY <1>t, <1>1, <1>3, <1>4, <2>1 DEF LiveType, options
<1>6. OneSocket' /\ OneAhead' /\ ConnectedMeansOpen'
  BY <1>t, <1>e, <1>1, <1>3 DEF OneSocket, OneAhead, ConnectedMeansOpen, Stopped
<1>7. ViewFollows'
  <2>1. ASSUME NEW i \in 1 .. Len(buf'), NEW j \in 1 .. Len(buf'), i < j
        PROVE  /\ buf'[i].socket >= buf'[j].socket
               /\ buf'[i].socket = buf'[j].socket => buf'[i].rec > buf'[j].rec
               /\ buf'[i].rec = buf'[j].rec => buf'[i].again
    <3>j. j # 1 /\ i \in Nat /\ j \in Nat
      <4>1. \A m \in Nat : \A x, y \in 1 .. m : x < y => y # 1 /\ x \in Nat /\ y \in Nat
        OBVIOUS
      <4>2. Len(buf') \in Nat
        BY <1>4, LenProperties
      <4> QED
        BY <2>1, <4>1, <4>2
    <3>1. j - 1 \in 1 .. Len(buf) /\ buf'[j] = buf[j - 1]
      BY <1>4, <3>j
    <3>2. CASE i = 1
      <4>1. /\ buf[j - 1].socket = opened => buf[j - 1].rec < h
            /\ ~replay => buf[j - 1].rec < h
        BY <1>q, <1>2, <1>b, <3>1 DEF NewTo
      <4>2. PICK m, n \in Nat : buf[j - 1].socket = m /\ buf[j - 1].rec = n /\ m <= opened
        BY <1>b, <3>1
      <4>3. opened >= m /\ (opened = m => h > n) /\ (h = n => replay)
        BY <1>t, <1>2, <4>1, <4>2
      <4>4. buf'[i].socket = opened /\ buf'[i].rec = h /\ buf'[i].again = replay
        BY <1>4, <1>n, <3>2
      <4> QED
        BY <3>1, <4>2, <4>3, <4>4
    <3>3. CASE i # 1
      <4>1. i - 1 \in 1 .. Len(buf) /\ buf'[i] = buf[i - 1]
        BY <1>4, <3>3
      <4>2. i - 1 < j - 1
        BY <2>1, <3>j
      <4>3. /\ buf[i - 1].socket >= buf[j - 1].socket
            /\ buf[i - 1].socket = buf[j - 1].socket => buf[i - 1].rec > buf[j - 1].rec
            /\ buf[i - 1].rec = buf[j - 1].rec => buf[i - 1].again
        BY <1>t, <3>1, <4>1, <4>2 DEF ViewFollows
      <4> QED
        BY <3>1, <4>1, <4>3
    <3> QED
      BY <3>2, <3>3
  <2> QED
    BY <1>1, <2>1 DEF ViewFollows
<1>8. BufKnown' /\ Unread'
  <2>1. ASSUME NEW i \in 1 .. Len(buf')
        PROVE  buf'[i].socket <= opened /\ buf'[i].rec \in received'
    <3>1. CASE i = 1
      BY <1>t, <1>3, <1>4, <1>n, <3>1
    <3>2. CASE i # 1
      <4>1. i - 1 \in 1 .. Len(buf) /\ buf'[i] = buf[i - 1]
        BY <1>4, <3>2
      <4> QED
        BY <1>3, <1>b, <4>1
    <3> QED
      BY <3>1, <3>2
  <2>2. chan'[effect'] # {}
    BY <1>1, <1>3
  <2> QED
    BY <1>1, <2>1, <2>2 DEF BufKnown, Unread
<1>9. Channel'
  <2>1. ASSUME NEW w \in Waiting(more)
        PROVE  /\ \A j \in 1 .. Len(buf') : buf'[j].socket = opened => buf'[j].rec < w
               /\ ~replay => \A r \in received' : r < w
    <3>1. w \in Waiting(q) /\ h < w
      BY <1>2, <2>1
    <3>2. /\ \A j \in 1 .. Len(buf) : buf[j].socket = opened => buf[j].rec < w
          /\ ~replay => \A r \in received : r < w
      BY <1>q, <3>1 DEF NewTo
    <3> QED
      BY <1>3, <1>4, <1>n, <3>1, <3>2
  <2>2. PICK p \in Seq(Nat) : p = more
    BY <1>2
  <2>3. NewTo(p)'
    BY <1>1, <1>q, <1>2, <2>1, <2>2 DEF NewTo, options
  <2> QED
    BY <1>1, <1>3, <2>2, <2>3 DEF Channel
<1>10. Gaps'
  <2>1. /\ \A r \in received : \A k \in 1 .. r : Told(k)
        /\ \A k \in 1 .. published : Told(k) \/ k \in Waiting(q)
    BY <1>e DEF LiveInv, Gaps
  <2>2. \A k : (Told(k) => Told(k)') /\ Told(h)'
    BY <1>1, <1>3 DEF Told
  <2>3. ASSUME NEW k \in 1 .. h PROVE Told(k)'
    <3>1. k \in 1 .. published /\ ~(h < k)
      BY <1>t, <1>3, <2>3
    <3>2. k \notin Waiting(more)
      BY <1>2, <3>1
    <3> QED
      BY <1>2, <2>1, <2>2, <3>1, <3>2
  <2>4. \A k \in 1 .. published : Told(k)' \/ k \in Waiting(more)
    BY <1>2, <2>1, <2>2
  <2>5. PICK p \in Seq(Nat) : p = more
    BY <1>2
  <2> QED
    BY <1>1, <1>3, <2>1, <2>2, <2>3, <2>4, <2>5 DEF Gaps
<1> QED
  BY <1>5, <1>6, <1>7, <1>8, <1>9, <1>10 DEF LiveInv

LEMMA LiveStep == LiveInv /\ [LiveNext]_liveVars => LiveInv'
<1>1. LiveInv /\ UNCHANGED liveVars => LiveInv'
  <2> SUFFICES ASSUME LiveInv, UNCHANGED liveVars PROVE LiveInv'
    OBVIOUS
  <2>1. UNCHANGED <<options, clientVars, serverVars, opened, received>>
    BY DEF liveVars
  <2>2. /\ LiveType' /\ OneSocket' /\ OneAhead' /\ ConnectedMeansOpen' /\ ViewFollows'
    BY <2>1 DEF LiveInv, LiveType, OneSocket, OneAhead, ConnectedMeansOpen, ViewFollows,
                Stopped, clientVars, serverVars, options
  <2>3. effect' = effect /\ Reads' = Reads
    BY <2>1 DEF Reads, clientVars
  <2> QED
    BY <2>1, <2>2, <2>3, RecordsKept DEF LiveInv, clientVars
<1> QED
  BY <1>1, UnmountStep, RerunStep, FlushStep, PublishStep, OnOpenStep, MessageStep,
     OnErrorStep, OnCloseStep, ConnectStep, SubscribeStep
  DEF LiveNext

LEMMA LiveImplies == LiveInv => LiveViewSound
BY DEF LiveInv, LiveViewSound, GapsHaveCause, Gaps, Told

-----------------------------------------------------------------------------
(***************************************************************************)
(* The parts together: whichever moves, the others rest.                   *)
(***************************************************************************)
HttpInv == LimitInv /\ StreamsInv /\ SessionsInv /\ LiveInv

LEMMA HttpInvariant == SpecHttp => []HttpInv
<1>1. InitHttp => HttpInv
  BY InitLimit, InitStreams, InitSessions, InitLive DEF InitHttp, HttpInv
<1>2. HttpInv /\ [NextHttp]_httpVars => HttpInv'
  <2> SUFFICES ASSUME HttpInv, [NextHttp]_httpVars PROVE HttpInv'
    OBVIOUS
  <2>1. [LimitNext]_limitVars /\ [StreamsNext]_streamVars /\ [Next]_authVars
        /\ [LiveNext]_liveVars
    BY DEF NextHttp, httpVars
  <2> QED
    BY <2>1, LimitStep, StreamsStep, SessionsStep, LiveStep DEF HttpInv
<1> QED
  BY <1>1, <1>2, PTL DEF SpecHttp

\* Buckets refilled late and dropped when idle limit an address exactly as the
\* textbook says, for every rate and every collection period, provided only
\* that GcAge is a minute or more (ratelimit.go allow, gcLocked).
THEOREM LimitIsExact == SpecHttp => []LimitExact
BY HttpInvariant, LimitImplies, PTL DEF HttpInv

\* However many requests come at once, the counter is the number of handlers
\* that hold it and the cap is kept (connectors.go stream).
THEOREM StreamsAreCounted == SpecHttp => []StreamsCounted
BY HttpInvariant, StreamsImply, PTL DEF HttpInv

\* Whatever the order of answers, restarts and rotations, withdrawn keys expire
\* in time, every refused round trip has its cause and no session ends before
\* its time, for any number of tabs and any time limits (auth/oidc.go,
\* oidc_handler.go, auth.go).
THEOREM LoginsAreSound == SpecHttp => []LoginsSound
BY HttpInvariant, SessionsImply, PTL DEF HttpInv

\* However often the page reconnects, is torn down and changes its connector,
\* its buffer's size or whether it asks for a replay, it has one socket, shows
\* what it has got, in order and without a repetition but by replay, and every
\* gap has its cause, for any connectors, buffers, ring and channel
\* (useLiveStream.ts, connectors.go stream, bus.go).
THEOREM LiveViewIsSound == SpecHttp => []LiveViewSound
BY HttpInvariant, LiveImplies, PTL DEF HttpInv

=============================================================================
