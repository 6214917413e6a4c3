-------------------------- MODULE ConnectorsProofs --------------------------
(***************************************************************************)
(* Proofs about the connector instances: the pull connectors (Poller) for  *)
(* any feeds, configurations, retries, trims and lives, and the listeners  *)
(* (Listener) for any topics and messages.                                 *)
(***************************************************************************)
EXTENDS Connectors, FiniteSetTheorems, SequenceTheorems, TLAPS

(***************************************************************************)
(* The pull connectors: keys and memories                                  *)
(***************************************************************************)
LEMMA ItemShape ==
  \A i \in Items : i.site \in 1 .. 9 /\ i.site \in Nat \ {0} /\ i.time \in Nat
                   /\ i.level \in Int /\ i.fine \in BOOLEAN
<1> SUFFICES ASSUME NEW k \in Kinds, NEW i \in ItemsOf[k]
             PROVE  i.site \in 1 .. 9 /\ i.site \in Nat \ {0} /\ i.time \in Nat
                    /\ i.level \in Int /\ i.fine \in BOOLEAN
  BY DEF Items
<1> DEFINE Sites == 1 .. 9
           Times == 0 .. 2359
<1>1. Sites \subseteq Nat \ {0} /\ Times \subseteq Nat
  OBVIOUS
<1>2. i \in [site : Sites, time : Times, level : Int, fine : BOOLEAN]
  BY PollerAssumption
<1>3. i.site \in Sites => i.site \in 1 .. 9
  OBVIOUS
<1> HIDE DEF Sites, Times
<1> QED
  BY <1>1, <1>2, <1>3

LEMMA FiresKeyIsNat ==
  ASSUME NEW i \in Items
  PROVE  FiresKey(i) \in Nat /\ FiresKey(i) > 0
<1>1. PICK s \in Nat \ {0}, t \in Nat : i.site = s /\ i.time = t
  BY ItemShape
<1>2. CASE t < 10
  <2>1. ~(t \in 10 .. 99) /\ ~(t \in 100 .. 999) /\ ~(t > 999)
    BY <1>2
  <2>2. FiresKey(i) = 10 * (2000 * t + 1999) + s
    BY <1>1, <1>2, <2>1 DEF FiresKey
  <2> QED
    BY <2>2
<1>3. CASE t \in 10 .. 99
  <2>1. ~(t < 10) /\ ~(t \in 100 .. 999) /\ ~(t > 999)
    BY <1>3
  <2>2. FiresKey(i) = 10 * (200 * t + 199) + s
    BY <1>1, <1>3, <2>1 DEF FiresKey
  <2> QED
    BY <2>2
<1>4. CASE t \in 100 .. 999
  <2>1. ~(t < 10) /\ ~(t \in 10 .. 99) /\ ~(t > 999)
    BY <1>4
  <2>2. FiresKey(i) = 10 * (20 * t + 19) + s
    BY <1>1, <1>4, <2>1 DEF FiresKey
  <2> QED
    BY <2>2
<1>5. CASE t > 999
  <2>1. ~(t < 10) /\ ~(t \in 10 .. 99) /\ ~(t \in 100 .. 999)
    BY <1>5
  <2>2. FiresKey(i) = 10 * (2 * t) + s
    BY <1>1, <1>5, <2>1 DEF FiresKey
  <2> QED
    BY <2>2
<1> QED
  BY <1>2, <1>3, <1>4, <1>5

\* Keys are numbers, and only an item without a time has the lowest.
LEMMA KeyIsNat ==
  ASSUME NEW i \in Items
  PROVE  Key(i) \in Nat /\ (Key(i) = 0 => i.time = 0)
<1>1. PICK s \in Nat \ {0}, t \in Nat : i.site = s /\ i.time = t
  BY ItemShape
<1>2. CASE kind = Water
  <2>1. Key(i) = s * 10000 + t
    BY <1>1, <1>2 DEF Key, Water, Fires, WaterKey
  <2> QED
    BY <2>1
<1>3. CASE kind = Fires
  <2>1. Key(i) = FiresKey(i)
    BY <1>3 DEF Key, Water, Fires
  <2> QED
    BY <2>1, FiresKeyIsNat
<1>4. CASE kind \notin {Water, Fires}
  <2>1. Key(i) = t
    BY <1>1, <1>4 DEF Key
  <2> QED
    BY <1>1, <2>1
<1> QED
  BY <1>2, <1>3, <1>4

\* The key of an item is that of the connector, which does not change.
LEMMA KeyKept ==
  ASSUME kind' = kind
  PROVE  \A i : Key(i)' = Key(i)
BY DEF Key

LEMMA MarkedIs ==
  ASSUME NEW m \in Memories, NEW i \in Items
  PROVE  /\ Marked(m, i) \in Memories /\ Marked(m, i).seen = m.seen
         /\ Marked(m, i).mark \in {m.mark, Key(i)}
         /\ Marked(m, i).mark >= m.mark /\ Marked(m, i).mark >= Key(i)
<1>1. m.mark \in Nat /\ Key(i) \in Nat
  BY KeyIsNat DEF Memories
<1>2. CASE Key(i) > m.mark
  <2>1. Marked(m, i) = [m EXCEPT !.mark = Key(i)]
    BY <1>2 DEF Marked
  <2> QED
    BY <1>1, <1>2, <2>1 DEF Memories
<1>3. CASE ~(Key(i) > m.mark)
  <2>1. Marked(m, i) = m
    BY <1>3 DEF Marked, Memories
  <2> QED
    BY <1>1, <1>3, <2>1
<1> QED
  BY <1>2, <1>3

LEMMA VersionedIs ==
  ASSUME NEW m \in Memories, NEW i \in Items
  PROVE  /\ Versioned(m, i) \in Memories /\ Versioned(m, i).mark = m.mark
         /\ Versioned(m, i).seen = {j \in m.seen : j.site # i.site} \cup {i}
BY DEF Versioned, Memories

LEMMA NothingIs == Nothing \in Memories /\ Nothing.mark = 0 /\ Nothing.seen = {}
BY DEF Nothing, Memories

-----------------------------------------------------------------------------
(***************************************************************************)
(* The steps of Run, for any kind                                          *)
(***************************************************************************)
\* The places of a Run that has loaded its checkpoint.
Polling == {"request", "pause", "handle", "wait"}

\* A request begins or fails, a pause ends, Run waits or returns.
Rests ==
  /\ pc # "handle" /\ pc' \in {"idle", "request", "pause", "wait", "returned"}
  /\ pc' \in Polling => pc \in Polling
  /\ pc \in {"start", "idle"} => pc' \in {"idle", "returned"}
  /\ pc' = "idle" => pc = "start"
  /\ attempt' \in 0 .. MaxRetries
  /\ UNCHANGED <<memory, cp, history>>

Loads ==
  /\ pc = "start" /\ pc' = "request" /\ attempt' = 0
  /\ last' \in {cp, Nothing} /\ blind' \in BOOLEAN /\ (~blind' => last' = cp)
  /\ next' = last'
  /\ UNCHANGED <<rest, emitted, cp, copies, ever, missed, trimmed>>

Takes ==
  /\ pc = "request" /\ pc' = "handle" /\ attempt' = 0
  /\ rest' \subseteq feed /\ emitted' = FALSE /\ next' = last
  /\ UNCHANGED <<last, cp, history>>

PassesOver(i) ==
  /\ PassOver(i)
  /\ Covers(last, i) \/ ~i.fine \/ i.level < cfg.minimum \/ i.time = 0

EmitsMark(i) ==
  /\ kind # Weather /\ ~Covers(last, i) /\ Emit(i, Marked(next, i))

EmitsVersion(i) ==
  /\ kind = Weather /\ ~Covers(last, i) /\ Emit(i, Versioned(next, i))

Breaks ==
  /\ pc = "handle" /\ rest' = {}
  /\ UNCHANGED <<pc, attempt, last, next, emitted, cp, history>>

\* A poll ends, and of noaaweather's map only kept is left: all of it, or what
\* a trim leaves.
Ends(kept) ==
  /\ pc = "handle" /\ rest = {} /\ pc' = "wait" /\ emitted' = FALSE
  /\ kept \subseteq next.seen /\ (kind # Weather => kept = next.seen)
  /\ kept = next.seen \/ (Cardinality(next.seen) > SeenCap /\ Cardinality(kept) >= SeenKeep)
  /\ next' = [next EXCEPT !.seen = kept] /\ last' = next'
  /\ cp' \in {next', cp}
  /\ Drops(next.seen \ kept)
  /\ UNCHANGED <<attempt, rest, blind, ever, missed>>

Configured == cfg \in [period : Nat \ {0}, limit : Int, minimum : Int]

LEMMA FetchCases ==
  ASSUME TypeOK, Fetch
  PROVE  Rests \/ Takes
<1>t. attempt \in 0 .. MaxRetries /\ MaxRetries \in Nat
  BY PollerAssumption DEF TypeOK
<1>1. CASE RequestOk
  <2>1. rest' \subseteq feed
    BY <1>1 DEF RequestOk, Responses
  <2> QED
    BY <1>1, <2>1 DEF Fetch, RequestOk, Takes, history
<1>2. CASE RequestFails
  <2>1. attempt' \in 0 .. MaxRetries
    BY <1>t, <1>2 DEF RequestFails, PollFails
  <2> QED
    BY <1>2, <2>1 DEF Fetch, RequestFails, PollFails, Rests, history, Polling
<1>3. CASE RequestRefused
  BY <1>t, <1>3 DEF Fetch, RequestRefused, PollFails, Rests, history, Polling
<1>4. CASE PauseEnds
  BY <1>t, <1>4 DEF Fetch, PauseEnds, PollFails, Rests, history, Polling
<1> QED
  BY <1>1, <1>2, <1>3, <1>4 DEF Fetch

LEMMA CheckpointIs ==
  ASSUME NEW m, IF emitted THEN Checkpoint(m) ELSE UNCHANGED cp
  PROVE  cp' \in {m, cp}
BY DEF Checkpoint, SaveCheckpoint

LEMMA NothingDropped ==
  ASSUME TypeOK, UNCHANGED <<trimmed, copies>>, NEW S
  PROVE  Drops(S \ S)
<1>1. copies = [i \in Items |-> copies[i]]
  BY DEF TypeOK
<1> QED
  BY <1>1 DEF Drops

\* What a trim may leave.
LEMMA TrimmedIs ==
  ASSUME NEW S, IsFiniteSet(S), NEW kept \in Trimmed(S)
  PROVE  /\ kept \subseteq S
         /\ kept = S \/ (Cardinality(S) > SeenCap /\ Cardinality(kept) >= SeenKeep)
<1> DEFINE n == Cardinality(S)
           d == n - SeenKeep
<1>t. n \in Nat /\ SeenCap \in Nat /\ SeenKeep \in Int /\ SeenKeep <= SeenCap
  BY FS_CardinalityType, PollerAssumption
<1>1. CASE n <= SeenCap
  BY <1>1 DEF Trimmed
<1>2. CASE ~(n <= SeenCap)
  <2>1. kept \in kSubset(n - (d + 1) \div 2, S)
    BY <1>2 DEF Trimmed
  <2>2. kept \subseteq S /\ Cardinality(kept) = n - (d + 1) \div 2
    BY <2>1 DEF kSubset
  <2>3. \A k \in Nat : k > 0 => (k + 1) \div 2 <= k /\ (k + 1) \div 2 \in Int
    OBVIOUS
  <2>4. d \in Nat /\ d > 0
    BY <1>t, <1>2
  <2>5. n - (d + 1) \div 2 >= SeenKeep
    <3>1. (d + 1) \div 2 <= d /\ (d + 1) \div 2 \in Int
      BY <2>3, <2>4
    <3> DEFINE h == (d + 1) \div 2
    <3> HIDE DEF h
    <3>2. h \in Int /\ h <= n - SeenKeep
      BY <3>1 DEF h
    <3>3. n - h >= SeenKeep
      BY <1>t, <3>2
    <3> QED
      BY <3>3 DEF h
  <2> QED
    BY <1>t, <1>2, <2>2, <2>5
<1> QED
  BY <1>1, <1>2

LEMMA EndCases ==
  ASSUME TypeOK, kind # Weather, EndPoll
  PROVE  Ends(next.seen)
<1>1. next \in Memories
  BY DEF TypeOK
<1>2. next = [next EXCEPT !.seen = next.seen]
  BY <1>1 DEF Memories
<1>3. Drops(next.seen \ next.seen)
  BY NothingDropped DEF EndPoll, history
<1>4. cp' \in {next, cp}
  BY CheckpointIs DEF EndPoll
<1> QED
  BY <1>2, <1>3, <1>4 DEF EndPoll, Ends, history

LEMMA WeatherEndCases ==
  ASSUME TypeOK, IsFiniteSet(next.seen), kind = Weather, EndWeatherPoll
  PROVE  \E kept \in SUBSET next.seen : Ends(kept)
<1>1. next \in Memories
  BY DEF TypeOK
<1>2. CASE emitted
  <2>1. PICK kept \in Trimmed(next.seen) :
          /\ next' = [next EXCEPT !.seen = kept]
          /\ Checkpoint(next')
          /\ Drops(next.seen \ kept)
    BY <1>2 DEF EndWeatherPoll
  <2>2. /\ kept \in SUBSET next.seen
        /\ \/ kept = next.seen
           \/ Cardinality(next.seen) > SeenCap /\ Cardinality(kept) >= SeenKeep
    BY <2>1, TrimmedIs
  <2>3. cp' \in {next', cp}
    BY <2>1 DEF Checkpoint, SaveCheckpoint
  <2> QED
    BY <2>1, <2>2, <2>3 DEF EndWeatherPoll, Ends
<1>3. CASE ~emitted
  <2>1. next = [next EXCEPT !.seen = next.seen]
    BY <1>1 DEF Memories
  <2>2. Drops(next.seen \ next.seen)
    BY <1>3, NothingDropped DEF EndWeatherPoll
  <2>3. Ends(next.seen)
    BY <1>3, <2>1, <2>2 DEF EndWeatherPoll, Ends
  <2> QED
    BY <2>3
<1> QED
  BY <1>2, <1>3

LEMMA RunCases ==
  ASSUME TypeOK, Configured, IsFiniteSet(next.seen), Run
  PROVE  \/ Rests \/ Loads \/ Takes \/ Breaks
         \/ \E i \in rest : PassesOver(i) \/ EmitsMark(i) \/ EmitsVersion(i)
         \/ \E kept \in SUBSET next.seen : Ends(kept)
<1>t. attempt \in 0 .. MaxRetries /\ MaxRetries \in Nat
  BY PollerAssumption DEF TypeOK
<1>1. CASE Begin
  <2>1. pc' = "request"
    BY <1>1 DEF Begin, Configured
  <2>2. last' \in {cp, Nothing} /\ blind' \in BOOLEAN /\ (~blind' => last' = cp) /\ next' = last'
    BY <1>1 DEF Begin, LoadCheckpoint, QueryCheckpoint
  <2> QED
    BY <1>1, <2>1, <2>2 DEF Begin, Loads
<1>2. CASE Tick \/ Idle \/ Returns
  BY <1>t, <1>2 DEF Tick, Idle, Returns, Rests, Polling
<1>3. CASE QuakesRun /\ QuakesPoll
  <2>1. kind # Weather
    BY <1>3 DEF QuakesPoll, Quakes, Weather
  <2> QED
    BY <1>3, <2>1, FetchCases, EndCases DEF QuakesPoll, PassesOver, EmitsMark
<1>4. CASE WaterRun /\ WaterPoll
  <2>1. kind # Weather
    BY <1>4 DEF WaterPoll, Water, Weather
  <2> QED
    BY <1>4, <2>1, FetchCases, EndCases DEF WaterPoll, PassesOver, EmitsMark
<1>5. CASE FiresRun /\ FiresPoll
  <2>1. kind # Weather
    BY <1>5 DEF FiresPoll, Fires, Weather
  <2> QED
    BY <1>5, <2>1, FetchCases, EndCases DEF FiresPoll, PassesOver, EmitsMark, Breaks
<1>6. CASE AirRun /\ AirPoll
  <2>1. kind # Weather
    BY <1>6 DEF AirPoll, Air, Weather
  <2> QED
    BY <1>6, <2>1, FetchCases, EndCases DEF AirPoll, PassesOver, EmitsMark
<1>7. CASE WeatherRun /\ WeatherPoll
  BY <1>7, FetchCases, WeatherEndCases DEF WeatherPoll, PassesOver, EmitsVersion
<1> QED
  BY <1>1, <1>2, <1>3, <1>4, <1>5, <1>6, <1>7
     DEF Run, QuakesRun, WaterRun, FiresRun, AirRun, WeatherRun

-----------------------------------------------------------------------------
(***************************************************************************)
(* The invariant.  Shape: only inside a poll is there a response, a part   *)
(* of the feed, and are the two memories different.  Memory: what is       *)
(* remembered was published, and is one version of each alert.  Once: what *)
(* was published in this life, and not given up since, is behind the       *)
(* memory that polls compare with, or not in the response any more.        *)
(* Known: in a life that could load it, the memory is not behind the       *)
(* checkpoint, but for what it has given up.                               *)
(***************************************************************************)
Shape ==
  /\ rest \subseteq feed /\ (pc # "handle" => rest = {} /\ next = last)
  /\ ever \subseteq posted /\ \A i \in Items : copies[i] > 0 => i \in ever
  /\ pc \in {"start", "idle"} => trimmed = {} /\ \A i \in Items : copies[i] = 0

OnePerSite(m) == \A i, j \in m.seen : i.site = j.site => i = j

Remembers(m) ==
  /\ m.seen \subseteq ever /\ OnePerSite(m)
  /\ m.mark = 0 \/ \E j \in ever : Key(j) = m.mark

Memory ==
  /\ Remembers(last) /\ Remembers(next) /\ Remembers(cp)
  /\ last.mark <= next.mark
  /\ kind = Weather => last = next

Once ==
  IF kind = Weather
  THEN \A i \in Items : copies[i] > 0 => i.time = 0 \/ Covers(next, i)
  ELSE \A i \in Items : copies[i] > 0 =>
         Key(i) <= next.mark /\ (i \in rest => Key(i) <= last.mark)

\* What RepeatMeansUnsaved excuses of noaaweather.
Excused(i) ==
  i.site \in trimmed \/ \E j \in Items : copies[j] > 0 /\ OtherVersion(i, j)

Known ==
  ~blind /\ pc \in Polling =>
    /\ cp.mark <= last.mark
    /\ \A i \in ever : Covers(cp, i) => Covers(last, i) \/ Excused(i)

PollInv ==
  /\ TypeOK /\ Configured
  /\ Shape /\ Memory /\ Once /\ NoRepeatInALife /\ Known /\ SkippedOnlyBehind

LEMMA PollTypes ==
  ASSUME TypeOK
  PROVE  /\ last \in Memories /\ next \in Memories /\ cp \in Memories
         /\ last.mark \in Nat /\ next.mark \in Nat /\ cp.mark \in Nat
         /\ last.seen \subseteq Items /\ next.seen \subseteq Items /\ cp.seen \subseteq Items
         /\ rest \subseteq Items /\ feed \subseteq Items /\ posted \subseteq Items
         /\ ever \subseteq Items /\ copies \in [Items -> 0 .. 2] /\ trimmed \subseteq 1 .. 9
         /\ \A i \in Items : copies[i] \in 0 .. 2
         /\ \A i \in Items : Key(i) \in Nat
<1>1. last \in Memories /\ next \in Memories /\ cp \in Memories
  BY DEF TypeOK
<1>2. \A i \in Items : Key(i) \in Nat
  BY KeyIsNat
<1> QED
  BY <1>1, <1>2 DEF TypeOK, Memories

\* The sites of what was published, and a memory of one version of each.
LEMMA SitesFinite ==
  ASSUME NEW E, E \subseteq Items
  PROVE  /\ IsFiniteSet({i.site : i \in E}) /\ Cardinality({i.site : i \in E}) \in Nat
<1>1. {i.site : i \in E} \subseteq 1 .. 9
  BY ItemShape
<1>2. IsFiniteSet(1 .. 9)
  <2>1. \A a, b \in Int : IsFiniteSet(a .. b)
    BY FS_Interval
  <2>2. 1 \in Int /\ 9 \in Int
    OBVIOUS
  <2> QED
    BY <2>1, <2>2, Zenon
<1> QED
  BY <1>1, <1>2, FS_Subset, FS_CardinalityType

LEMMA SeenBySite ==
  ASSUME NEW m, OnePerSite(m), NEW E, m.seen \subseteq E, E \subseteq Items
  PROVE  /\ IsFiniteSet(m.seen) /\ Cardinality(m.seen) \in Nat
         /\ Cardinality(m.seen) <= Cardinality({i.site : i \in E})
<1> DEFINE T == {i.site : i \in E}
           f == [i \in m.seen |-> i.site]
<1>1. f \in Injection(m.seen, T)
  BY DEF OnePerSite, Injection, IsInjective
<1>2. IsFiniteSet(T)
  BY SitesFinite
<1> HIDE DEF T, f
<1>3. IsFiniteSet(m.seen) /\ Cardinality(m.seen) <= Cardinality(T)
  BY <1>1, <1>2, FS_Injection
<1> QED
  BY <1>3, FS_CardinalityType DEF T

LEMMA SeenFinite ==
  ASSUME PollInv
  PROVE  IsFiniteSet(next.seen) /\ Cardinality(next.seen) \in Nat
BY SeenBySite, PollTypes DEF PollInv, Memory, Remembers, OnePerSite

\* More is published: the sites do not get fewer.
LEMMA SitesGrow ==
  ASSUME NEW E, NEW F, E \subseteq F, F \subseteq Items
  PROVE  Cardinality({i.site : i \in E}) <= Cardinality({i.site : i \in F})
<1>1. {i.site : i \in E} \subseteq {i.site : i \in F}
  OBVIOUS
<1> QED
  BY <1>1, SitesFinite, FS_Subset

\* A version takes the place of at most one other.
LEMMA VersionedGrows ==
  ASSUME NEW m, NEW n, OnePerSite(m), IsFiniteSet(m.seen),
         NEW S, S = {j \in m.seen : j.site # n.site} \cup {n}
  PROVE  Cardinality(S) \in Nat /\ Cardinality(S) >= Cardinality(m.seen)
<1> DEFINE R == {j \in m.seen : j.site # n.site}
<1>1. IsFiniteSet(R) /\ Cardinality(R) \in Nat /\ Cardinality(m.seen) \in Nat
  BY FS_Subset, FS_CardinalityType
<1>2. Cardinality(S) = Cardinality(R) + 1
  <2>1. n \notin R
    OBVIOUS
  <2> HIDE DEF R
  <2>2. S = R \cup {n}
    BY DEF R
  <2> QED
    BY <1>1, <2>1, <2>2, FS_AddElement
<1>3. Cardinality(R) >= Cardinality(m.seen) - 1
  <2>1. CASE \E x \in m.seen : x.site = n.site
    <3>1. PICK x \in m.seen : x.site = n.site
      BY <2>1
    <3>2. R = m.seen \ {x}
      BY <3>1 DEF OnePerSite
    <3>3. Cardinality(m.seen \ {x}) = Cardinality(m.seen) - 1
      BY <3>1, FS_RemoveElement
    <3> QED
      BY <1>1, <3>2, <3>3
  <2>2. CASE ~\E x \in m.seen : x.site = n.site
    <3>1. R = m.seen
      BY <2>2
    <3> HIDE DEF R
    <3>2. \A k \in Nat : k >= k - 1
      OBVIOUS
    <3> QED
      BY <1>1, <3>1, <3>2
  <2> QED
    BY <2>1, <2>2
<1> QED
  BY <1>1, <1>2, <1>3

-----------------------------------------------------------------------------
(***************************************************************************)
(* The steps, one lemma for each                                           *)
(***************************************************************************)
\* A step that changes none of this but the place, and does not load.
LEMMA QuietStep ==
  ASSUME PollInv, TypeOK',
         UNCHANGED <<kind, cfg, remote, rest, last, next, cp, history>>,
         pc' = pc \/ (pc # "handle" /\ pc' # "handle"),
         pc' \in Polling => pc \in Polling,
         pc' \in {"start", "idle"} => pc \in {"start", "idle"}
  PROVE  PollInv'
<1>t. /\ kind' = kind /\ cfg' = cfg /\ feed' = feed /\ posted' = posted
      /\ rest' = rest /\ last' = last /\ next' = next /\ cp' = cp /\ blind' = blind
      /\ copies' = copies /\ ever' = ever /\ missed' = missed /\ trimmed' = trimmed
  BY DEF remote, history
<1>k. \A i : Key(i)' = Key(i)
  BY <1>t, KeyKept
<1>1. Shape'
  BY <1>t DEF PollInv, Shape
<1>2. Memory'
  BY <1>t, <1>k DEF PollInv, Memory, Remembers, OnePerSite
<1>3. Once'
  BY <1>t, <1>k DEF PollInv, Once, Covers
<1>4. NoRepeatInALife'
  BY <1>t DEF PollInv, NoRepeatInALife
<1>5. Known'
  BY <1>t, <1>k DEF PollInv, Known, Covers, Excused, OtherVersion
<1>6. SkippedOnlyBehind'
  BY <1>t, <1>k DEF PollInv, SkippedOnlyBehind
<1> QED
  BY <1>t, <1>1, <1>2, <1>3, <1>4, <1>5, <1>6 DEF PollInv, Configured

LEMMA LoadsStep ==
  ASSUME PollInv, TypeOK', Loads, UNCHANGED <<kind, cfg, remote>>
  PROVE  PollInv'
<1>t. /\ kind' = kind /\ cfg' = cfg /\ feed' = feed /\ posted' = posted
      /\ rest' = rest /\ next' = last' /\ cp' = cp /\ pc' = "request" /\ pc = "start"
      /\ copies' = copies /\ ever' = ever /\ missed' = missed /\ trimmed' = trimmed
      /\ last' \in {cp, Nothing} /\ (~blind' => last' = cp) /\ trimmed = {}
  BY DEF Loads, remote, PollInv, Shape
<1>k. \A i : Key(i)' = Key(i)
  BY <1>t, KeyKept
<1>n. /\ \A i \in Items : copies[i] = 0 /\ ~(copies[i] > 0) /\ ~(copies[i] > 1)
      /\ last'.mark \in Nat /\ cp.mark \in Nat
  BY <1>t, PollTypes, NothingIs DEF PollInv, Shape
<1>1. Shape'
  BY <1>t, <1>n DEF PollInv, Shape
<1>2. Memory'
  <2>1. Remembers(last)'
    BY <1>t, <1>k, NothingIs DEF PollInv, Memory, Remembers, OnePerSite
  <2> QED
    BY <1>t, <1>k, <1>n, <2>1 DEF PollInv, Memory, Remembers, OnePerSite
<1>3. Once'
  BY <1>t, <1>k, <1>n DEF PollInv, Once, Covers
<1>4. NoRepeatInALife'
  BY <1>t, <1>n DEF NoRepeatInALife
<1>5. Known'
  BY <1>t, <1>k, <1>n DEF Known, Covers
<1>6. SkippedOnlyBehind'
  BY <1>t, <1>k DEF PollInv, SkippedOnlyBehind
<1> QED
  BY <1>t, <1>1, <1>2, <1>3, <1>4, <1>5, <1>6 DEF PollInv, Configured

LEMMA TakesStep ==
  ASSUME PollInv, TypeOK', Takes, UNCHANGED <<kind, cfg, remote>>
  PROVE  PollInv'
<1>t. /\ kind' = kind /\ cfg' = cfg /\ feed' = feed /\ posted' = posted
      /\ rest' \subseteq feed /\ last' = last /\ next' = last /\ next = last
      /\ cp' = cp /\ pc' = "handle" /\ pc = "request" /\ blind' = blind
      /\ copies' = copies /\ ever' = ever /\ missed' = missed /\ trimmed' = trimmed
  BY DEF Takes, remote, history, PollInv, Shape
<1>k. \A i : Key(i)' = Key(i)
  BY <1>t, KeyKept
<1>1. Shape'
  BY <1>t DEF PollInv, Shape
<1>2. Memory'
  BY <1>t, <1>k DEF PollInv, Memory, Remembers, OnePerSite
<1>3. Once'
  BY <1>t, <1>k DEF PollInv, Once, Covers
<1>4. NoRepeatInALife'
  BY <1>t DEF PollInv, NoRepeatInALife
<1>5. Known'
  BY <1>t, <1>k DEF PollInv, Known, Covers, Polling, Excused, OtherVersion
<1>6. SkippedOnlyBehind'
  BY <1>t, <1>k DEF PollInv, SkippedOnlyBehind
<1> QED
  BY <1>t, <1>1, <1>2, <1>3, <1>4, <1>5, <1>6 DEF PollInv, Configured

LEMMA PassesOverStep ==
  ASSUME PollInv, TypeOK', NEW n \in rest, PassesOver(n), UNCHANGED <<kind, cfg, remote>>
  PROVE  PollInv'
<1>t. /\ kind' = kind /\ cfg' = cfg /\ feed' = feed /\ posted' = posted
      /\ rest' = rest \ {n} /\ last' = last /\ next' = next
      /\ cp' = cp /\ pc' = pc /\ pc = "handle" /\ blind' = blind
      /\ copies' = copies /\ ever' = ever /\ trimmed' = trimmed
      /\ missed' = missed \cup ({n} \ ever) /\ n \in Items
      /\ Covers(last, n) \/ ~n.fine \/ n.level < cfg.minimum \/ n.time = 0
  BY PollTypes DEF PassesOver, PassOver, Handles, remote, PollInv
<1>k. \A i : Key(i)' = Key(i)
  BY <1>t, KeyKept
<1>1. Shape'
  BY <1>t DEF PollInv, Shape
<1>2. Memory'
  BY <1>t, <1>k DEF PollInv, Memory, Remembers, OnePerSite
<1>3. Once'
  BY <1>t, <1>k DEF PollInv, Once, Covers
<1>4. NoRepeatInALife'
  BY <1>t DEF PollInv, NoRepeatInALife
<1>5. Known'
  BY <1>t, <1>k DEF PollInv, Known, Covers, Polling, Excused, OtherVersion
<1>6. SkippedOnlyBehind'
  <2>1. CASE Covers(last, n) /\ kind = Weather
    <3>1. \E j \in ever : j.site = n.site /\ j.time = n.time
      BY <2>1 DEF Covers, PollInv, Memory, Remembers
    <3> QED
      BY <1>t, <1>k, <2>1, <3>1 DEF PollInv, SkippedOnlyBehind
  <2>2. CASE Covers(last, n) /\ kind # Weather
    <3>1. Key(n) <= last.mark /\ Key(n) \in Nat /\ last.mark \in Nat
      BY <1>t, <2>2, PollTypes DEF Covers, PollInv
    <3>2. last.mark = 0 => n.time = 0
      <4>1. \A k \in Nat : k <= 0 => k = 0
        OBVIOUS
      <4> QED
        BY <1>t, <3>1, <4>1, KeyIsNat
    <3>3. n.time = 0 \/ \E j \in ever : Key(j) >= Key(n)
      <4>1. \A k, m \in Nat : k <= m => m >= k
        OBVIOUS
      <4> QED
        BY <3>1, <3>2, <4>1 DEF PollInv, Memory, Remembers, OnePerSite
    <3> QED
      BY <1>t, <1>k, <2>2, <3>3 DEF PollInv, SkippedOnlyBehind
  <2>3. CASE ~n.fine \/ n.level < cfg.minimum \/ n.time = 0
    BY <1>t, <1>k, <2>3 DEF PollInv, SkippedOnlyBehind
  <2> QED
    BY <1>t, <2>1, <2>2, <2>3
<1> QED
  BY <1>t, <1>1, <1>2, <1>3, <1>4, <1>5, <1>6 DEF PollInv, Configured

LEMMA BreaksStep ==
  ASSUME PollInv, TypeOK', Breaks, UNCHANGED <<kind, cfg, remote>>
  PROVE  PollInv'
<1>t. /\ kind' = kind /\ cfg' = cfg /\ feed' = feed /\ posted' = posted
      /\ rest' = {} /\ last' = last /\ next' = next
      /\ cp' = cp /\ pc' = pc /\ pc = "handle" /\ blind' = blind
      /\ copies' = copies /\ ever' = ever /\ missed' = missed /\ trimmed' = trimmed
  BY DEF Breaks, remote, history
<1>k. \A i : Key(i)' = Key(i)
  BY <1>t, KeyKept
<1>1. Shape'
  BY <1>t DEF PollInv, Shape
<1>2. Memory'
  BY <1>t, <1>k DEF PollInv, Memory, Remembers, OnePerSite
<1>3. Once'
  BY <1>t, <1>k DEF PollInv, Once, Covers
<1>4. NoRepeatInALife'
  BY <1>t DEF PollInv, NoRepeatInALife
<1>5. Known'
  BY <1>t, <1>k DEF PollInv, Known, Covers, Excused, OtherVersion
<1>6. SkippedOnlyBehind'
  BY <1>t, <1>k DEF PollInv, SkippedOnlyBehind
<1> QED
  BY <1>t, <1>1, <1>2, <1>3, <1>4, <1>5, <1>6 DEF PollInv, Configured

\* What an emission leaves alone, and what it makes of the histories.
Emitting(n, m) ==
  /\ kind' = kind /\ cfg' = cfg /\ feed' = feed /\ posted' = posted
  /\ rest' = rest \ {n} /\ next' = m /\ cp' = cp /\ blind' = blind
  /\ pc' = pc /\ pc = "handle" /\ trimmed' = trimmed \ {n.site}
  /\ ever' = ever \cup {n} /\ missed' = missed \ {n}
  /\ n \in Items /\ n \in feed /\ feed \subseteq posted /\ ever' \subseteq Items
  /\ \A i \in Items : i # n =>
       copies'[i] = (IF OtherVersion(n, i) THEN 0 ELSE copies[i])
  /\ copies'[n] > 0 /\ (copies'[n] > 1 => copies[n] > 0)

LEMMA EmitIs ==
  ASSUME PollInv, NEW n \in rest, NEW m, Emit(n, m), UNCHANGED <<kind, cfg, remote>>
  PROVE  Emitting(n, m)
<1>1. /\ n \in Items /\ n \in feed /\ feed \subseteq posted /\ ever \subseteq Items
      /\ copies[n] \in 0 .. 2 /\ ~OtherVersion(n, n)
  BY PollTypes DEF PollInv, Shape, TypeOK, OtherVersion
<1>2. \A i \in Items : copies'[i] = (IF OtherVersion(n, i) THEN 0
                                     ELSE IF i = n /\ copies[i] < 2 THEN copies[i] + 1
                                     ELSE copies[i])
  BY DEF Emit
<1>3. copies'[n] = (IF copies[n] < 2 THEN copies[n] + 1 ELSE copies[n])
  BY <1>1, <1>2
<1>4. copies'[n] > 0 /\ (copies'[n] > 1 => copies[n] > 0)
  BY <1>1, <1>3
<1>5. \A i \in Items : i # n => copies'[i] = (IF OtherVersion(n, i) THEN 0 ELSE copies[i])
  BY <1>2
<1> QED
  BY <1>1, <1>4, <1>5 DEF Emit, Handles, remote, Emitting

\* What an emission does to the promise about repeats.
LEMMA EmitNoRepeat ==
  ASSUME PollInv, NEW n, NEW m, Emitting(n, m),
         copies[n] > 0 => kind = Weather /\ n.time = 0,
         Cardinality(m.seen) \in Nat, Cardinality(m.seen) >= Cardinality(next.seen)
  PROVE  NoRepeatInALife'
<1>1. ASSUME NEW i \in Items, copies'[i] > 1 PROVE kind' = Weather /\ i.time = 0
  <2>1. CASE i = n
    BY <1>1, <2>1 DEF Emitting
  <2>2. CASE i # n
    BY <1>1, <2>2 DEF PollInv, NoRepeatInALife, Emitting
  <2> QED
    BY <2>1, <2>2
<1>2. ASSUME trimmed' # {}
      PROVE  /\ Cardinality({i.site : i \in ever'}) > SeenCap
             /\ Cardinality(next'.seen) >= SeenKeep
  <2>1. /\ Cardinality({i.site : i \in ever}) > SeenCap
        /\ Cardinality(next.seen) >= SeenKeep
    BY <1>2 DEF PollInv, NoRepeatInALife, Emitting
  <2>2. Cardinality({i.site : i \in ever}) <= Cardinality({i.site : i \in ever'})
    BY SitesGrow DEF Emitting
  <2>3. /\ Cardinality({i.site : i \in ever}) \in Nat
        /\ Cardinality({i.site : i \in ever'}) \in Nat
    BY SitesFinite DEF Emitting
  <2>4. SeenCap \in Nat /\ SeenKeep \in Int /\ Cardinality(next.seen) \in Nat
    BY PollerAssumption, SeenFinite
  <2>5. next'.seen = m.seen
    BY DEF Emitting
  <2>6. Cardinality({i.site : i \in ever'}) > SeenCap
    BY <2>1, <2>2, <2>3, <2>4
  <2>7. Cardinality(m.seen) >= SeenKeep
    BY <2>1, <2>4
  <2> QED
    BY <2>5, <2>6, <2>7
<1> QED
  BY <1>1, <1>2 DEF NoRepeatInALife

LEMMA EmitsMarkStep ==
  ASSUME PollInv, TypeOK', NEW n \in rest, EmitsMark(n), UNCHANGED <<kind, cfg, remote>>
  PROVE  PollInv'
<1>t. /\ Emitting(n, Marked(next, n)) /\ last' = last /\ kind # Weather
      /\ ~Covers(last, n)
  BY EmitIs DEF EmitsMark, Emit
<1>k. \A i : Key(i)' = Key(i)
  BY <1>t, KeyKept DEF Emitting
<1>n. /\ next'.seen = next.seen /\ next'.mark \in {next.mark, Key(n)}
      /\ next'.mark >= next.mark /\ next'.mark >= Key(n)
      /\ next'.mark \in Nat /\ next.mark \in Nat /\ last.mark \in Nat /\ cp.mark \in Nat
      /\ \A i \in Items : Key(i) \in Nat
  <2>1. next \in Memories /\ n \in Items /\ next' = Marked(next, n)
    BY <1>t, PollTypes DEF PollInv, Emitting
  <2>2. next'.mark \in Nat
    BY PollTypes, <2>1, MarkedIs DEF Memories
  <2> QED
    BY <2>1, <2>2, MarkedIs, PollTypes DEF PollInv
<1>o. /\ ~(Key(n) <= last.mark) /\ ~(copies[n] > 0)
      /\ \A i \in Items : copies[i] > 0 => Key(i) <= next.mark
      /\ \A i \in Items : copies[i] > 0 => (i \in rest => Key(i) <= last.mark)
  BY <1>t DEF PollInv, Once, Covers, Emitting
<1>1. Shape'
  <2>1. \A i \in Items : copies'[i] > 0 => i \in ever'
    BY <1>t DEF PollInv, Shape, Emitting, OtherVersion
  <2> QED
    BY <1>t, <2>1 DEF PollInv, Shape, Emitting
<1>2. Memory'
  <2>1. Remembers(last)' /\ Remembers(cp)'
    BY <1>t, <1>k DEF PollInv, Memory, Remembers, OnePerSite, Emitting
  <2>2. Remembers(next)'
    BY <1>t, <1>k, <1>n DEF PollInv, Memory, Remembers, OnePerSite, Emitting
  <2>3. last'.mark <= next'.mark
    <3>1. \A a, b, c \in Nat : a <= b /\ c >= b => a <= c
      OBVIOUS
    <3> QED
      BY <1>t, <1>n, <3>1 DEF PollInv, Memory
  <2> QED
    BY <1>t, <2>1, <2>2, <2>3 DEF Memory, Emitting
<1>3. Once'
  <2>1. ASSUME NEW i \in Items, copies'[i] > 0
        PROVE  Key(i) <= next'.mark /\ (i \in rest' => Key(i) <= last.mark)
    <3>1. CASE i = n
      BY <1>t, <1>n, <3>1 DEF Emitting
    <3>2. CASE i # n
      <4>1. Key(i) <= next.mark /\ (i \in rest => Key(i) <= last.mark)
        BY <1>t, <1>o, <2>1, <3>2 DEF Emitting, OtherVersion
      <4>2. Key(i) <= next'.mark
        BY <1>n, <4>1
      <4> QED
        BY <1>t, <4>1, <4>2 DEF Emitting
    <3> QED
      BY <3>1, <3>2
  <2> QED
    BY <1>t, <1>k, <2>1 DEF Once, Emitting
<1>4. NoRepeatInALife'
  <2>1. Marked(next, n).seen = next.seen
    BY <1>t, <1>n DEF Emitting
  <2>2. Cardinality(next.seen) \in Nat
    BY SeenFinite
  <2>3. \A k \in Nat : k >= k
    OBVIOUS
  <2> QED
    BY <1>t, <1>o, <2>1, <2>2, <2>3, EmitNoRepeat
<1>5. Known'
  <2>1. ~blind => cp.mark <= last.mark
    BY <1>t DEF PollInv, Known, Polling, Emitting
  <2>2. ASSUME ~blind, NEW i \in Items, Key(i) <= cp.mark PROVE Key(i) <= last.mark
    BY <1>n, <2>1, <2>2
  <2>3. ever' \subseteq Items
    BY <1>t DEF Emitting
  <2> QED
    BY <1>t, <1>k, <2>1, <2>2, <2>3 DEF Known, Covers, Emitting
<1>6. SkippedOnlyBehind'
  BY <1>t, <1>k DEF PollInv, SkippedOnlyBehind, Emitting
<1> QED
  BY <1>t, <1>1, <1>2, <1>3, <1>4, <1>5, <1>6 DEF PollInv, Configured, Emitting

LEMMA EmitsVersionStep ==
  ASSUME PollInv, TypeOK', NEW n \in rest, EmitsVersion(n), UNCHANGED <<kind, cfg, remote>>
  PROVE  PollInv'
<1>t. /\ Emitting(n, Versioned(next, n)) /\ last' = next' /\ kind = Weather
      /\ last = next /\ ~Covers(last, n)
  BY EmitIs DEF EmitsVersion, Emit, PollInv, Memory
<1>k. \A i : Key(i)' = Key(i)
  BY <1>t, KeyKept DEF Emitting
<1>n. /\ next'.seen = {j \in next.seen : j.site # n.site} \cup {n}
      /\ next'.mark = next.mark /\ next.mark \in Nat
  <2>1. next \in Memories /\ n \in Items /\ next' = Versioned(next, n)
    BY <1>t, PollTypes DEF PollInv, Emitting
  <2> QED
    BY <2>1, VersionedIs, PollTypes DEF PollInv
<1>o. /\ \A i \in Items : copies[i] > 0 => i.time = 0 \/ Covers(next, i)
      /\ \A i \in Items : i # n /\ copies'[i] > 0 =>
           copies[i] > 0 /\ (i.site = n.site => i.time = n.time)
      /\ n \in Items /\ n \in next'.seen
      /\ \A i : OtherVersion(i, n) <=> i.site = n.site /\ i.time # n.time
  <2>1. \A k \in 0 .. 2 : ~(0 > k) /\ ~(0 > 0)
    OBVIOUS
  <2> QED
    BY <1>t, <1>n, <2>1 DEF PollInv, Once, Emitting, OtherVersion
\* The memory covers the version published, and what it covered of other alerts.
<1>v. \A i : i.site = n.site /\ i.time = n.time /\ i.time # 0 => Covers(next', i)
  BY <1>t, <1>o DEF Covers
<1>w. \A i : i.site # n.site /\ Covers(next, i) => Covers(next', i)
  BY <1>t, <1>n DEF Covers
<1>1. Shape'
  <2>1. \A i \in Items : copies'[i] > 0 => i \in ever'
    BY <1>t, <1>o DEF PollInv, Shape, Emitting
  <2> QED
    BY <1>t, <2>1 DEF PollInv, Shape, Emitting
<1>2. Memory'
  <2>1. Remembers(cp)'
    BY <1>t, <1>k DEF PollInv, Memory, Remembers, OnePerSite, Emitting
  <2>2. Remembers(next)'
    BY <1>t, <1>k, <1>n DEF PollInv, Memory, Remembers, OnePerSite, Emitting
  <2>3. last'.mark <= next'.mark
    BY <1>t, <1>n
  <2> QED
    BY <1>t, <2>1, <2>2, <2>3 DEF Memory, Remembers
<1>3. Once'
  <2>1. ASSUME NEW i \in Items, copies'[i] > 0
        PROVE  i.time = 0 \/ Covers(next', i)
    <3>1. CASE i.site = n.site
      BY <1>o, <1>v, <2>1, <3>1
    <3>2. CASE i.site # n.site
      BY <1>o, <1>w, <2>1, <3>2
    <3> QED
      BY <3>1, <3>2
  <2>2. kind' = Weather
    BY <1>t DEF Emitting
  <2> QED
    BY <2>1, <2>2, <1>t DEF Once, Covers, Emitting
<1>4. NoRepeatInALife'
  <2>1. copies[n] > 0 => n.time = 0
    BY <1>t, <1>o
  <2>2. /\ Cardinality(next'.seen) \in Nat
        /\ Cardinality(next'.seen) >= Cardinality(next.seen)
    <3>1. OnePerSite(next) /\ IsFiniteSet(next.seen)
      BY SeenFinite DEF PollInv, Memory, Remembers
    <3> QED
      BY <1>n, <3>1, VersionedGrows
  <2>3. next' = Versioned(next, n)
    BY <1>t DEF Emitting
  <2> QED
    BY <1>t, <2>1, <2>2, <2>3, EmitNoRepeat
<1>5. Known'
  <2> SUFFICES ASSUME ~blind
               PROVE  /\ cp.mark <= last'.mark
                      /\ \A i \in ever' :
                           Covers(cp, i) => Covers(last', i) \/ Excused(i)'
    BY <1>t DEF Known, Covers, Emitting
  <2>1. /\ cp.mark <= last.mark
        /\ \A i \in ever : Covers(cp, i) => Covers(last, i) \/ Excused(i)
    BY <1>t DEF PollInv, Known, Polling, Emitting
  <2>2. ASSUME NEW i \in ever', Covers(cp, i), i.site = n.site
        PROVE  Covers(last', i) \/ Excused(i)'
    <3>1. CASE i.time = n.time
      <4>1. i.time # 0
        BY <1>t, <2>2 DEF Covers
      <4> QED
        BY <1>t, <1>v, <2>2, <3>1, <4>1
    <3>2. CASE i.time # n.time
      BY <1>t, <1>o, <2>2, <3>2 DEF Excused, OtherVersion, Emitting
    <3> QED
      BY <3>1, <3>2
  <2>3. ASSUME NEW i \in ever', Covers(cp, i), i.site # n.site
        PROVE  Covers(last', i) \/ Excused(i)'
    <3>1. i \in ever
      BY <1>t, <2>3 DEF Emitting
    <3>2. CASE Covers(last, i)
      BY <1>t, <1>w, <2>3, <3>2
    <3>3. CASE i.site \in trimmed
      BY <1>t, <2>3, <3>3 DEF Excused, Emitting
    <3>4. CASE \E j \in Items : copies[j] > 0 /\ OtherVersion(i, j)
      <4>1. PICK j \in Items : copies[j] > 0 /\ OtherVersion(i, j)
        BY <3>4
      <4>2. j.site # n.site
        BY <2>3, <4>1 DEF OtherVersion
      <4>3. copies'[j] > 0
        BY <1>t, <4>1, <4>2 DEF Emitting, OtherVersion
      <4> QED
        BY <1>t, <4>1, <4>3 DEF Excused, OtherVersion, Emitting
    <3> QED
      BY <2>1, <2>3, <3>1, <3>2, <3>3, <3>4 DEF Excused
  <2>4. cp.mark <= last'.mark
    BY <1>t, <1>n, <2>1
  <2> QED
    BY <2>2, <2>3, <2>4
<1>6. SkippedOnlyBehind'
  BY <1>t, <1>k DEF PollInv, SkippedOnlyBehind, Emitting
<1> QED
  BY <1>t, <1>1, <1>2, <1>3, <1>4, <1>5, <1>6 DEF PollInv, Configured, Emitting

LEMMA EndsStep ==
  ASSUME PollInv, TypeOK', NEW kept \in SUBSET next.seen, Ends(kept),
         UNCHANGED <<kind, cfg, remote>>
  PROVE  PollInv'
<1>t. /\ kind' = kind /\ cfg' = cfg /\ feed' = feed /\ posted' = posted
      /\ rest' = {} /\ last' = next' /\ cp' \in {next', cp}
      /\ pc = "handle" /\ pc' = "wait" /\ blind' = blind
      /\ ever' = ever /\ missed' = missed
      /\ trimmed' = trimmed \cup {i.site : i \in next.seen \ kept}
      /\ \A i \in Items : copies'[i] = (IF \E j \in next.seen \ kept : j.site = i.site
                                        THEN 0 ELSE copies[i])
      /\ kind # Weather => kept = next.seen
      /\ kept = next.seen \/ (Cardinality(next.seen) > SeenCap /\ Cardinality(kept) >= SeenKeep)
  BY DEF Ends, Drops, remote
<1>c. /\ \A i \in Items : copies'[i] \in {0, copies[i]} /\ (copies'[i] > 0 => copies[i] > 0)
      /\ \A i \in Items : copies'[i] > 1 => copies[i] > 1
  <2>1. ~(0 > 0) /\ ~(0 > 1)
    OBVIOUS
  <2> QED
    BY <1>t, <2>1
<1>k. \A i : Key(i)' = Key(i)
  BY <1>t, KeyKept
<1>n. /\ next'.seen = kept /\ next'.mark = next.mark
      /\ next.mark \in Nat /\ last.mark \in Nat /\ cp.mark \in Nat
      /\ last.mark <= next.mark /\ \A i \in Items : Key(i) \in Nat
      /\ feed \subseteq Items
  <2>1. next \in Memories /\ next' = [next EXCEPT !.seen = kept]
    BY PollTypes DEF Ends, PollInv
  <2> QED
    BY <2>1, PollTypes DEF Memories, PollInv, Memory
<1>1. Shape'
  BY <1>t, <1>c DEF PollInv, Shape
<1>2. Memory'
  <2>1. Remembers(next)'
    BY <1>t, <1>k, <1>n DEF PollInv, Memory, Remembers, OnePerSite
  <2>2. Remembers(cp)'
    BY <1>t, <1>k, <2>1 DEF PollInv, Memory, Remembers, OnePerSite
  <2> QED
    BY <1>t, <1>n, <2>1, <2>2 DEF Memory, Remembers
<1>3. Once'
  <2>1. CASE kind = Weather
    <3>1. ASSUME NEW i \in Items, copies'[i] > 0
          PROVE  i.time = 0 \/ Covers(next', i)
      <4>1. i.time = 0 \/ Covers(next, i)
        BY <1>c, <2>1, <3>1 DEF PollInv, Once
      <4>2. ~\E j \in next.seen \ kept : j.site = i.site
        <5>1. ~(0 > 0)
          OBVIOUS
        <5> QED
          BY <1>t, <3>1, <5>1
      <4> QED
        BY <1>n, <2>1, <4>1, <4>2 DEF Covers
    <3> QED
      BY <1>t, <2>1, <3>1 DEF Once, Covers
  <2>2. CASE kind # Weather
    BY <1>t, <1>c, <1>k, <1>n, <2>2 DEF PollInv, Once
  <2> QED
    BY <2>1, <2>2
<1>4. NoRepeatInALife'
  <2>1. CASE kept = next.seen
    BY <1>t, <1>c, <1>n, <2>1 DEF PollInv, NoRepeatInALife
  <2>2. CASE Cardinality(next.seen) > SeenCap /\ Cardinality(kept) >= SeenKeep
    <3>1. Cardinality(next.seen) <= Cardinality({i.site : i \in ever})
      BY SeenBySite, PollTypes DEF PollInv, Memory, Remembers
    <3>2. Cardinality({i.site : i \in ever}) \in Nat /\ Cardinality(next.seen) \in Nat
      BY SitesFinite, SeenFinite, PollTypes DEF PollInv
    <3>3. Cardinality({i.site : i \in ever}) > SeenCap
      BY <2>2, <3>1, <3>2, PollerAssumption
    <3> QED
      BY <1>t, <1>c, <1>n, <2>2, <3>3 DEF PollInv, NoRepeatInALife
  <2> QED
    BY <1>t, <2>1, <2>2
<1>5. Known'
  <2> SUFFICES ASSUME ~blind
               PROVE  /\ cp'.mark <= last'.mark
                      /\ \A i \in ever :
                           Covers(cp', i) => Covers(last', i) \/ Excused(i)'
    BY <1>t, <1>k DEF Known, Covers
  <2>1. /\ cp.mark <= last.mark
        /\ \A i \in ever : Covers(cp, i) => Covers(last, i) \/ Excused(i)
    BY <1>t DEF PollInv, Known, Polling
  <2>2. cp.mark <= next.mark
    BY <1>n, <2>1
  <2>3. cp'.mark <= last'.mark
    BY <1>t, <1>n, <2>2
  <2>4. ASSUME NEW i \in ever, Covers(cp', i)
        PROVE  Covers(last', i) \/ Excused(i)'
    <3>1. CASE kind = Weather /\ cp' = cp
      <4>1. Covers(next, i) \/ Excused(i)
        BY <2>1, <2>4, <3>1 DEF PollInv, Memory
      <4>2. Covers(next, i) => Covers(last', i) \/ i.site \in trimmed'
        BY <1>t, <1>n, <3>1 DEF Covers
      <4>3. ASSUME NEW j \in Items, copies[j] > 0, OtherVersion(i, j) PROVE Excused(i)'
        <5>1. CASE \E k \in next.seen \ kept : k.site = j.site
          BY <1>t, <4>3, <5>1 DEF Excused, OtherVersion
        <5>2. CASE ~\E k \in next.seen \ kept : k.site = j.site
          <6>1. copies'[j] > 0
            BY <1>t, <4>3, <5>2
          <6> QED
            BY <1>t, <4>3, <6>1 DEF Excused, OtherVersion
        <5> QED
          BY <5>1, <5>2
      <4>4. i.site \in trimmed => i.site \in trimmed'
        BY <1>t
      <4> QED
        BY <4>1, <4>2, <4>3, <4>4 DEF Excused
    <3>2. CASE kind # Weather /\ cp' = cp
      <4>1. Key(i) <= cp.mark /\ Key(i) \in Nat
        <5>1. i \in Items
          BY PollTypes DEF PollInv
        <5> QED
          BY <1>n, <2>4, <3>2, <5>1 DEF Covers
      <4>2. Key(i) <= next.mark
        BY <1>n, <2>2, <4>1
      <4> QED
        BY <1>t, <1>n, <3>2, <4>2 DEF Covers
    <3>3. CASE cp' = next'
      BY <1>t, <2>4, <3>3
    <3> QED
      BY <1>t, <3>1, <3>2, <3>3
  <2> QED
    BY <2>3, <2>4
<1>6. SkippedOnlyBehind'
  <2>1. Remembers(cp)'
    BY <1>2 DEF Memory
  <2> QED
    BY <1>t, <1>k, <2>1 DEF PollInv, SkippedOnlyBehind, Remembers
<1> QED
  BY <1>t, <1>1, <1>2, <1>3, <1>4, <1>5, <1>6 DEF PollInv, Configured

LEMMA FeedStep ==
  ASSUME PollInv, TypeOK', FeedChanges
  PROVE  PollInv'
<1>t. /\ kind' = kind /\ cfg' = cfg /\ rest' = {} /\ rest = {}
      /\ last' = last /\ next' = next /\ cp' = cp
      /\ pc = "request" /\ pc' = pc /\ blind' = blind
      /\ copies' = copies /\ ever' = ever /\ missed' = missed /\ trimmed' = trimmed
      /\ feed \subseteq posted /\ ever \subseteq posted
  BY DEF FeedChanges, env, memory, history, PollInv, Shape, TypeOK
<1>k. \A i : Key(i)' = Key(i)
  BY <1>t, KeyKept
<1>f. posted \subseteq posted'
  <2>1. PICK n \in ItemsOf[kind] : Post(n) \/ Retire(n)
    BY DEF FeedChanges
  <2>2. CASE Retire(n)
    BY <2>2 DEF Retire
  <2>3. CASE Post(n)
    BY <2>3 DEF Post
  <2> QED
    BY <2>1, <2>2, <2>3
<1>1. Shape'
  BY <1>t, <1>f DEF PollInv, Shape
<1>2. Memory'
  BY <1>t, <1>k DEF PollInv, Memory, Remembers, OnePerSite
<1>3. Once'
  BY <1>t, <1>k DEF PollInv, Once, Covers
<1>4. NoRepeatInALife'
  BY <1>t DEF PollInv, NoRepeatInALife
<1>5. Known'
  BY <1>t, <1>k DEF PollInv, Known, Covers, Excused, OtherVersion
<1>6. SkippedOnlyBehind'
  BY <1>t, <1>k DEF PollInv, SkippedOnlyBehind
<1> QED
  BY <1>t, <1>1, <1>2, <1>3, <1>4, <1>5, <1>6 DEF PollInv, Configured

LEMMA RestartStep ==
  ASSUME PollInv, TypeOK', Restart
  PROVE  PollInv'
<1>t. /\ kind' = kind /\ cfg' = cfg /\ feed' = feed /\ posted' = posted
      /\ rest' = {} /\ last' = Nothing /\ next' = Nothing /\ cp' \in {cp, Nothing}
      /\ pc' = "start" /\ copies' = [i \in Items |-> 0] /\ trimmed' = {}
      /\ ever' = ever /\ missed' = missed
  BY DEF Restart, remote
<1>k. \A i : Key(i)' = Key(i)
  BY <1>t, KeyKept
<1>n. \A i \in Items : copies'[i] = 0 /\ ~(copies'[i] > 0) /\ ~(copies'[i] > 1)
  BY <1>t
<1>1. Shape'
  BY <1>t, <1>n DEF PollInv, Shape
<1>2. Memory'
  <2>1. Remembers(last)' /\ Remembers(next)'
    BY <1>t, NothingIs DEF Remembers, OnePerSite
  <2>2. Remembers(cp)'
    BY <1>t, <1>k, NothingIs DEF PollInv, Memory, Remembers, OnePerSite
  <2>3. last'.mark <= next'.mark
    BY <1>t, NothingIs
  <2> QED
    BY <1>t, <2>1, <2>2, <2>3 DEF Memory
<1>3. Once'
  BY <1>t, <1>n DEF PollInv, Once, Covers
<1>4. NoRepeatInALife'
  BY <1>t, <1>n DEF NoRepeatInALife
<1>5. Known'
  BY <1>t DEF Known, Polling
<1>6. SkippedOnlyBehind'
  <2>1. Remembers(cp)'
    BY <1>2 DEF Memory
  <2> QED
    BY <1>t, <1>k, <2>1 DEF PollInv, SkippedOnlyBehind, Remembers
<1> QED
  BY <1>t, <1>1, <1>2, <1>3, <1>4, <1>5, <1>6 DEF PollInv, Configured

-----------------------------------------------------------------------------
(***************************************************************************)
(* Types, and the invariant in every behaviour                             *)
(***************************************************************************)
LEMMA DefaultsIs ==
  ASSUME NEW c \in RawConfigs
  PROVE  Defaults(c) \in [period : Nat \ {0}, limit : Int, minimum : Int]
<1>1. c \in [period : Int, limit : Int, minimum : Int]
  BY PollerAssumption
<1>2. PICK p \in Nat \ {0} : p = IF c.period <= 0 THEN 15 ELSE c.period
  BY <1>1
<1>3. PICK l \in Int : l = IF c.limit <= 0 THEN 200 ELSE c.limit
  BY <1>1
<1>4. Defaults(c) = [[c EXCEPT !.period = p] EXCEPT !.limit = l]
  BY <1>1, <1>2, <1>3, Zenon DEF Defaults
<1> QED
  BY <1>1, <1>4

LEMMA InitPoll ==
  ASSUME NEW place \in {"start", "returned"}, NEW isCancelled \in BOOLEAN,
         NEW lives \in 1 .. MaxLives, InitAt(place, isCancelled, lives)
  PROVE  PollInv
<1>t. /\ kind \in Kinds /\ durable \in BOOLEAN /\ secret \in BOOLEAN
      /\ feed = {} /\ posted = {} /\ pc = place /\ cancelled = isCancelled
      /\ attempt = 0 /\ rest = {} /\ last = Nothing /\ next = Nothing
      /\ emitted = FALSE /\ cp = Nothing /\ life = lives /\ blind = FALSE
      /\ copies = [i \in Items |-> 0] /\ ever = {} /\ missed = {} /\ trimmed = {}
  BY DEF InitAt
<1>n. \A i \in Items : copies[i] = 0 /\ ~(copies[i] > 0) /\ ~(copies[i] > 1)
  BY <1>t
<1>1. TypeOK
  <2>1. 0 \in 0 .. MaxRetries
    BY PollerAssumption
  <2>2. copies \in [Items -> 0 .. 2]
    BY <1>t
  <2> QED
    BY <1>t, <2>1, <2>2, NothingIs DEF TypeOK
<1>2. Configured
  BY DefaultsIs DEF InitAt, Configured
<1>3. Shape
  BY <1>t, <1>n DEF Shape
<1>4. Memory
  BY <1>t, NothingIs DEF Memory, Remembers, OnePerSite
<1>5. Once
  BY <1>t, <1>n DEF Once
<1>6. NoRepeatInALife
  BY <1>t, <1>n DEF NoRepeatInALife
<1>7. Known
  BY <1>t DEF Known, Polling
<1>8. SkippedOnlyBehind
  BY <1>t, NothingIs DEF SkippedOnlyBehind
<1> QED
  BY <1>1, <1>2, <1>3, <1>4, <1>5, <1>6, <1>7, <1>8 DEF PollInv

\* A step of Run keeps the types.
LEMMA RunTypes ==
  ASSUME PollInv, Run
  PROVE  TypeOK'
<1>t. /\ TypeOK /\ MaxRetries \in Nat
      /\ UNCHANGED <<kind, cfg, secret, durable, feed, posted, cancelled, life>>
  BY PollerAssumption DEF PollInv, Run, env, remote
<1>m. /\ last \in Memories /\ next \in Memories /\ cp \in Memories
      /\ rest \subseteq feed /\ feed \subseteq Items /\ rest \subseteq Items
      /\ copies \in [Items -> 0 .. 2] /\ next.seen \subseteq Items
  BY <1>t, PollTypes DEF PollInv, Shape
<1>1. CASE Rests
  BY <1>t, <1>1 DEF Rests, TypeOK, memory, history
<1>2. CASE Loads
  BY <1>t, <1>m, <1>2, NothingIs DEF Loads, TypeOK
<1>3. CASE Takes
  <2>1. attempt' \in 0 .. MaxRetries
    BY <1>t, <1>3 DEF Takes
  <2>2. rest' \subseteq Items /\ next' \in Memories
    BY <1>m, <1>3 DEF Takes
  <2> QED
    BY <1>t, <1>3, <2>1, <2>2 DEF Takes, TypeOK, history
<1>4. CASE Breaks
  BY <1>t, <1>4 DEF Breaks, TypeOK, history
<1>5. ASSUME NEW n \in rest, PassesOver(n) PROVE TypeOK'
  BY <1>t, <1>m, <1>5 DEF PassesOver, PassOver, Handles, TypeOK
<1>6. ASSUME NEW n \in rest, NEW m \in Memories, Emit(n, m) PROVE TypeOK'
  <2>1. copies' \in [Items -> 0 .. 2]
    <3> SUFFICES ASSUME NEW j \in Items
                 PROVE  (IF OtherVersion(n, j) THEN 0
                         ELSE IF j = n /\ copies[j] < 2 THEN copies[j] + 1
                         ELSE copies[j]) \in 0 .. 2
      BY <1>6 DEF Emit
    <3>1. copies[j] \in 0 .. 2
      BY <1>m
    <3> QED
      BY <3>1
  <2> QED
    BY <1>t, <1>m, <1>6, <2>1 DEF Emit, Handles, TypeOK
<1>7. ASSUME NEW n \in rest, EmitsMark(n) \/ EmitsVersion(n) PROVE TypeOK'
  BY <1>m, <1>6, <1>7, MarkedIs, VersionedIs DEF EmitsMark, EmitsVersion
<1>8. ASSUME NEW kept \in SUBSET next.seen, Ends(kept) PROVE TypeOK'
  <2>1. next' \in Memories
    BY <1>m, <1>8 DEF Ends, Memories
  <2>2. trimmed' \subseteq 1 .. 9
    BY <1>t, <1>m, <1>8, ItemShape DEF Ends, Drops, TypeOK
  <2>3. copies' \in [Items -> 0 .. 2]
    BY <1>m, <1>8 DEF Ends, Drops
  <2> QED
    BY <1>t, <1>m, <1>8, <2>1, <2>2, <2>3 DEF Ends, TypeOK
<1> QED
  BY <1>t, <1>1, <1>2, <1>3, <1>4, <1>5, <1>7, <1>8, RunCases, SeenFinite DEF PollInv

LEMMA OtherTypes ==
  ASSUME PollInv, FeedChanges \/ Cancel \/ Restart \/ UNCHANGED vars
  PROVE  TypeOK'
<1>t. TypeOK /\ MaxRetries \in Nat /\ MaxLives \in Nat /\ life \in 1 .. MaxLives
  BY PollerAssumption DEF PollInv, TypeOK
<1>1. CASE FeedChanges
  <2>1. PICK n \in ItemsOf[kind] : Post(n) \/ Retire(n)
    BY <1>1 DEF FeedChanges
  <2>2. n \in Items
    BY <1>t DEF Items, TypeOK
  <2>3. feed' \subseteq posted' /\ posted' \subseteq Items
    BY <1>t, <2>1, <2>2 DEF Post, Retire, TypeOK
  <2> QED
    BY <1>t, <1>1, <2>3 DEF FeedChanges, TypeOK, env, memory, history
<1>2. CASE Cancel
  BY <1>t, <1>2 DEF Cancel, TypeOK, env, remote, memory, history
<1>3. CASE Restart
  <2>1. life' \in 1 .. MaxLives
    BY <1>t, <1>3 DEF Restart
  <2>2. copies' \in [Items -> 0 .. 2] /\ 0 \in 0 .. MaxRetries
    BY <1>t, <1>3 DEF Restart
  <2>3. secret' \in BOOLEAN /\ cp' \in {cp, Nothing}
    BY <1>3 DEF Restart
  <2> QED
    BY <1>t, <1>3, <2>1, <2>2, <2>3, NothingIs DEF Restart, TypeOK, remote
<1>4. CASE UNCHANGED vars
  BY <1>t, <1>4 DEF vars, TypeOK, env, remote, memory, history
<1> QED
  BY <1>1, <1>2, <1>3, <1>4

LEMMA PollStep ==
  ASSUME PollInv, [Next]_vars
  PROVE  PollInv'
<1>1. CASE Run
  <2>1. TypeOK' /\ UNCHANGED <<kind, cfg, remote>>
    BY <1>1, RunTypes DEF Run, env
  <2>2. CASE Rests
    BY <2>1, <2>2, QuietStep DEF Rests, memory, history
  <2>3. CASE Loads \/ Takes \/ Breaks
    BY <2>1, <2>3, LoadsStep, TakesStep, BreaksStep
  <2>4. ASSUME NEW n \in rest, PassesOver(n) \/ EmitsMark(n) \/ EmitsVersion(n)
        PROVE  PollInv'
    BY <2>1, <2>4, PassesOverStep, EmitsMarkStep, EmitsVersionStep
  <2>5. ASSUME NEW kept \in SUBSET next.seen, Ends(kept) PROVE PollInv'
    BY <2>1, <2>5, EndsStep
  <2>6. TypeOK /\ Configured
    BY DEF PollInv
  <2> QED
    BY <1>1, <2>2, <2>3, <2>4, <2>5, <2>6, RunCases, SeenFinite
<1>2. CASE FeedChanges
  BY <1>2, OtherTypes, FeedStep
<1>3. CASE Restart
  BY <1>3, OtherTypes, RestartStep
<1>4. CASE Cancel
  <2>1. TypeOK'
    BY <1>4, OtherTypes
  <2> QED
    BY <1>4, <2>1, QuietStep DEF Cancel, env, remote, memory, history
<1>5. CASE UNCHANGED vars
  <2>1. TypeOK'
    BY <1>5, OtherTypes
  <2> QED
    BY <1>5, <2>1, QuietStep DEF vars, env, remote, memory, history
<1> QED
  BY <1>1, <1>2, <1>3, <1>4, <1>5 DEF Next

LEMMA NextAllIs == [NextAll]_allVars => [Next]_vars
BY DEF NextAll, allVars

LEMMA InitAllPoll == InitAll => PollInv
<1>1. 1 \in 1 .. MaxLives /\ MaxLives \in 1 .. MaxLives
  BY PollerAssumption
<1> QED
  BY <1>1, InitPoll DEF InitAll, Init

LEMMA PollInvariant == SpecAll => []PollInv
<1>1. PollInv /\ [NextAll]_allVars => PollInv'
  BY NextAllIs, PollStep
<1> QED
  BY <1>1, InitAllPoll, PTL DEF SpecAll

\* Every variable of a pull connector has its type, no ticker gets a period it
\* panics on and no request is tried more often than MaxRetries allows, for
\* any configuration that Validate accepts (connectors/*, sdkhttp).
THEOREM TypeCorrect == SpecAll => []TypeOK
BY PollInvariant, PTL DEF PollInv

\* Within a life no item is published twice, whatever the feed lists when,
\* stale copies included, however requests fail and saves fail, but by
\* noaaweather: alerts without a sent time, versions after another of the same
\* alert, and alerts trimmed, which happens above SeenCap only and leaves
\* SeenKeep (poll and pollOnce of connectors/*, saveSeen).
THEOREM NothingRepeats == SpecAll => []NoRepeatInALife
BY PollInvariant, PTL DEF PollInv

\* What is passed over for good is refused, or behind what was published, and
\* no checkpoint is ahead of what was published (connectors/*, context.go).
THEOREM SkipsAreBehind == SpecAll => []SkippedOnlyBehind
BY PollInvariant, PTL DEF PollInv

-----------------------------------------------------------------------------
(***************************************************************************)
(* What steps may do to checkpoints and repetitions                        *)
(***************************************************************************)
\* What was published in any life is published again only if no saved
\* checkpoint covers it or the checkpoint could not be loaded, but for what
\* noaaweather has trimmed or published another version of, for every
\* interleaving of crashes, failed saves and failed loads (context.go
\* Checkpoint, LoadCheckpoint).
THEOREM RepeatsAreUnsaved == SpecAll => RepeatMeansUnsaved
<1> DEFINE Unsaved == \A i \in ever : copies'[i] > copies[i] =>
             \/ ~Covers(cp, i) \/ blind \/ i.site \in trimmed
             \/ \E j \in Items : copies[j] > 0 /\ OtherVersion(i, j)
<1>1. ASSUME PollInv, [NextAll]_allVars PROVE [Unsaved]_vars
  <2> SUFFICES ASSUME NEW n \in ever, copies'[n] > copies[n], Covers(cp, n), ~blind
               PROVE  Excused(n)
    BY DEF Excused
  <2>t. /\ TypeOK /\ Configured /\ n \in Items /\ copies[n] \in 0 .. 2
        /\ copies \in [Items -> 0 .. 2] /\ ~(copies[n] > copies[n]) /\ ~(0 > copies[n])
    <3>1. n \in Items /\ copies[n] \in 0 .. 2
      BY <1>1, PollTypes DEF PollInv
    <3>2. \A k \in 0 .. 2 : ~(k > k) /\ ~(0 > k)
      OBVIOUS
    <3> QED
      BY <1>1, <3>1, <3>2, PollTypes DEF PollInv
  <2>1. copies' # copies
    BY <2>t
  <2>2. Next
    BY <1>1, <2>1, NextAllIs DEF vars, history
  <2>3. ASSUME Restart PROVE FALSE
    <3>1. copies' = [i \in Items |-> 0]
      BY <2>3 DEF Restart
    <3>2. copies'[n] = 0
      BY <2>t, <3>1
    <3> QED
      BY <2>t, <3>2
  <2>4. Run
    BY <2>1, <2>2, <2>3 DEF Next, FeedChanges, Cancel, history
  <2>5. ASSUME NEW kept \in SUBSET next.seen, Ends(kept) PROVE FALSE
    <3>1. copies'[n] \in {0, copies[n]}
      BY <2>t, <2>5 DEF Ends, Drops
    <3> QED
      BY <2>t, <3>1
  <2>6. PICK m \in rest : EmitsMark(m) \/ EmitsVersion(m)
    BY <1>1, <2>t, <2>1, <2>4, <2>5, RunCases, SeenFinite
       DEF Rests, Loads, Takes, Breaks, PassesOver, PassOver, history
  <2>7. UNCHANGED <<kind, cfg, remote>>
    BY <2>4 DEF Run, env
  <2>8. (\E k : Emitting(m, k)) /\ ~Covers(last, m) /\ pc = "handle"
    BY <1>1, <2>6, <2>7, EmitIs DEF EmitsMark, EmitsVersion, Emit, Handles
  <2>9. m = n
    BY <2>t, <2>8 DEF Emitting
  <2>10. Covers(cp, n) => Covers(last, n) \/ Excused(n)
    BY <1>1, <2>8, <2>9 DEF PollInv, Known, Polling
  <2> QED
    BY <2>8, <2>9, <2>10
<1> QED
  BY <1>1, PollInvariant, PTL DEF SpecAll, RepeatMeansUnsaved

\* A saved watermark never goes back in a life that could load it, whatever
\* the feed lists and however saves fail (connectors/*, context.go).
THEOREM WatermarkNeverFalls == SpecAll => CheckpointAdvances
<1> DEFINE Advances == life' = life /\ ~blind => cp'.mark >= cp.mark
<1>1. ASSUME PollInv, [NextAll]_allVars PROVE [Advances]_vars
  <2> SUFFICES ASSUME life' = life, ~blind, cp' # cp
               PROVE  cp'.mark >= cp.mark
    <3>1. cp.mark \in Nat
      BY <1>1, PollTypes DEF PollInv
    <3> QED
      BY <3>1
  <2>t. /\ TypeOK /\ Configured /\ life \in Nat
        /\ next \in Memories /\ next.mark \in Nat /\ last.mark \in Nat /\ cp.mark \in Nat
    BY <1>1, PollTypes, PollerAssumption DEF PollInv, TypeOK
  <2>1. Next
    BY <1>1, NextAllIs DEF vars
  <2>2. ASSUME Restart PROVE FALSE
    <3>1. life' = life + 1
      BY <2>2 DEF Restart
    <3>2. \A k \in Nat : k + 1 # k
      OBVIOUS
    <3> QED
      BY <2>t, <3>1, <3>2
  <2>3. Run
    BY <2>1, <2>2 DEF Next, FeedChanges, Cancel
  <2>4. PICK kept \in SUBSET next.seen : Ends(kept)
    BY <1>1, <2>t, <2>3, RunCases, SeenFinite
       DEF Rests, Loads, Takes, Breaks, PassesOver, PassOver, EmitsMark, EmitsVersion,
           Emit, Handles
  <2>5. cp'.mark = next.mark
    BY <2>t, <2>4 DEF Ends, Memories
  <2>6. cp.mark <= last.mark /\ last.mark <= next.mark
    BY <1>1, <2>4 DEF Ends, PollInv, Known, Memory, Polling
  <2> QED
    BY <2>t, <2>5, <2>6
<1> QED
  BY <1>1, PollInvariant, PTL DEF SpecAll, CheckpointAdvances

-----------------------------------------------------------------------------
(***************************************************************************)
(* The listeners.  Nothing that was sent is ever out of account; and while *)
(* postgres listens, a channel is subscribed to or still to be.            *)
(***************************************************************************)
LEMMA EmptyRange == L!Range(<<>>) = {}
BY DEF L!Range

LEMMA AppendRange ==
  ASSUME NEW S, NEW s \in Seq(S), NEW e \in S
  PROVE  L!Range(Append(s, e)) = L!Range(s) \cup {e} /\ Append(s, e) \in Seq(S)
<1>1. /\ Append(s, e) \in Seq(S) /\ Len(Append(s, e)) = Len(s) + 1 /\ Len(s) \in Nat
      /\ Append(s, e)[Len(s) + 1] = e /\ DOMAIN s = 1 .. Len(s)
      /\ DOMAIN Append(s, e) = 1 .. Len(s) + 1
      /\ \A i \in 1 .. Len(s) : Append(s, e)[i] = s[i]
  BY AppendProperties, LenProperties
<1>2. 1 .. Len(s) + 1 = (1 .. Len(s)) \cup {Len(s) + 1}
  BY <1>1
<1> QED
  BY <1>1, <1>2 DEF L!Range

LEMMA HeadTailRange ==
  ASSUME NEW S, NEW s \in Seq(S), s # <<>>
  PROVE  /\ Head(s) \in S /\ Tail(s) \in Seq(S)
         /\ L!Range(s) = {Head(s)} \cup L!Range(Tail(s))
<1>1. /\ Head(s) \in S /\ Tail(s) \in Seq(S) /\ Head(s) = s[1]
      /\ Len(s) \in Nat /\ Len(s) > 0 /\ Len(Tail(s)) = Len(s) - 1
      /\ \A i \in 1 .. Len(Tail(s)) : Tail(s)[i] = s[i + 1]
      /\ DOMAIN s = 1 .. Len(s) /\ DOMAIN Tail(s) = 1 .. Len(s) - 1
  BY HeadTailProperties, EmptySeq, LenProperties
<1>2. \A n \in Nat : n > 0 =>
        /\ 1 \in 1 .. n
        /\ \A i \in 1 .. n : i = 1 \/ (i - 1 \in 1 .. n - 1 /\ (i - 1) + 1 = i)
        /\ \A i \in 1 .. n - 1 : i + 1 \in 1 .. n
  OBVIOUS
<1>3. ASSUME NEW i \in 1 .. Len(s) PROVE s[i] \in {Head(s)} \cup L!Range(Tail(s))
  <2>1. CASE i = 1
    BY <1>1, <2>1
  <2>2. CASE i # 1
    <3>1. i - 1 \in 1 .. Len(s) - 1 /\ (i - 1) + 1 = i
      BY <1>1, <1>2, <2>2
    <3>2. Tail(s)[i - 1] = s[i] /\ i - 1 \in DOMAIN Tail(s)
      BY <1>1, <3>1
    <3> QED
      BY <3>2 DEF L!Range
  <2> QED
    BY <2>1, <2>2
<1>4. ASSUME NEW i \in 1 .. Len(s) - 1 PROVE Tail(s)[i] \in L!Range(s)
  BY <1>1, <1>2 DEF L!Range
<1>5. Head(s) \in L!Range(s)
  BY <1>1, <1>2 DEF L!Range
<1> QED
  BY <1>1, <1>3, <1>4, <1>5 DEF L!Range

LEMMA RemoveAtRange ==
  ASSUME NEW S, NEW s \in Seq(S), NEW k \in DOMAIN s
  PROVE  /\ L!RemoveAt(s, k) \in Seq(S)
         /\ L!Range(s) \subseteq L!Range(L!RemoveAt(s, k)) \cup {s[k]}
<1> DEFINE a == SubSeq(s, 1, k - 1)
           b == SubSeq(s, k + 1, Len(s))
<1>1. Len(s) \in Nat /\ DOMAIN s = 1 .. Len(s) /\ k \in 1 .. Len(s) /\ k \in Nat
  BY LenProperties
<1>2. /\ a \in Seq(S) /\ Len(a) = k - 1
      /\ \A i \in 1 .. k - 1 : a[i] = s[i]
  BY <1>1, SubSeqProperties
<1>3. /\ b \in Seq(S) /\ Len(b) = Len(s) - k
      /\ \A i \in 1 .. Len(s) - k : b[i] = s[k + i]
  BY <1>1, SubSeqProperties
<1> HIDE DEF a, b
<1>4. /\ a \o b \in Seq(S) /\ Len(a \o b) = Len(s) - 1
      /\ \A i \in 1 .. k - 1 : (a \o b)[i] = s[i]
      /\ \A i \in 1 .. Len(s) - k : (a \o b)[k - 1 + i] = s[k + i]
  <2>1. /\ a \o b \in Seq(S) /\ Len(a \o b) = Len(a) + Len(b)
        /\ \A i \in 1 .. Len(a) + Len(b) :
             (a \o b)[i] = (IF i <= Len(a) THEN a[i] ELSE b[i - Len(a)])
    BY <1>2, <1>3, ConcatProperties
  <2>2. Len(a) + Len(b) = Len(s) - 1
    BY <1>1, <1>2, <1>3
  <2>3. ASSUME NEW i \in 1 .. k - 1 PROVE (a \o b)[i] = s[i]
    <3>1. i \in 1 .. Len(a) + Len(b) /\ i <= Len(a)
      BY <1>1, <1>2, <2>2
    <3> QED
      BY <1>2, <2>1, <3>1
  <2>4. ASSUME NEW i \in 1 .. Len(s) - k PROVE (a \o b)[k - 1 + i] = s[k + i]
    <3>1. /\ k - 1 + i \in 1 .. Len(a) + Len(b) /\ ~(k - 1 + i <= Len(a))
          /\ (k - 1 + i) - Len(a) = i
      BY <1>1, <1>2, <2>2, SMTT(30)
    <3>2. (a \o b)[k - 1 + i] = b[i]
      BY <2>1, <3>1
    <3> QED
      BY <1>3, <3>2
  <2> QED
    BY <2>1, <2>2, <2>3, <2>4
<1>5. DOMAIN (a \o b) = 1 .. Len(s) - 1
  BY <1>4, LenProperties
<1>6. ASSUME NEW i \in 1 .. Len(s), i # k
      PROVE  \E j \in 1 .. Len(s) - 1 : (a \o b)[j] = s[i]
  <2>1. CASE i < k
    <3>1. i \in 1 .. k - 1 /\ i \in 1 .. Len(s) - 1
      BY <1>1, <2>1
    <3> QED
      BY <1>4, <3>1
  <2>2. CASE i > k
    <3>1. i - k \in 1 .. Len(s) - k /\ k - 1 + (i - k) = i - 1 /\ k + (i - k) = i
          /\ i - 1 \in 1 .. Len(s) - 1
      BY <1>1, <2>2
    <3> QED
      BY <1>4, <3>1
  <2>3. i < k \/ i > k
    <3>1. \A m, n \in Nat : m # n => m < n \/ m > n
      OBVIOUS
    <3>2. i \in Nat
      BY <1>1
    <3> QED
      BY <1>1, <1>6, <3>1, <3>2
  <2> QED
    BY <2>1, <2>2, <2>3
<1>7. L!RemoveAt(s, k) = a \o b
  BY DEF L!RemoveAt, a, b
<1>8. ASSUME NEW e \in L!Range(s) PROVE e \in L!Range(a \o b) \cup {s[k]}
  <2>1. PICK i \in 1 .. Len(s) : e = s[i]
    BY <1>1 DEF L!Range
  <2>2. CASE i = k
    BY <2>1, <2>2
  <2>3. CASE i # k
    BY <1>5, <1>6, <2>1, <2>3 DEF L!Range
  <2> QED
    BY <2>2, <2>3
<1> QED
  BY <1>4, <1>7, <1>8

ListenInv ==
  /\ source \in {L!Mqtt, L!Postgres, L!Webhook} /\ (session => source = L!Mqtt)
  /\ at = "listen" => source = L!Postgres
  /\ subs \subseteq L!Names /\ todo \in Seq(L!Names) /\ queue \in Seq(Nat)
  /\ sent \in Seq(L!Names)
  /\ at = "listen" => L!Names \subseteq subs \cup L!Range(todo)
  /\ \A m \in L!Messages : m \in heard \cup L!Range(queue) \cup unheard \cup torn
  /\ qos \in {0, 1} /\ (session /\ qos > 0 => torn = {})

LEMMA TopicsAre == Topics \in Seq(L!Names) /\ L!Range(Topics) = L!Names
BY ConnectorsAssumption DEF L!ListenerConstants, L!Names

LEMMA ListenImplies == ListenInv => LostOnlyWithConnection
<1> SUFFICES ASSUME ListenInv PROVE LostOnlyWithConnection
  OBVIOUS
<1>1. at = "listen" /\ todo = <<>> => subs = L!Names
  BY EmptyRange DEF ListenInv
<1> QED
  BY <1>1 DEF ListenInv, LostOnlyWithConnection, L!LostOnlyWithConnection

LEMMA InitListen == InitAll => ListenInv
<1> SUFFICES ASSUME NEW place \in {"dial", "returned"}, NEW stopped \in BOOLEAN,
                    L!InitAt(place, stopped)
             PROVE  ListenInv
  BY DEF InitAll, L!Init
<1>1. Len(sent) = 0 /\ sent \in Seq(L!Names) /\ todo \in Seq(L!Names) /\ queue \in Seq(Nat)
  BY EmptySeq DEF L!InitAt
<1>2. L!Messages = {}
  BY <1>1 DEF L!Messages
<1>3. (session => source = L!Mqtt) /\ qos \in {0, 1}
  BY DEF L!InitAt
<1> QED
  BY <1>1, <1>2, <1>3 DEF ListenInv, L!InitAt

\* A disconnection, with what the connection carried.
LEMMA DisconnectsIs ==
  ASSUME ListenInv, L!Disconnects, UNCHANGED <<session, qos>>
  PROVE  /\ subs' \subseteq L!Names /\ todo' = <<>> /\ todo' \in Seq(L!Names)
         /\ queue' \in Seq(Nat) /\ (session' /\ qos' > 0 => torn' = {})
         /\ L!Range(queue) \cup torn \subseteq L!Range(queue') \cup torn'
<1>1. <<>> \in Seq(L!Names) /\ <<>> \in Seq(Nat)
  BY EmptySeq
<1>2. qos = 0 => ~(qos > 0)
  OBVIOUS
<1> QED
  BY <1>1, <1>2, EmptyRange DEF ListenInv, L!Disconnects, L!Loses

LEMMA ListenStep ==
  ASSUME ListenInv, [L!Next]_streamVars
  PROVE  ListenInv'
<1>t. /\ source \in {L!Mqtt, L!Postgres, L!Webhook} /\ (session => source = L!Mqtt)
      /\ at = "listen" => source = L!Postgres
      /\ subs \subseteq L!Names /\ todo \in Seq(L!Names) /\ queue \in Seq(Nat)
      /\ sent \in Seq(L!Names)
      /\ at = "listen" => L!Names \subseteq subs \cup L!Range(todo)
      /\ \A m \in L!Messages : m \in heard \cup L!Range(queue) \cup unheard \cup torn
      /\ qos \in {0, 1} /\ (session /\ qos > 0 => torn = {})
  BY DEF ListenInv
<1>m. sent' = sent => L!Messages' = L!Messages
  BY DEF L!Messages
<1>s. L!Postgres # L!Mqtt /\ L!Webhook # L!Mqtt /\ L!Webhook # L!Postgres
  BY DEF L!Mqtt, L!Postgres, L!Webhook
\* The connection is established.
<1>1. ASSUME L!Connects, L!Kept, at' = at \/ (source = L!Postgres /\ at' = "listen")
      PROVE  ListenInv'
  BY <1>t, <1>m, <1>1, TopicsAre DEF ListenInv, L!Connects, L!Kept, L!traffic
\* A topic is subscribed to, or left out.
<1>2. ASSUME L!Subscribes, L!Kept, at' = at PROVE ListenInv'
  <2>1. /\ Head(todo) \in L!Names /\ Tail(todo) \in Seq(L!Names)
        /\ L!Range(todo) = {Head(todo)} \cup L!Range(Tail(todo))
    BY <1>t, <1>2, HeadTailRange DEF L!Subscribes
  <2> QED
    BY <1>t, <1>m, <1>2, <2>1 DEF ListenInv, L!Subscribes, L!Kept, L!traffic
<1>3. ASSUME L!Disconnects, L!Kept, at' # "listen" \/ (at' = at /\ source = L!Mqtt)
      PROVE  ListenInv'
  BY <1>t, <1>m, <1>s, <1>3, DisconnectsIs DEF ListenInv, L!Kept, L!traffic
<1>4. ASSUME L!Hears, UNCHANGED <<source, session, qos, stop, at>> PROVE ListenInv'
  <2>1. /\ Head(queue) \in Nat /\ Tail(queue) \in Seq(Nat)
        /\ L!Range(queue) = {Head(queue)} \cup L!Range(Tail(queue))
    BY <1>t, <1>4, HeadTailRange DEF L!Hears
  <2> QED
    BY <1>t, <1>m, <1>4, <2>1 DEF ListenInv, L!Hears
\* Run moves on over an unchanged connection.
<1>5. ASSUME UNCHANGED L!link, L!Kept, at' # "listen" PROVE ListenInv'
  BY <1>t, <1>m, <1>5 DEF ListenInv, L!link, L!Kept, L!traffic
<1>6. CASE L!PostgresRun
  <2>1. CASE L!PgForwards /\ UNCHANGED <<source, session, qos, stop>>
    BY <1>4, <2>1 DEF L!PgForwards
  <2>2. CASE (L!PgConnects \/ L!PgListens \/ L!PgFails) /\ L!Kept
    BY <1>1, <1>2, <1>3, <1>6, <2>2
       DEF L!PostgresRun, L!PgConnects, L!PgListens, L!PgFails
  <2>3. CASE L!Resumes /\ L!Kept
    BY <1>5, <2>3 DEF L!Resumes
  <2> QED
    BY <1>6, <2>1, <2>2, <2>3 DEF L!PostgresRun, L!Listen
<1>7. CASE L!MqttRun
  <2>1. CASE L!MqttMessage
    <3>1. CASE L!Hears
      BY <1>4, <2>1, <3>1 DEF L!MqttMessage
    <3>2. CASE ~L!Hears
      BY <1>t, <1>m, <1>s, <1>7, <2>1, <3>2, DisconnectsIs
         DEF ListenInv, L!MqttMessage, L!MqttRun
    <3> QED
      BY <3>1, <3>2
  <2>2. CASE /\ \/ L!MqttRuns \/ L!MqttFails \/ L!Resumes \/ L!MqttReturns
                \/ L!MqttConnects \/ L!ConnectionLost
             /\ L!Kept
    BY <1>1, <1>3, <1>5, <1>7, <2>2
       DEF L!MqttRun, L!MqttRuns, L!MqttFails, L!Resumes, L!MqttReturns,
           L!MqttConnects, L!ConnectionLost
  <2>3. CASE L!OnConnect /\ L!Kept
    <3>1. CASE L!Subscribes
      BY <1>2, <2>3, <3>1 DEF L!OnConnect
    <3>2. CASE ~L!Subscribes
      <4>1. Tail(todo) \in Seq(L!Names)
        BY <1>t, <2>3, <3>2, HeadTailRange DEF L!OnConnect
      <4> QED
        BY <1>t, <1>m, <1>s, <1>7, <2>3, <3>2, <4>1
           DEF ListenInv, L!OnConnect, L!Kept, L!traffic, L!MqttRun
    <3> QED
      BY <3>1, <3>2
  <2> QED
    BY <1>7, <2>1, <2>2, <2>3 DEF L!MqttRun, L!MqttCallback
<1>8. CASE L!WebhookRun
  <2>1. CASE L!WebhookAnswers
    <3>1. PICK k \in DOMAIN queue :
            /\ queue' = L!RemoveAt(queue, k)
            /\ \/ heard' = heard \cup {queue[k]} /\ UNCHANGED unheard
               \/ unheard' = unheard \cup {queue[k]} /\ UNCHANGED heard
      BY <2>1 DEF L!WebhookAnswers
    <3>2. /\ queue' \in Seq(Nat)
          /\ L!Range(queue) \subseteq L!Range(queue') \cup {queue[k]}
      BY <1>t, <3>1, RemoveAtRange
    <3> QED
      BY <1>t, <1>m, <2>1, <3>1, <3>2 DEF ListenInv, L!WebhookAnswers
  <2>2. CASE L!WebhookReturns /\ L!Kept
    BY <1>5, <2>2 DEF L!WebhookReturns
  <2> QED
    BY <1>8, <2>1, <2>2 DEF L!WebhookRun
<1>9. CASE L!Stop
  BY <1>t, <1>m, <1>9 DEF ListenInv, L!Stop, L!link, L!traffic
<1>10. ASSUME NEW t \in L!Names, L!Send(t) PROVE ListenInv'
  <2> DEFINE m == Len(sent) + 1
  <2>1. /\ sent' \in Seq(L!Names) /\ Len(sent') = m /\ Len(sent) \in Nat
    BY <1>t, <1>10, AppendProperties, LenProperties DEF L!Send
  <2>2. L!Messages' = L!Messages \cup {m}
    BY <2>1 DEF L!Messages
  <2>3. /\ L!Range(Append(queue, m)) = L!Range(queue) \cup {m}
        /\ Append(queue, m) \in Seq(Nat)
    BY <1>t, <2>1, AppendRange
  <2>4. \/ queue' = Append(queue, m) /\ UNCHANGED <<unheard, torn>>
        \/ qos = 0 /\ torn' = torn \cup {m} /\ UNCHANGED <<queue, unheard>>
        \/ unheard' = unheard \cup {m} /\ UNCHANGED <<queue, torn>>
    BY <1>10 DEF L!Send
  <2>5. qos = 0 => ~(qos > 0)
    OBVIOUS
  <2>6. /\ UNCHANGED <<source, session, qos, at, stop, todo, subs, heard>>
    BY <1>10 DEF L!Send
  <2> HIDE DEF m
  <2> QED
    BY <1>t, <2>1, <2>2, <2>3, <2>4, <2>5, <2>6 DEF ListenInv
<1>11. CASE UNCHANGED streamVars
  BY <1>t, <1>m, <1>11 DEF ListenInv, streamVars
<1> QED
  BY <1>6, <1>7, <1>8, <1>9, <1>10, <1>11 DEF L!Next

\* A message sent on a subscribed topic is lost only with a connection, and
\* none is lost of a kept session with a QoS above 0; and postgres never
\* forwards while deaf to a channel, for any topics and any number of messages
\* (mqtt, postgres, webhook).
THEOREM MessagesAccounted == SpecAll => []LostOnlyWithConnection
<1>1. ListenInv /\ [NextAll]_allVars => ListenInv'
  <2>1. [NextAll]_allVars => [L!Next]_streamVars
    BY DEF NextAll, allVars
  <2> QED
    BY <2>1, ListenStep
<1> QED
  BY <1>1, InitListen, ListenImplies, PTL DEF SpecAll

=============================================================================
