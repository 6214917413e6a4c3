------------------------------- MODULE Poller -------------------------------
(***************************************************************************)
(* The pull connectors (connectors/usgsearthquakes, usgswater, nasafirms,  *)
(* openaq, noaaweather): one machine, whose kind is chosen at the start,   *)
(* with the HTTP client they share (sdk-go/sdkhttp) and the checkpoints of *)
(* the runtime context and the store.                                      *)
(*                                                                         *)
(* A connector loads its checkpoint, then polls: it fetches the feed,      *)
(* publishes what it takes for new, and saves the checkpoint once all of   *)
(* it is published.  Four kinds remember the highest key they published (a *)
(* watermark), noaaweather remembers the last version of every alert.  The *)
(* process may crash anywhere, the store may fail, the run may be          *)
(* cancelled.                                                              *)
(*                                                                         *)
(* An item of a feed is a record with the fields                           *)
(*   site   the place, station or alert id it is about,                    *)
(*   time   when it happened, or when the alert was sent, as digits HHMM,  *)
(*   level  magnitude or severity,                                         *)
(*   fine   whether it parses (noaaweather: is not a test message).        *)
(***************************************************************************)
EXTENDS Integers, FiniteSets, FiniteSetsExt

CONSTANTS
  Kinds,      \* the connectors under study
  ItemsOf,    \* everything the feed of each kind may ever list
  RawConfigs, \* instance configurations as they are written
  MaxRetries, \* sdkhttp Client.MaxRetries
  SeenCap,    \* noaaweather: entries above which saveSeen trims (5000)
  SeenKeep,   \* noaaweather: entries it trims towards (4500)
  MaxPosts,   \* bound: items the feed lists in a behaviour
  MaxLives    \* bound: starts of the process

Quakes == "usgs-earthquakes"  Water == "usgs-water"  Fires == "nasa-firms"
Air == "openaq"               Weather == "noaa-weather-alerts"

ASSUME PollerAssumption ==
  /\ Kinds \subseteq {Quakes, Water, Fires, Air, Weather}
  /\ \A k \in Kinds : ItemsOf[k] \subseteq
       [site : 1 .. 9, time : 0 .. 2359, level : Int, fine : BOOLEAN]
  /\ RawConfigs \subseteq [period : Int, limit : Int, minimum : Int]
  /\ MaxRetries \in Nat /\ SeenCap \in Nat /\ SeenKeep \in 0 .. SeenCap
  /\ MaxPosts \in Nat /\ MaxLives \in Nat \ {0}

Items == UNION {ItemsOf[k] : k \in Kinds}

VARIABLES
  kind, cfg,  \* the connector, and its configuration as Run uses it
  secret,     \* its API key is set
  durable,    \* checkpoints go to the store, not to the in-memory map
  feed,       \* what the remote feed lists now
  posted,     \* history: all it has ever listed
  pc,         \* where Run is
  cancelled,  \* the context of Run
  attempt,    \* the loop variable of sdkhttp's do
  rest,       \* items of the response not handled yet
  last,       \* lastSeen, lastKey: what this poll compares with
  next,       \* maxSeen, maxKey; noaaweather's map, changed in place
  emitted,    \* the poll has published something
  cp,         \* the saved checkpoint
  life,       \* starts so far
  blind,      \* history: the load of this life failed
  copies,     \* history: publishes of an item in this life, two at most, since
              \* noaaweather last gave up the item's alert: published another
              \* version of it, or trimmed it
  ever,       \* history: items published in any life
  missed,     \* history: items passed over by a poll and never published
  trimmed     \* history: sites noaaweather has trimmed in this life and not
              \* published since

env == <<kind, cfg, secret, durable>>
remote == <<feed, posted>>
memory == <<rest, last, next, emitted>>
history == <<blind, copies, ever, missed, trimmed>>
vars == <<env, remote, pc, cancelled, attempt, memory, cp, life, history>>

\* What a connector remembers: a watermark, or versions of alerts.
Nothing == [mark |-> 0, seen |-> {}]
Memories == [mark : Nat, seen : SUBSET Items]

-----------------------------------------------------------------------------
(***************************************************************************)
(* The kinds: keys, what is skipped, what is remembered                    *)
(***************************************************************************)
\* site|variable|time, compared as text: the site decides first.
WaterKey(i) == i.site * 10000 + i.time

\* date|time|lat|lng|satellite, compared as text, of one date.  The time has
\* no leading zeros, so a shorter one sorts by its first digits; after its
\* last digit comes the separator, which sorts after every digit.
FiresKey(i) ==
  10 * (CASE i.time < 10 -> 2000 * i.time + 1999
          [] i.time \in 10 .. 99 -> 200 * i.time + 199
          [] i.time \in 100 .. 999 -> 20 * i.time + 19
          [] i.time > 999 -> 2 * i.time) + i.site

Key(i) ==
  CASE kind = Water -> WaterKey(i)
    [] kind = Fires -> FiresKey(i)
    [] OTHER -> i.time

\* The highest key so far.
Marked(m, i) == [m EXCEPT !.mark = IF Key(i) > @ THEN Key(i) ELSE @]

\* The last version of every alert: one per id.
Versioned(m, i) == [m EXCEPT !.seen = {j \in @ : j.site # i.site} \cup {i}]

\* Whether the memory m holds item i, so that a poll that compares with m
\* does not publish it.
Covers(m, i) ==
  IF kind = Weather
  THEN i.time # 0 /\ \E j \in m.seen : j.site = i.site /\ j.time = i.time
  ELSE Key(i) <= m.mark

\* Defaults of a connector that only looks for zero.
DefaultsZeroOnly(c) == [c EXCEPT !.period = IF @ = 0 THEN 15 ELSE @,
                                 !.limit = IF @ = 0 THEN 200 ELSE @]

\* applyDefaults replaces what is not positive.
Defaults(c) == [c EXCEPT !.period = IF @ <= 0 THEN 15 ELSE @,
                         !.limit = IF @ <= 0 THEN 200 ELSE @]

\* Validate: nasafirms does not look at its period, the others refuse a
\* negative one.
Valid(c) == kind = Fires \/ c.period >= 0

-----------------------------------------------------------------------------
InitAt(place, isCancelled, lives) ==
  /\ kind \in Kinds /\ durable \in BOOLEAN
  /\ secret \in (IF kind \in {Fires, Air} THEN BOOLEAN ELSE {FALSE})
  /\ \E c \in RawConfigs : Valid(c) /\ cfg = Defaults(c)
  /\ feed = {} /\ posted = {}
  /\ pc = place /\ cancelled = isCancelled /\ attempt = 0
  /\ rest = {} /\ last = Nothing /\ next = Nothing /\ emitted = FALSE
  /\ cp = Nothing /\ life = lives
  /\ blind = FALSE /\ copies = [i \in Items |-> 0] /\ ever = {}
  /\ missed = {} /\ trimmed = {}

Init == InitAt("start", FALSE, 1)

(***************************************************************************)
(* The checkpoint (context.go Checkpoint and LoadCheckpoint, storage.go)   *)
(***************************************************************************)
\* The store may fail, and does under a cancelled context.
SaveCheckpoint(m) == cp' \in (IF cancelled THEN {cp} ELSE {m, cp})

\* What a query for the checkpoint may find, and whether it fails.
QueryCheckpoint(m, fails) == \/ ~cancelled /\ m = cp /\ ~fails
                             \/ m = Nothing /\ fails

\* The runtime context: the store, or its own map, which does not fail.
Checkpoint(m) == IF durable THEN SaveCheckpoint(m) ELSE cp' = m

\* A load that asks for another key.
LoadCheckpointOther == last' = Nothing /\ blind' = FALSE /\ next' = last'

LoadCheckpoint ==
  /\ \E m \in {cp, Nothing}, fails \in BOOLEAN :
       /\ IF durable THEN QueryCheckpoint(m, fails) ELSE m = cp /\ ~fails
       /\ last' = m /\ blind' = fails
  /\ next' = last'

(***************************************************************************)
(* One GET with retries (sdkhttp do); a request has a timeout              *)
(***************************************************************************)
PollFails == pc' = "wait" /\ attempt' = 0 /\ UNCHANGED <<memory, missed>>

\* A network error, a body that breaks off, 429 or 5xx: the next attempt
\* after a pause, unless this was the last.
RequestFails ==
  /\ pc = "request"
  /\ IF attempt < MaxRetries
     THEN /\ attempt' = attempt + 1 /\ pc' = "pause"
          /\ UNCHANGED <<memory, missed>>
     ELSE PollFails

\* Any other status ends the request at once, and so does a body that is no
\* JSON or has no CSV header.
RequestRefused == pc = "request" /\ ~cancelled /\ PollFails

PauseEnds ==
  /\ pc = "pause"
  /\ \/ pc' = "request" /\ UNCHANGED <<attempt, memory, missed>>
     \/ cancelled /\ PollFails

\* The response: openaq asks for the newest items up to its limit.
Responses ==
  IF kind # Air THEN {feed}
  ELSE {s \in SUBSET feed :
         /\ Cardinality(s) = IF cfg.limit < Cardinality(feed)
                             THEN cfg.limit ELSE Cardinality(feed)
         /\ \A i \in s, j \in feed \ s : i.time >= j.time}

RequestOk ==
  /\ pc = "request" /\ ~cancelled
  /\ rest' \in Responses /\ pc' = "handle"
  /\ attempt' = 0 /\ emitted' = FALSE /\ next' = last
  /\ UNCHANGED <<last, missed>>

Fetch ==
  /\ RequestOk \/ RequestFails \/ RequestRefused \/ PauseEnds
  /\ UNCHANGED <<cp, blind, copies, ever, trimmed>>

-----------------------------------------------------------------------------
(***************************************************************************)
(* The rest of a poll: items one by one, then the checkpoint               *)
(***************************************************************************)
Handles(i) ==
  /\ pc = "handle" /\ i \in rest
  /\ rest' = rest \ {i}
  /\ UNCHANGED <<pc, attempt, cp, blind>>

\* A loop that moves the watermark before it looks at the item.
PassOverMarks(i) ==
  /\ Handles(i) /\ next' = Marked(next, i)
  /\ missed' = missed \cup ({i} \ ever)
  /\ UNCHANGED <<last, emitted, copies, ever, trimmed>>

PassOver(i) ==
  /\ Handles(i)
  /\ missed' = missed \cup ({i} \ ever)
  /\ UNCHANGED <<last, next, emitted, copies, ever, trimmed>>

\* Another version of the alert i is about.
OtherVersion(i, j) == kind = Weather /\ j.site = i.site /\ j.time # i.time

\* Publish never fails, not even under a cancelled context.  noaaweather has
\* one map, changed in place.
Emit(i, m) ==
  /\ Handles(i)
  /\ next' = m /\ emitted' = TRUE
  /\ last' = IF kind = Weather THEN m ELSE last
  /\ copies' = [j \in Items |-> IF OtherVersion(i, j) THEN 0
                                ELSE IF j = i /\ copies[j] < 2 THEN copies[j] + 1
                                ELSE copies[j]]
  /\ trimmed' = trimmed \ {i.site}
  /\ ever' = ever \cup {i} /\ missed' = missed \ {i}

\* A poll whose result the caller does not keep.
EndPollForgets ==
  /\ pc = "handle" /\ rest = {} /\ pc' = "wait"
  /\ IF emitted THEN Checkpoint(next) ELSE UNCHANGED cp
  /\ emitted' = FALSE
  /\ UNCHANGED <<attempt, rest, last, next, history>>

\* After the loop: the checkpoint, if anything was published, whose error is
\* ignored; the caller goes on with the new maximum either way.
EndPoll ==
  /\ pc = "handle" /\ rest = {} /\ pc' = "wait"
  /\ IF emitted THEN Checkpoint(next) ELSE UNCHANGED cp
  /\ last' = next /\ emitted' = FALSE
  /\ UNCHANGED <<attempt, rest, next, history>>

\* A trim that deletes one alert more than down to SeenKeep.
TrimmedTooFar(seen) ==
  LET n == Cardinality(seen) IN
  IF n <= SeenCap THEN {seen}
  ELSE kSubset(SeenKeep - 1, seen)

\* What saveSeen may leave: it deletes alerts in no order, and compares their
\* number with a length that shrinks as it deletes.
Trimmed(seen) ==
  LET n == Cardinality(seen) IN
  IF n <= SeenCap THEN {seen}
  ELSE kSubset(n - (n - SeenKeep + 1) \div 2, seen)

\* What the histories make of the alerts a trim drops.
Drops(dropped) ==
  /\ trimmed' = trimmed \cup {i.site : i \in dropped}
  /\ copies' = [i \in Items |-> IF \E j \in dropped : j.site = i.site
                                THEN 0 ELSE copies[i]]

EndWeatherPoll ==
  /\ pc = "handle" /\ rest = {} /\ pc' = "wait"
  /\ IF emitted
     THEN \E kept \in Trimmed(next.seen) :
            /\ next' = [next EXCEPT !.seen = kept]
            /\ Checkpoint(next')
            /\ Drops(next.seen \ kept)
     ELSE UNCHANGED <<next, cp, trimmed, copies>>
  /\ last' = next' /\ emitted' = FALSE
  /\ UNCHANGED <<attempt, rest, blind, ever, missed>>

\* poll and pollOnce of each connector.
QuakesPoll ==
  /\ kind = Quakes
  /\ \/ Fetch \/ EndPoll
     \/ \E i \in rest :
          IF Covers(last, i) \/ i.level < cfg.minimum \/ ~i.fine
          THEN PassOver(i) ELSE Emit(i, Marked(next, i))

WaterPoll ==
  /\ kind = Water
  /\ \/ Fetch \/ EndPoll
     \/ \E i \in rest :
          IF Covers(last, i) \/ i.time = 0 \/ ~i.fine
          THEN PassOver(i) ELSE Emit(i, Marked(next, i))

\* A row that cannot be read ends the loop, and the poll goes on with the
\* rows before it.
FiresPoll ==
  /\ kind = Fires
  /\ \/ Fetch \/ EndPoll
     \/ \E i \in rest :
          IF Covers(last, i) THEN PassOver(i) ELSE Emit(i, Marked(next, i))
     \/ /\ pc = "handle" /\ rest # {} /\ rest' = {}
        /\ UNCHANGED <<pc, attempt, last, next, emitted, cp, history>>

AirPoll ==
  /\ kind = Air
  /\ \/ Fetch \/ EndPoll
     \/ \E i \in rest :
          IF Covers(last, i) \/ ~i.fine
          THEN PassOver(i) ELSE Emit(i, Marked(next, i))

WeatherPoll ==
  /\ kind = Weather
  /\ \/ Fetch \/ EndWeatherPoll
     \/ \E i \in rest :
          IF Covers(last, i) \/ i.level < cfg.minimum \/ ~i.fine
          THEN PassOver(i) ELSE Emit(i, Versioned(next, i))

-----------------------------------------------------------------------------
(***************************************************************************)
(* Run: load, poll at once, then at every tick until cancelled             *)
(***************************************************************************)
\* rt.Secret, which the runtime context reads from the environment.
HasKey == kind \in {Fires, Air} => secret

\* time.NewTicker panics when the period is not positive.
Begin ==
  /\ pc = "start" /\ HasKey /\ LoadCheckpoint
  /\ pc' = (IF cfg.period > 0 THEN "request" ELSE "panic")
  /\ attempt' = 0
  /\ UNCHANGED <<rest, emitted, cp, copies, ever, missed, trimmed>>

Tick ==
  /\ pc = "wait" /\ pc' = "request" /\ attempt' = 0
  /\ UNCHANGED <<memory, cp, history>>

\* Without its key nasafirms or openaq waits for its context only.
Idle ==
  /\ pc = "start" /\ ~HasKey /\ pc' = "idle"
  /\ UNCHANGED <<attempt, memory, cp, history>>

\* A connector that idles without watching its context.
ReturnsUnlessIdle ==
  /\ pc = "wait" /\ cancelled /\ pc' = "returned"
  /\ UNCHANGED <<attempt, memory, cp, history>>

Returns ==
  /\ pc \in {"wait", "idle"} /\ cancelled /\ pc' = "returned"
  /\ UNCHANGED <<attempt, memory, cp, history>>

QuakesRun == kind = Quakes /\ (Begin \/ Tick \/ Returns \/ QuakesPoll)
WaterRun == kind = Water /\ (Begin \/ Tick \/ Returns \/ WaterPoll)
FiresRun == kind = Fires /\ (Begin \/ Idle \/ Tick \/ Returns \/ FiresPoll)
AirRun == kind = Air /\ (Begin \/ Idle \/ Tick \/ Returns \/ AirPoll)
WeatherRun == kind = Weather /\ (Begin \/ Tick \/ Returns \/ WeatherPoll)

Run ==
  /\ QuakesRun \/ WaterRun \/ FiresRun \/ AirRun \/ WeatherRun
  /\ UNCHANGED <<env, remote, cancelled, life>>

(***************************************************************************)
(* The environment                                                         *)
(***************************************************************************)
\* The feed lists an item, a new one or, from a stale copy of the feed, one it
\* has listed before; a version of an alert takes the place of another.  One
\* response lists no item and no alert twice.
Post(i) ==
  /\ i \notin feed /\ posted' = posted \cup {i}
  /\ i \in posted \/ Cardinality(posted) < MaxPosts
  /\ feed' = {j \in feed : kind # Weather \/ j.site # i.site} \cup {i}

\* The feed no longer lists an item.
Retire(i) == i \in feed /\ feed' = feed \ {i} /\ UNCHANGED posted

\* Only a request reads the feed, so that it may change just before one.
FeedChanges ==
  /\ pc = "request" /\ attempt = 0
  /\ \E i \in ItemsOf[kind] : Post(i) \/ Retire(i)
  /\ UNCHANGED <<env, pc, cancelled, attempt, memory, cp, life, history>>

\* The runtime cancels the context of the instance.
Cancel ==
  /\ ~cancelled /\ cancelled' = TRUE
  /\ UNCHANGED <<env, remote, pc, attempt, memory, cp, life, history>>

\* The process ends, in order or by a crash at any point, and starts again;
\* it may now have a key.
Restart ==
  /\ pc # "start" /\ life < MaxLives /\ life' = life + 1
  /\ pc' = "start" /\ cancelled' = FALSE /\ attempt' = 0
  /\ rest' = {} /\ last' = Nothing /\ next' = Nothing /\ emitted' = FALSE
  /\ cp' = (IF durable THEN cp ELSE Nothing)
  /\ secret' \in (IF kind \in {Fires, Air} THEN BOOLEAN ELSE {FALSE})
  /\ blind' = FALSE /\ copies' = [i \in Items |-> 0] /\ trimmed' = {}
  /\ UNCHANGED <<kind, cfg, durable, remote, ever, missed>>

Next == Run \/ FeedChanges \/ Cancel \/ Restart

\* Requests have a timeout, timers fire, and a select that keeps finding its
\* context done does not choose the ticker for ever.
Fairness == WF_vars(Run) /\ SF_vars(Run /\ Returns)

Spec == Init /\ [][Next]_vars /\ Fairness

-----------------------------------------------------------------------------
(***************************************************************************)
(* Properties                                                              *)
(***************************************************************************)

\* The type of every variable; no ticker gets a period it panics on.
TypeOK ==
  /\ kind \in Kinds /\ durable \in BOOLEAN /\ secret \in BOOLEAN
  /\ feed \subseteq posted /\ posted \subseteq Items
  /\ pc \in {"start", "idle", "request", "pause", "handle", "wait", "returned"}
  /\ cancelled \in BOOLEAN /\ attempt \in 0 .. MaxRetries
  /\ rest \subseteq Items /\ {last, next, cp} \subseteq Memories
  /\ emitted \in BOOLEAN /\ life \in 1 .. MaxLives /\ blind \in BOOLEAN
  /\ copies \in [Items -> 0 .. 2] /\ ever \subseteq Items
  /\ missed \subseteq Items /\ trimmed \subseteq 1 .. 9

\* In one life an item is published once, however polls fail and the feed
\* changes, lists stale copies included.  Only noaaweather repeats: an alert
\* without a sent time; a version after another of the same alert, as it
\* compares with the last one only (pollOnce); and an alert that saveSeen
\* trimmed ("alerts that fall out get re-emitted"), which it does when there
\* are more than SeenCap and leaves SeenKeep or more.
NoRepeatInALife ==
  /\ \A i \in Items : copies[i] > 1 => kind = Weather /\ i.time = 0
  /\ trimmed # {} => /\ Cardinality({i.site : i \in ever}) > SeenCap
                     /\ Cardinality(next.seen) >= SeenKeep

\* An item published in any life is repeated only when no checkpoint that
\* covers it was saved, or it could not be loaded: crashes between publish and
\* Checkpoint, failed saves and failed loads are the only causes (context.go),
\* but for the trims of noaaweather and another version published since.
RepeatMeansUnsaved ==
  [][\A i \in ever : copies'[i] > copies[i] =>
       \/ ~Covers(cp, i) \/ blind \/ i.site \in trimmed
       \/ \E j \in Items : copies[j] > 0 /\ OtherVersion(i, j)]_vars

\* What a connector passes over for good although it would accept it lies
\* behind something it has published, or is an alert with the id and the time
\* of a published one, and no crash leaves a checkpoint ahead of what was
\* published.
SkippedOnlyBehind ==
  /\ \A i \in missed :
       \/ ~i.fine \/ i.level < cfg.minimum \/ i.time = 0
       \/ \E j \in ever : IF kind = Weather THEN j.site = i.site /\ j.time = i.time
                          ELSE Key(j) >= Key(i)
  /\ cp.seen \subseteq ever
  /\ cp.mark = 0 \/ \E j \in ever : Key(j) = cp.mark

\* A saved watermark never goes back in a life that could load it, so that a
\* feed that no longer lists the newest items costs nothing.
CheckpointAdvances ==
  [][life' = life /\ ~blind => cp'.mark >= cp.mark]_vars

\* A cancelled Run returns, whether it waits, retries, polls or idles, as
\* Stop expects of it (runtime.go).
CancelEndsRun == cancelled ~> (pc = "returned" \/ ~cancelled)

=============================================================================
