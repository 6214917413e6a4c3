----------------------------- MODULE RateLimit -----------------------------
(***************************************************************************)
(* The token bucket per client address in front of the heavy routes        *)
(* (internal/httpapi/ratelimit.go).  A bucket is refilled only when its    *)
(* address calls, from the time that has passed; every gcEvery calls the   *)
(* buckets nobody has used for a while are dropped.                        *)
(*                                                                         *)
(* Time is in ticks, Minute of them to a minute, and a token is Minute     *)
(* credits, so that a tick is worth rpm credits.  A bucket keeps the time  *)
(* since its last fill instead of the time of it.                          *)
(***************************************************************************)
EXTENDS Integers, FiniteSets

CONSTANTS
  Addrs,   \* client addresses
  RpmArg,  \* requests per minute as newRateLimiter gets it
  Minute,  \* ticks in a minute
  GcEvery, \* calls between two collections
  GcAge    \* ticks after which an idle bucket is dropped

ASSUME RateLimitAssumption ==
  /\ RpmArg \in Int
  /\ Minute \in Nat \ {0} /\ GcEvery \in Nat \ {0} /\ GcAge \in Nat
  /\ GcAge >= Minute

Rpm == IF RpmArg <= 0 THEN 10 ELSE RpmArg
Full == Rpm * Minute

VARIABLES
  buckets, \* rateLimiter.buckets: tokens in credits, age of the last fill
  calls,   \* rateLimiter.calls, modulo gcEvery
  credit   \* history: what each address may still use, by the textbook:
           \* Full at first, rpm more every tick up to Full, a token per grant

limitVars == <<buckets, calls, credit>>

LimitInit ==
  /\ buckets = [a \in {} |-> [tokens |-> 0, age |-> 0]]
  /\ calls = 0
  /\ credit = [a \in Addrs |-> Full]

-----------------------------------------------------------------------------
AtMost(n, m) == IF n > m THEN m ELSE n

\* A collection that ignores the age of a bucket.
CollectedAll(bs) == [a \in {} |-> bs[a]]

\* gcLocked.
Collected(bs) == [a \in {b \in DOMAIN bs : bs[b].age <= GcAge} |-> bs[a]]

\* What a bucket holds once it is refilled; a new one is full.
Level(bs, a) ==
  IF a \in DOMAIN bs THEN AtMost(bs[a].tokens + Rpm * bs[a].age, Full)
                     ELSE Full

\* allow: collect when it is time, refill, take a token if there is one.
Allow(a) ==
  LET due == (calls + 1) % GcEvery = 0
      kept == IF due THEN Collected(buckets) ELSE buckets
      level == Level(kept, a)
      granted == level >= Minute
      left == IF granted THEN level - Minute ELSE level
  IN /\ calls' = (calls + 1) % GcEvery
     /\ buckets' = [b \in DOMAIN kept \cup {a} |->
                      IF b = a THEN [tokens |-> left, age |-> 0] ELSE kept[b]]
     /\ credit' = [credit EXCEPT ![a] = @ - IF granted THEN Minute ELSE 0]

\* Time passes.  An age past GcAge makes no difference to any older one.
LimitTick ==
  /\ buckets' = [a \in DOMAIN buckets |->
                   [buckets[a] EXCEPT !.age = AtMost(@ + 1, GcAge + 1)]]
  /\ credit' = [a \in Addrs |-> AtMost(credit[a] + Rpm, Full)]
  /\ UNCHANGED calls

LimitNext == LimitTick \/ \E a \in Addrs : Allow(a)

LimitSpec == LimitInit /\ [][LimitNext]_limitVars

-----------------------------------------------------------------------------
\* Whenever an address calls, the bucket it finds, or is given, holds what the
\* textbook token bucket would: refilling late and dropping idle buckets gives
\* no address a request more, or one less, than rpm at once and rpm a minute
\* (ratelimit.go allow, gcLocked).
LimitExact ==
  \A a \in Addrs : credit[a] >= 0 /\ Level(buckets, a) = credit[a]

=============================================================================
