------------------------------ MODULE Sessions ------------------------------
(***************************************************************************)
(* Logging in (internal/auth): a signed session cookie, handed out for the *)
(* password (auth.go) or after a round trip to an OpenID provider          *)
(* (oidc_handler.go), whose keys are cached (oidc.go).                     *)
(*                                                                         *)
(* One browser with several tabs: the tabs share its cookies, and each     *)
(* starts one round trip, named after it, which stands for the random      *)
(* state and verifier.  The server keeps nothing of a session or of a      *)
(* round trip; what it keeps, its signing key and the cache of the         *)
(* provider's keys, a restart replaces.  A cookie is what it says and the  *)
(* life of the server that signed it.                                      *)
(*                                                                         *)
(* Browser and provider are external.  The browser keeps a cookie until it *)
(* is replaced or cleared: that its time is up is the server's to see.     *)
(* The provider publishes one key at a time, the k-th of its life, and     *)
(* signs with it.                                                          *)
(***************************************************************************)
EXTENDS Integers

CONSTANTS
  Tabs,        \* the browser's tabs
  SessionTTL,  \* SessionTTL, in ticks
  FlowTTL,     \* flowCookieTTL
  JwksMaxAge,  \* jwksMaxAge
  CallbackMax, \* the callback's timeout, rounded up to ticks
  MaxTime, MaxKeys, MaxLives \* bounds: the clock, the provider's keys, restarts

ASSUME SessionsAssumption ==
  /\ {SessionTTL, FlowTTL, JwksMaxAge, CallbackMax} \subseteq Nat \ {0}
  /\ {MaxTime, MaxLives} \subseteq Nat /\ MaxKeys \in Nat \ {0}

VARIABLES
  clock,
  fixedKey,  \* SUNNY_SESSION_KEY is set
  life,      \* which life of the server this is
  oidc,      \* whether it has an OIDCManager
  session,   \* the browser's session cookies, at most one
  flow,      \* its round trip cookies, at most one
  tab,       \* each tab's round trip: where it is, when and in which life
             \* it started, since when it is there, the key of its ID token,
             \* the answer it got for the keys; history: whether another
             \* answer took that one's place, why it was refused
  latest,    \* history: the tab, if any, whose round trip started last
  signing,   \* the provider's key
  withdrawn, \* history: when each key was withdrawn
  cache,     \* OIDCProvider.jwksCache: the keys of one answer of the provider
  fetched    \* OIDCProvider.jwksFetched

authVars == <<clock, fixedKey, life, oidc, session, flow, tab, latest,
              signing, withdrawn, cache, fetched>>
provider == <<signing, withdrawn>>
server == <<life, oidc, cache, fetched>>

Never == -1

Fresh == [at |-> "none", start |-> 0, life |-> 0, since |-> 0, kid |-> 0,
          answer |-> {}, beaten |-> FALSE, why |-> ""]

\* NewOIDCProvider: without discovery there is no OpenID login in this life;
\* with it the cache is empty.
NewProvider(found, keys, time) ==
  found \in BOOLEAN /\ keys = {} /\ time = Never

Init ==
  /\ clock = 0 /\ fixedKey \in BOOLEAN /\ life = 1
  /\ NewProvider(oidc, cache, fetched)
  /\ session = {} /\ flow = {}
  /\ tab = [t \in Tabs |-> Fresh] /\ latest = {}
  /\ signing = 1 /\ withdrawn = [k \in 1 .. MaxKeys |-> Never]

-----------------------------------------------------------------------------
(* Cookies *)

\* Whether the server would find its own signature on a cookie.
Signed(cookie) == fixedKey \/ cookie.life = life

\* Issue.
Issued == [life |-> life, issued |-> clock, expiry |-> clock + SessionTTL]

\* Validate.
Valid(cookie) == Signed(cookie) /\ clock <= cookie.expiry

\* Middleware, for a request without a bearer token.
LoggedIn == \E c \in session : Valid(c)

\* StatusHandler, by which the browser decides to show the login screen.
AsksForLogin == ~LoggedIn

\* LoginHandler with the right password; the wrong one changes nothing.
Login ==
  /\ AsksForLogin
  /\ session' = {Issued}
  /\ UNCHANGED <<clock, fixedKey, flow, tab, latest, provider, server>>

\* LogoutHandler.
Logout ==
  /\ session # {}
  /\ session' = {}
  /\ UNCHANGED <<clock, fixedKey, flow, tab, latest, provider, server>>

-----------------------------------------------------------------------------
(* The round trip to the provider *)

\* The places inside CallbackHandler.
Called == {"exchange", "verify", "fetch", "answered", "recheck"}

\* A tab keeps no more of its past than is still of use.
Begins(t, place) == [tab EXCEPT ![t] = [Fresh EXCEPT !.at = place, !.since = clock]]
Ends(t, place, why) ==
  [tab EXCEPT ![t] = [Fresh EXCEPT !.at = place, !.why = why]]
Fails(t, why) ==
  [tab EXCEPT ![t].at = "failed", ![t].since = clock, ![t].why = why]

\* StartHandler: the cookie of a later round trip replaces that of an earlier.
Start(t) ==
  /\ oidc /\ tab[t].at = "none"
  /\ tab' = [tab EXCEPT ![t] = [Fresh EXCEPT !.at = "away", !.since = clock,
                                 !.start = clock, !.life = life]]
  /\ latest' = {t}
  /\ flow' = {[state |-> t, life |-> life, issued |-> clock]}
  /\ UNCHANGED <<clock, fixedKey, session, provider, server>>

\* The checks of CallbackHandler and verifyFlow, in their order.
Refusal(t) ==
  CASE ~oidc -> "disabled"
    [] flow = {} -> "missing"
    [] \E c \in flow : ~Signed(c) -> "unsigned"
    [] \E c \in flow : clock - c.issued > FlowTTL -> "late"
    [] \E c \in flow : c.state # t -> "mismatch"
    [] OTHER -> ""

Callback(t) ==
  /\ tab[t].at = "away"
  /\ tab' = IF Refusal(t) = "" THEN Begins(t, "exchange") ELSE Fails(t, Refusal(t))
  /\ UNCHANGED <<clock, fixedKey, session, flow, latest, provider, server>>

\* Exchange: an ID token signed with the provider's key, or an error.
Exchange(t) ==
  /\ tab[t].at = "exchange"
  /\ \/ tab' = [tab EXCEPT ![t].at = "verify", ![t].kid = signing]
     \/ tab' = Ends(t, "failed", "provider")
  /\ UNCHANGED <<clock, fixedKey, session, flow, latest, provider, server>>

\* The keys that publicKey takes from the cache.
Usable ==
  IF fetched # Never /\ clock - fetched < JwksMaxAge THEN cache ELSE {}

\* The end of CallbackHandler: a session, and no flow cookie any more,
\* whichever round trip it was for.
Mint(t) ==
  /\ tab' = Ends(t, "done", "")
  /\ session' = {Issued}
  /\ flow' = {}

\* VerifyIDToken, the key being found: signature, issuer, audience and expiry
\* are right, or the provider has made a mistake.
Finish(t) ==
  \/ Mint(t)
  \/ tab' = Ends(t, "failed", "provider") /\ UNCHANGED <<session, flow>>

Move(t, place) == tab' = [tab EXCEPT ![t].at = place]

\* A cache that is taken as complete while it is fresh.
PublicKeyComplete(t) ==
  /\ tab[t].at = "verify"
  /\ IF tab[t].kid \in Usable THEN Finish(t)
     ELSE /\ Move(t, IF Usable = {} THEN "fetch" ELSE "recheck")
          /\ UNCHANGED <<session, flow>>
  /\ UNCHANGED <<clock, fixedKey, latest, provider, server>>

\* publicKey, up to the refresh.
PublicKey(t) ==
  /\ tab[t].at = "verify"
  /\ IF tab[t].kid \in Usable THEN Finish(t)
     ELSE Move(t, "fetch") /\ UNCHANGED <<session, flow>>
  /\ UNCHANGED <<clock, fixedKey, latest, provider, server>>

\* The provider answers the request of refreshJWKS.
Answer(t) ==
  /\ tab[t].at = "fetch"
  /\ tab' = [tab EXCEPT ![t].at = "answered", ![t].answer = {signing}]
  /\ UNCHANGED <<clock, fixedKey, session, flow, latest, provider, server>>

\* The request, or its answer on the way, fails or times out.
FetchFails(t) ==
  /\ tab[t].at \in {"fetch", "answered"}
  /\ tab' = Ends(t, "failed", "provider")
  /\ UNCHANGED <<clock, fixedKey, session, flow, latest, provider, server>>

\* The rest of refreshJWKS: the answer replaces the cache, even a newer one.
Store(t) ==
  /\ tab[t].at = "answered"
  /\ cache' = tab[t].answer
  /\ fetched' = clock
  /\ tab' = [u \in Tabs |->
               IF u = t THEN [tab[t] EXCEPT !.at = "recheck", !.answer = {}]
               ELSE [tab[u] EXCEPT !.beaten = @ \/ tab[u].at = "recheck"]]
  /\ UNCHANGED <<clock, fixedKey, life, oidc, session, flow, latest, provider>>

\* The rest of publicKey: the cache as it is by now.
Recheck(t) ==
  /\ tab[t].at = "recheck"
  /\ IF tab[t].kid \in cache THEN Finish(t)
     ELSE tab' = Fails(t, "kid") /\ UNCHANGED <<session, flow>>
  /\ UNCHANGED <<clock, fixedKey, latest, provider, server>>

-----------------------------------------------------------------------------
\* The server is started again: callbacks under way end, the cache is empty,
\* and unless the key is configured NewManager makes a new one.
Restart ==
  /\ life < MaxLives
  /\ life' = life + 1
  /\ oidc' \in BOOLEAN
  /\ NewProvider(oidc', cache', fetched')
  /\ tab' = [t \in Tabs |-> IF tab[t].at \in Called
                             THEN Ends(t, "failed", "restart")[t] ELSE tab[t]]
  /\ UNCHANGED <<clock, fixedKey, session, flow, latest, provider>>

\* The provider withdraws its key for a new one.
Rotate ==
  /\ signing < MaxKeys
  /\ signing' = signing + 1
  /\ withdrawn' = [withdrawn EXCEPT ![signing] = clock]
  /\ UNCHANGED <<clock, fixedKey, session, flow, tab, latest, server>>

\* Time passes, but a callback ends within its timeout.
Tick ==
  /\ clock < MaxTime
  /\ \A t \in Tabs : tab[t].at \in Called => clock - tab[t].since < CallbackMax
  /\ clock' = clock + 1
  /\ UNCHANGED <<fixedKey, session, flow, tab, latest, provider, server>>

Next ==
  \/ Login \/ Logout \/ Restart \/ Rotate \/ Tick
  \/ \E t \in Tabs :
       \/ Start(t) \/ Callback(t) \/ Exchange(t) \/ PublicKey(t)
       \/ Answer(t) \/ FetchFails(t) \/ Store(t) \/ Recheck(t)

Spec == Init /\ [][Next]_authVars

-----------------------------------------------------------------------------
\* A key the provider has withdrawn is taken from the cache no longer than its
\* maximal age and the time of a fetch, in whatever order the answers to
\* overlapping fetches are stored (oidc.go publicKey, refreshJWKS).
WithdrawnKeysExpire ==
  \A k \in Usable :
    withdrawn[k] # Never => clock - withdrawn[k] < JwksMaxAge + CallbackMax

\* A round trip is refused only for a cause: its cookie was cleared by another
\* that completed, or replaced by a later one, or it took too long, or the
\* server was started with a new key or without the provider, or its token's
\* key was withdrawn, or the answer that had the key was overwritten by that
\* of another callback (oidc_handler.go CallbackHandler, oidc.go publicKey).
RefusalHasCause ==
  \A t \in Tabs : tab[t].at = "failed" =>
    CASE tab[t].why = "missing" -> \E u \in Tabs \ {t} : tab[u].at = "done"
      [] tab[t].why = "mismatch" -> t \notin latest
      [] tab[t].why = "late" -> tab[t].since - tab[t].start > FlowTTL
      [] tab[t].why = "disabled" -> life > tab[t].life
      [] tab[t].why = "unsigned" -> ~fixedKey /\ life > tab[t].life
      [] tab[t].why = "kid" -> withdrawn[tab[t].kid] # Never \/ tab[t].beaten
      [] OTHER -> tab[t].why \in {"provider", "restart"}

\* A session the browser still holds is refused only when its time is up or the
\* server was started with a new key (auth.go Validate, NewManager).
SessionsLast ==
  \A c \in session :
    Valid(c) \/ clock - c.issued > SessionTTL \/ (~fixedKey /\ c.life < life)

\* Logging in is sound: withdrawn keys expire, every refusal has its cause and
\* sessions last.
LoginsSound == WithdrawnKeysExpire /\ RefusalHasCause /\ SessionsLast

=============================================================================
