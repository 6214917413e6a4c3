-------------------------------- MODULE Http --------------------------------
(***************************************************************************)
(* The HTTP edge (internal/httpapi/router.go): logging in (Sessions), the  *)
(* rate limit of the heavy routes (RateLimit), the streams (Streams) and   *)
(* the page that shows one of them (LiveStream).                           *)
(*                                                                         *)
(* A request meets the first three one after the other, and they share no  *)
(* state; the page carries its own picture of the stream it reads.  So a   *)
(* behaviour of the edge is any interleaving of one behaviour of each, and *)
(* a property of one of them fails in such an interleaving only if it      *)
(* fails when the others rest: that is what is explored, part by part.     *)
(* NewRouter mounts the routes twice, so every limiter exists twice; Allow *)
(* is one of them.                                                         *)
(***************************************************************************)
EXTENDS Sessions, RateLimit, Streams, LiveStream

VARIABLE part \* the component that moves

httpVars == <<authVars, limitVars, streamVars, liveVars, part>>

\* A part that rests does so in one of its initial states, whichever.
InitHttp ==
  /\ Init /\ LimitInit /\ StreamsInit /\ LiveInit
  /\ part \in {"sessions", "limit", "streams", "page"}
  /\ part # "sessions" => ~fixedKey /\ ~oidc
  /\ part # "page" => options = CHOOSE o \in Sizes \X Filters \X BOOLEAN : TRUE

NextHttp ==
  /\ UNCHANGED part
  /\ \/ part = "sessions" /\ Next /\ UNCHANGED <<limitVars, streamVars, liveVars>>
     \/ part = "limit" /\ LimitNext /\ UNCHANGED <<authVars, streamVars, liveVars>>
     \/ part = "streams" /\ StreamsNext /\ UNCHANGED <<authVars, limitVars, liveVars>>
     \/ part = "page" /\ LiveNext /\ UNCHANGED <<authVars, limitVars, streamVars>>

\* Fairness of Streams, when it is its turn.
SpecHttp ==
  InitHttp /\ [][NextHttp]_httpVars /\ (part = "streams" => StreamsFairness)

=============================================================================
