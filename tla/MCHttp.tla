------------------------------- MODULE MCHttp -------------------------------
(* Two tabs that log in while the provider rotates its key once and the    *)
(* server restarts once; two addresses; three streams for two places; one  *)
(* page.                                                                   *)
EXTENDS Http
=============================================================================
