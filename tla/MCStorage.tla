----------------------------- MODULE MCStorage -----------------------------
(* One connector, and one request or stream; two bodies of two pieces put  *)
(* under two keys while one reader reads and a listing walks, with a       *)
(* crash; five rows in groups of two; two committers.                      *)
EXTENDS Storage

CONSTANTS c1, h1, s1
=============================================================================
