--------------------------- MODULE MCAlertEngine ---------------------------
(* Two rules that both match the records of the one source.                *)
EXTENDS AlertEngine, TLC

CONSTANTS r1, r2, s1
MCMatches == (s1 :> {r1, r2})
=============================================================================
