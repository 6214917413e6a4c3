------------------------------ MODULE MCIngest ------------------------------
(* Two connectors, the writer and the alert engine on one small bus.       *)
EXTENDS Ingest

CONSTANTS c1, c2
=============================================================================
