---------------------------- MODULE MCDispatcher ----------------------------
(* A few alerts, each handed to notifiers that may fail, and a store of    *)
(* dead letters that meets faults of its own.                              *)
EXTENDS DeadLetters
=============================================================================
