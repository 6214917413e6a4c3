----------------------------- MODULE MCRuntime -----------------------------
(* Two callers of the runtime, one push connector and one pull connector.  *)
EXTENDS Runtime
=============================================================================
