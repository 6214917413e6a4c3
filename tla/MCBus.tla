------------------------------- MODULE MCBus -------------------------------
(* A small bus for TLC: one subscriber may filter on the first publisher,  *)
(* as the stream endpoint filters on a connector id.                       *)
EXTENDS Bus

CONSTANTS p1, p2, s1, s2

MCFilters == {Records, {r \in Records : r.src = p1}}

=============================================================================
