----------------------------- MODULE RecordLog -----------------------------
(***************************************************************************)
(* What the path from Publish to the events table promises: at-most-once   *)
(* storage.  A record offered once becomes durable at most once, in a      *)
(* batch that is stored whole; it may be lost instead, but a stored record *)
(* is never lost or stored again, and the records of one publisher are     *)
(* stored in publishing order.                                             *)
(***************************************************************************)
EXTENDS Naturals, Sequences, SequencesExt

CONSTANTS Sources, MaxSeq

Items == [src : Sources, seq : 1 .. MaxSeq]

VARIABLES
  offered,  \* records handed to the bus
  durable,  \* the events table, in insertion order
  gone      \* records that will never be stored

logVars == <<offered, durable, gone>>

Init == offered = {} /\ durable = <<>> /\ gone = {}

\* A record is published; nobody published it before.
Offer ==
  /\ \E r \in Items \ offered : offered' = offered \cup {r}
  /\ UNCHANGED <<durable, gone>>

\* A batch of records that are neither durable nor lost becomes durable.
Persist ==
  /\ IsStrictPrefix(durable, durable')
  /\ LET batch == SubSeq(durable', Len(durable) + 1, Len(durable'))
     IN /\ IsInjective(batch)
        /\ ToSet(batch) \subseteq offered \ (ToSet(durable) \cup gone)
        /\ \A i, j \in 1 .. Len(durable') :
             (i < j /\ durable'[i].src = durable'[j].src)
               => durable'[i].seq < durable'[j].seq
  /\ UNCHANGED <<offered, gone>>

\* Some records that are not durable are given up.
Lose ==
  /\ gone \subseteq gone' /\ gone' # gone
  /\ gone' \subseteq offered \ ToSet(durable)
  /\ UNCHANGED <<offered, durable>>

Next == Offer \/ Persist \/ Lose

Spec == Init /\ [][Next]_logVars

=============================================================================
