----------------------------- MODULE Snapshots -----------------------------
(***************************************************************************)
(* The table metadata (internal/storage/iceberg/snapshot.go): a commit     *)
(* makes new metadata out of old, and leaves the old as it is, since its   *)
(* caller keeps one or the other by the outcome of a compare-and-swap.     *)
(*                                                                         *)
(* Metadata is a Go struct: it is copied, but its list of snapshots is a   *)
(* slice, that is an array on the heap and a length.  The catalog that     *)
(* holds the current metadata and swaps it is external: there is none yet. *)
(***************************************************************************)
EXTENDS Integers, Sequences, FiniteSets

CONSTANTS
  Committers, \* concurrent writers of the table
  MaxArrays   \* bound: arrays made

ASSUME SnapshotsAssumption == MaxArrays \in Nat

VARIABLES
  arrays,   \* the heap: arrays of snapshots
  current,  \* the catalog's metadata
  base,     \* what a committer has read, at most one
  result,   \* what Commit has returned to it, at most one
  accepted  \* history: who has won, in order

tableVars == <<arrays, current, base, result, accepted>>

\* NewTableMetadata: no snapshots.
NewTableMetadata == [lastSequenceNum |-> 0, array |-> 1, length |-> 0]

TableInit ==
  /\ arrays = << <<>> >>
  /\ current = NewTableMetadata
  /\ base = [c \in Committers |-> {}] /\ result = [c \in Committers |-> {}]
  /\ accepted = <<>>

SnapshotsOf(m) == SubSeq(arrays[m.array], 1, m.length)

-----------------------------------------------------------------------------
LoadTable(c) ==
  /\ base[c] = {} /\ base' = [base EXCEPT ![c] = {current}]
  /\ UNCHANGED <<arrays, current, result, accepted>>

Numbered(c, m) == [owner |-> c, sequenceNumber |-> m.lastSequenceNum + 1]

\* A commit that appends to the array it was given, which has room.
CommitInPlace(c) ==
  /\ result[c] = {}
  /\ \E m \in base[c] :
       LET snap == Numbered(c, m) IN
       /\ arrays' = [arrays EXCEPT ![m.array] =
                       IF Len(@) > m.length THEN [@ EXCEPT ![m.length + 1] = snap]
                                            ELSE Append(@, snap)]
       /\ result' = [result EXCEPT ![c] =
                       {[lastSequenceNum |-> snap.sequenceNumber,
                         array |-> m.array, length |-> m.length + 1]}]
  /\ UNCHANGED <<current, base, accepted>>

\* Commit: the next sequence number, and a copy of the list with one more.
Commit(c) ==
  /\ result[c] = {} /\ Len(arrays) < MaxArrays
  /\ \E m \in base[c] :
       LET snap == Numbered(c, m) IN
       /\ arrays' = Append(arrays, Append(SnapshotsOf(m), snap))
       /\ result' = [result EXCEPT ![c] =
                       {[lastSequenceNum |-> snap.sequenceNumber,
                         array |-> Len(arrays'), length |-> m.length + 1]}]
  /\ UNCHANGED <<current, base, accepted>>

\* The swap succeeds when nobody else has committed meanwhile; or else the
\* result is thrown away.
SwapTable(c) ==
  /\ result[c] # {}
  /\ IF current \in base[c]
     THEN current' \in result[c] /\ accepted' = Append(accepted, c)
     ELSE UNCHANGED <<current, accepted>>
  /\ base' = [base EXCEPT ![c] = {}] /\ result' = [result EXCEPT ![c] = {}]
  /\ UNCHANGED arrays

TableNext == \E c \in Committers : LoadTable(c) \/ Commit(c) \/ SwapTable(c)

TableSpec == TableInit /\ [][TableNext]_tableVars

-----------------------------------------------------------------------------
\* The current metadata lists the snapshots of the committers that have won,
\* in order and numbered without a gap, and so does what any committer still
\* holds of an earlier state: a commit that lost, or has not been decided, has
\* touched neither ("the original is unchanged", snapshot.go Commit).
HistoryIntact ==
  LET Intact(m) ==
        /\ m.lastSequenceNum = m.length
        /\ SnapshotsOf(m) = [i \in 1 .. m.length |->
                               [owner |-> accepted[i], sequenceNumber |-> i]]
  IN /\ current.length = Len(accepted) /\ Intact(current)
     /\ \A c \in Committers : \A m \in base[c] : Intact(m)

=============================================================================
