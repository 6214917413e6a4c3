------------------------------ MODULE Storage ------------------------------
(***************************************************************************)
(* The storage tier (internal/storage): the writer that fills the events   *)
(* table (Ingest), and what is to become a lake: the object store          *)
(* (ObjectStore), the Parquet files to put there (RowGroups) and the       *)
(* table's metadata (Snapshots).  The server wires only the first; nothing *)
(* calls the others yet, and they share no state.  So a property of one    *)
(* fails in an interleaving of all only if it fails when the others rest,  *)
(* and they are explored one by one.                                       *)
(***************************************************************************)
EXTENDS Ingest, ObjectStore, RowGroups, Snapshots

VARIABLE tier \* the part that moves

storageVars == <<vars, objectVars, rowVars, tableVars, tier>>

InitStorage ==
  /\ Init /\ ObjectsInit /\ RowsInit /\ TableInit
  /\ tier \in {"events", "objects", "rows", "table"}

NextStorage ==
  /\ UNCHANGED tier
  /\ \/ /\ tier = "events" /\ Next
        /\ UNCHANGED <<objectVars, rowVars, tableVars>>
     \/ tier = "objects" /\ ObjectsNext /\ UNCHANGED <<vars, rowVars, tableVars>>
     \/ tier = "rows" /\ RowsNext /\ UNCHANGED <<vars, objectVars, tableVars>>
     \/ tier = "table" /\ TableNext /\ UNCHANGED <<vars, objectVars, rowVars>>

\* Fairness of Ingest, when it is its turn.
SpecStorage ==
  InitStorage /\ [][NextStorage]_storageVars /\ (tier = "events" => Fairness)

-----------------------------------------------------------------------------
\* What storage puts on disk is sound: objects are whole whatever happens to
\* them (ObjectStore), rows are accounted for (RowGroups), and no commit
\* spoils another's metadata (Snapshots).
LakeSound == ObjectsSound /\ RowsAccounted /\ HistoryIntact

=============================================================================
