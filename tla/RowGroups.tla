----------------------------- MODULE RowGroups -----------------------------
(***************************************************************************)
(* The Parquet writer (internal/storage/parquet/writer.go): rows gather in *)
(* a builder, and a full builder becomes a row group of the file.  Rows    *)
(* are numbered in the order they are appended.  Writing a row group and   *)
(* the footer may fail; NewRecord has emptied the builder by then.         *)
(***************************************************************************)
EXTENDS Integers, Sequences, FiniteSets

CONSTANTS
  RowGroupCap, \* rowGroupCap
  MaxRows      \* bound

ASSUME RowGroupsAssumption == RowGroupCap \in Nat \ {0} /\ MaxRows \in Nat

VARIABLES
  bldr,        \* the rows in bldr
  pendingRows, \* pending
  writing,     \* bldr is not nil
  groups,      \* the rows of the file, in order
  footer,      \* the file has its footer
  rowsMade,    \* history: rows appended
  lostRows     \* history: rows of a row group that could not be written

rowVars == <<bldr, pendingRows, writing, groups, footer, rowsMade, lostRows>>

RowsInit ==
  /\ bldr = <<>> /\ pendingRows = 0 /\ writing = TRUE
  /\ groups = <<>> /\ footer = FALSE /\ rowsMade = 0 /\ lostRows = {}

-----------------------------------------------------------------------------
\* A flush that forgets its rows' number before it knows their fate.
FlushResets(rows, n, ok) ==
  /\ bldr' = IF ok THEN <<>> ELSE rows
  /\ groups' = IF ok THEN groups \o rows ELSE groups
  /\ pendingRows' = 0
  /\ UNCHANGED lostRows

\* Flush with these rows in the builder and n pending, and whether it returns
\* nil.  NewRecord empties the builder before pq.Write may fail.  That the file
\* writer takes further groups after a failed one is assumed of the library.
FlushRows(rows, n, ok) ==
  IF n = 0
  THEN ok /\ bldr' = rows /\ pendingRows' = n /\ UNCHANGED <<groups, lostRows>>
  ELSE /\ bldr' = <<>>
       /\ groups' = IF ok THEN groups \o rows ELSE groups
       /\ lostRows' = IF ok THEN lostRows
                            ELSE lostRows \cup {rows[i] : i \in 1 .. Len(rows)}
       /\ pendingRows' = IF ok THEN 0 ELSE n

\* Append, also as AppendAll calls it; the caller may go on after an error.
AppendRow ==
  /\ writing /\ rowsMade < MaxRows /\ rowsMade' = rowsMade + 1
  /\ LET rows == Append(bldr, rowsMade') IN
     IF pendingRows + 1 >= RowGroupCap
     THEN \E ok \in BOOLEAN : FlushRows(rows, pendingRows + 1, ok)
     ELSE /\ bldr' = rows /\ pendingRows' = pendingRows + 1
          /\ UNCHANGED <<groups, lostRows>>
  /\ UNCHANGED <<writing, footer>>

FlushBuilder ==
  /\ writing /\ \E ok \in BOOLEAN : FlushRows(bldr, pendingRows, ok)
  /\ UNCHANGED <<writing, footer, rowsMade>>

\* Close: without its last row group the file gets no footer either.
CloseWriter ==
  /\ writing /\ writing' = FALSE
  /\ \E ok \in BOOLEAN :
       /\ FlushRows(bldr, pendingRows, ok)
       /\ footer' \in (IF ok THEN BOOLEAN ELSE {FALSE})
  /\ UNCHANGED rowsMade

RowsNext == AppendRow \/ FlushBuilder \/ CloseWriter

RowsSpec == RowsInit /\ [][RowsNext]_rowVars

-----------------------------------------------------------------------------
\* Every row is in the file, in the builder, or lost with a row group that
\* could not be written, and in one place only; the file keeps the order; no
\* row is left in the builder as if there were none, so that a file with a
\* footer lacks no row but those whose loss was reported (writer.go Flush,
\* Close).
RowsAccounted ==
  LET kept == groups \o bldr IN
  /\ \A i, j \in 1 .. Len(kept) : i < j => kept[i] < kept[j]
  /\ {kept[i] : i \in 1 .. Len(kept)} = (1 .. rowsMade) \ lostRows
  /\ pendingRows = 0 => bldr = <<>>
  /\ footer => bldr = <<>>

=============================================================================
