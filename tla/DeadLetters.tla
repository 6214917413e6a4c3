---------------------------- MODULE DeadLetters ----------------------------
(***************************************************************************)
(* The dead-letter stores behind the dispatcher (internal/alerts/          *)
(* deadletter.go): a file of one JSON row per line, or a ring in memory,   *)
(* and the faults the file meets: an open, a write or a sync that fails,   *)
(* and a machine that stops half way through a line and is restarted.      *)
(*                                                                         *)
(* A line is the sequence of what was written to it: rows, whole or cut    *)
(* short.  The file is read back by splitting it at newlines, so a line is *)
(* a row only when it holds one whole row and nothing else.  Of the lines  *)
(* that end in a newline only the rows they hold are kept, in no order.    *)
(***************************************************************************)
EXTENDS Dispatcher, SequencesExt

CONSTANTS
  Configured,    \* SUNNY_ALERTS_DLQ_PATH is set
  MaxEntriesArg, \* maxEntries as NewMemoryDeadLetterStore gets it
  MaxFaults      \* bound: inserts that fail, and restarts

ASSUME DeadLettersAssumption ==
  Configured \in BOOLEAN /\ MaxEntriesArg \in Int /\ MaxFaults \in Nat

MaxEntries == IF MaxEntriesArg <= 0 THEN 1024 ELSE MaxEntriesArg

VARIABLES
  store,      \* the store in use, "file" or "memory"
  rows,       \* rows of the file's lines that end in a newline
  tail,       \* its last line when that does not, else <<>>
  entries,    \* MemoryDeadLetterStore.entries
  acked,      \* history: rows whose insert returned nil, by store
  torn,       \* history: writes that left a line without its newline
  faults      \* inserts that failed, and restarts

storeVars == <<store, rows, tail, entries, acked, torn, faults>>
allVars == <<vars, storeVars>>

\* ResolveDeadLetterStore: a file that cannot be opened falls back to memory.
Resolved == IF Configured THEN {"file", "memory"} ELSE {"memory"}

StoreInit ==
  /\ store \in Resolved
  /\ rows = {} /\ tail = <<>> /\ entries = <<>>
  /\ acked = [k \in {"file", "memory"} |-> {}]
  /\ torn = 0 /\ faults = 0

InitDLQ == Init /\ StoreInit

-----------------------------------------------------------------------------
(* FileDeadLetterStore *)

\* splitLines and Unmarshal: a line is a row when it is exactly one.
RowOf(line) ==
  IF Len(line) = 1 /\ line[1].whole THEN {line[1].row} ELSE {}

\* Rows written without their newline.
WriteFileBare(d, whole, newline) ==
  /\ tail' = Append(tail, [row |-> d, whole |-> whole])
  /\ torn' = torn + IF newline THEN 0 ELSE 1
  /\ UNCHANGED rows

\* Append a piece to the last line, and a newline when newline holds.
WriteFile(d, whole, newline) ==
  LET line == Append(tail, [row |-> d, whole |-> whole]) IN
  /\ IF newline THEN rows' = rows \cup RowOf(line) /\ tail' = <<>>
                ELSE tail' = line /\ UNCHANGED rows
  /\ torn' = torn + IF newline THEN 0 ELSE 1

\* Every failure of InsertDeadLetter: the open, the write at any length, the
\* sync after a complete write.
InsertFails(d) ==
  \/ UNCHANGED <<rows, tail, torn>>
  \/ \E whole \in BOOLEAN : WriteFile(d, whole, FALSE)
  \/ WriteFile(d, TRUE, TRUE)

(* MemoryDeadLetterStore *)

Evict(s) == IF Len(s) > MaxEntries
            THEN SubSeq(s, Len(s) - MaxEntries + 1, Len(s)) ELSE s

\* ListDeadLetters, without a limit.
Listed == [file |-> rows \cup RowOf(tail), memory |-> Range(entries)]

-----------------------------------------------------------------------------
\* The end of deliverWithRetry with the store's part spelled out.
Insert(d) ==
  /\ DeadLetter(d)
  /\ \/ /\ dlq' = dlq \cup {d}
        /\ IF store = "file"
           THEN WriteFile(d, TRUE, TRUE) /\ UNCHANGED entries
           ELSE /\ entries' = Evict(Append(entries, d))
                /\ UNCHANGED <<rows, tail, torn>>
        /\ acked' = [acked EXCEPT ![store] = @ \cup {d}]
        /\ UNCHANGED faults
     \/ /\ dlq' = dlq
        /\ store = "file" /\ faults < MaxFaults
        /\ faults' = faults + 1
        /\ InsertFails(d)
        /\ UNCHANGED <<entries, acked>>
  /\ UNCHANGED store

\* The machine stops, during an insert perhaps, and the server starts again:
\* deliveries under way, counters and the ring are gone, the file stays.
Restart ==
  /\ faults < MaxFaults
  /\ faults' = faults + 1
  /\ \/ UNCHANGED <<rows, tail, torn>>
     \/ \E d \in Deliveries :
          job[d] = "dead" /\ store = "file" /\ InsertFails(d)
  /\ job' = [d \in Deliveries |-> IF job[d] = "none" THEN "none" ELSE "gone"]
  /\ attempt' = [d \in Deliveries |-> 0]
  /\ permanent' = {} /\ delivered' = {} /\ deadLet' = {} /\ dlq' = {}
  /\ cancelled' = FALSE
  /\ store' \in Resolved
  /\ entries' = <<>>
  /\ acked' = [acked EXCEPT !.memory = {}]

JobStepDLQ(d) ==
  \/ Insert(d)
  \/ /\ \/ DeliverOk(d) \/ DeliverFails(d)
        \/ \E perm \in BOOLEAN : DeliverGivesUp(d, perm)
        \/ BackoffElapses(d) \/ BackoffCancelled(d)
     /\ UNCHANGED storeVars

NextDLQ ==
  \/ (DispatchNext \/ Cancel) /\ UNCHANGED storeVars
  \/ Restart
  \/ \E d \in Deliveries : JobStepDLQ(d)

\* As in Dispatcher: every delivery keeps running while its process does.
SpecDLQ ==
  InitDLQ /\ [][NextDLQ]_allVars
    /\ \A d \in Deliveries : WF_allVars(JobStepDLQ(d))

-----------------------------------------------------------------------------
\* A dead letter whose insert returned nil is listed from then on ("Crash-safe
\* (each row is one fsynced line)", deadletter.go), with these exceptions and
\* no other: a write cut short costs at most one accepted row, the one glued
\* to it; the ring drops the oldest beyond its capacity, and only those.
LossesAccounted ==
  LET lost(k) == Cardinality(acked[k] \ Listed[k]) IN
  /\ lost("file") <= torn
  /\ lost("memory") <= Cardinality(acked.memory) - Len(entries)
  /\ Len(entries) < MaxEntries => lost("memory") = 0

=============================================================================
