--------------------------- MODULE StorageProofs ---------------------------
(***************************************************************************)
(* Proofs about what the storage tier puts on disk: the object store, the  *)
(* Parquet row groups and the table's metadata, each with its inductive    *)
(* invariant, and all of them together as parts of Storage.                *)
(***************************************************************************)
EXTENDS Storage, SequenceTheorems, TLAPS

(***************************************************************************)
(* The object store.  A file that has ever been under a key is a whole     *)
(* body whose data has reached the disk (Durable), so whatever a crash     *)
(* brings back is whole too; the Put that made it is over (WholeFile).     *)
(***************************************************************************)
WholeFile(p, k) ==
  size[p] = Size /\ p \in synced /\ put[p].at = "done" /\ put[p].key = k

Places == {"idle", "copy", "rename", "done", "failed"}

PutRecord == [at : Places, key : Keys \cup {""}]

ObjectsType ==
  /\ put \in [Puts -> PutRecord]
  /\ size \in [Puts -> 0 .. Size]
  /\ entry \in [Keys -> SUBSET Puts] /\ past \in [Keys -> SUBSET (SUBSET Puts)]
  /\ temps \subseteq Puts /\ pastTemps \subseteq Puts
  /\ handle \in [Readers -> SUBSET [key : Keys, file : Puts]]
  /\ crashes \in Nat

\* A Put with data on its way has a key, and one about to rename is synced.
UnderWay ==
  \A p \in Puts :
    /\ put[p].at \in {"copy", "rename"} => put[p].key \in Keys
    /\ put[p].at = "rename" => size[p] = Size /\ p \in synced

Durable ==
  /\ \A k \in Keys : entry[k] \in past[k]
  /\ \A k \in Keys : \A e \in past[k] : \A p \in e : WholeFile(p, k)

OpenWhole == \A r \in Readers : \A h \in handle[r] : WholeFile(h.file, h.key)

Walked == through \subseteq Present

ObjectsInv ==
  ObjectsType /\ UnderWay /\ Durable /\ OpenWhole /\ NoLeftovers /\ Walked /\ ListComplete

LEMMA InitObjects == ObjectsInit => ObjectsInv
<1> SUFFICES ASSUME ObjectsInit PROVE ObjectsInv
  OBVIOUS
<1>1. 0 \in 0 .. Size
  BY ObjectStoreAssumption
<1>2. Idle \in PutRecord /\ Idle.at = "idle"
  BY DEF Idle, Places, PutRecord
<1> HIDE DEF Idle
<1>3. ObjectsType
  BY <1>1, <1>2 DEF ObjectsInit, ObjectsType
<1>4. \A p \in Puts : put[p].at = "idle"
  BY <1>2 DEF ObjectsInit
<1>5. UnderWay /\ NoLeftovers
  BY <1>4 DEF ObjectsInit, UnderWay, NoLeftovers
<1>6. Durable /\ OpenWhole
  BY DEF ObjectsInit, Durable, OpenWhole
<1>7. Walked /\ ListComplete
  BY DEF ObjectsInit, Walked, ListComplete
<1> QED
  BY <1>3, <1>5, <1>6, <1>7 DEF ObjectsInv

\* A whole file stays whole, so names and open files stay sound, as long as
\* nobody touches it.
LEMMA WholeKept ==
  ASSUME ObjectsType, Durable, OpenWhole, UNCHANGED <<entry, past, handle>>,
         \A q \in Puts, k \in Keys : WholeFile(q, k) => WholeFile(q, k)'
  PROVE  Durable' /\ OpenWhole'
<1>1. \A k \in Keys : \A e \in past[k] : \A q \in e : q \in Puts
  BY DEF ObjectsType
<1>2. \A r \in Readers : \A h \in handle[r] : h.file \in Puts /\ h.key \in Keys
  <2>1. \A r \in Readers : handle[r] \subseteq [key : Keys, file : Puts]
    BY DEF ObjectsType
  <2>2. \A h \in [key : Keys, file : Puts] : h.file \in Puts /\ h.key \in Keys
    OBVIOUS
  <2> QED
    BY <2>1, <2>2
<1>3. Durable'
  BY <1>1 DEF Durable
<1>4. OpenWhole'
  BY <1>2 DEF OpenWhole
<1> QED
  BY <1>3, <1>4

\* A Put moves on and keeps its key.
LEMMA Moved ==
  ASSUME NEW x \in PutRecord, NEW a \in Places
  PROVE  /\ [x EXCEPT !.at = a] \in PutRecord
         /\ [x EXCEPT !.at = a].at = a /\ [x EXCEPT !.at = a].key = x.key
BY DEF PutRecord

\* A Put under way changes neither names nor open files.
LEMMA PutStep ==
  ASSUME ObjectsInv, NEW p \in Puts,
         CreateTemp(p) \/ CopyPiece(p) \/ Sync(p) \/ PutFails(p)
  PROVE  ObjectsInv'
<1>t. /\ ObjectsType /\ UnderWay /\ Durable /\ OpenWhole /\ NoLeftovers /\ Walked
      /\ ListComplete
  BY DEF ObjectsInv
<1>y. /\ put \in [Puts -> PutRecord]
      /\ size \in [Puts -> 0 .. Size] /\ temps \subseteq Puts /\ pastTemps \subseteq Puts
  BY <1>t DEF ObjectsType
<1>u. UNCHANGED <<entry, past, handle, listVars, crashes>>
  BY DEF CreateTemp, CopyPiece, Sync, PutFails
<1>1. /\ put' \in [Puts -> PutRecord]
      /\ \A q \in Puts : q # p => put'[q] = put[q]
      /\ put[p].at # "done"
      /\ put'[p].at \in {"copy", "rename"} => put'[p].key \in Keys
      /\ put'[p].at = "rename" => (put[p].at = "copy" /\ size[p] = Size) \/ put'[p] = put[p]
  <2>1. CASE CreateTemp(p)
    <3>1. PICK k \in Keys, a \in {"copy", "failed"} :
            put' = [put EXCEPT ![p] = [at |-> a, key |-> k]]
      BY <2>1 DEF CreateTemp
    <3>2. put'[p] = [at |-> a, key |-> k] /\ \A q \in Puts : q # p => put'[q] = put[q]
      BY <1>y, <3>1
    <3>3. [at |-> a, key |-> k] \in PutRecord
      BY DEF Places, PutRecord
    <3>4. put' \in [Puts -> PutRecord]
      BY <1>y, <3>1, <3>3
    <3>5. put'[p].at = a /\ put'[p].key = k /\ put[p].at = "idle"
      BY <2>1, <3>2 DEF CreateTemp
    <3> QED
      BY <3>2, <3>4, <3>5
  <2>2. CASE CopyPiece(p)
    BY <2>2, <1>y, <1>t DEF CopyPiece, UnderWay
  <2>3. CASE Sync(p) \/ PutFails(p)
    <3>1. PICK a \in {"rename", "failed"} : put' = [put EXCEPT ![p].at = a]
            /\ (a = "rename" => put[p].at = "copy" /\ size[p] = Size)
      BY <2>3 DEF Sync, PutFails, PutAt
    <3>p. put' = [put EXCEPT ![p] = [put[p] EXCEPT !.at = a]] /\ a \in Places
      BY <1>y, <3>1 DEF Places
    <3>2. /\ \A q \in Puts : q # p => put'[q] = put[q]
          /\ put'[p].at = a /\ put'[p].key = put[p].key
      BY <1>y, <3>p, Moved
    <3>3. put' \in [Puts -> PutRecord]
      BY <1>y, <3>p, Moved
    <3>4. put[p].at \in {"copy", "rename"}
      BY <2>3 DEF Sync, PutFails
    <3> QED
      BY <1>t, <3>1, <3>2, <3>3, <3>4 DEF UnderWay
  <2> QED
    BY <2>1, <2>2, <2>3
<1>2. /\ size' \in [Puts -> 0 .. Size] /\ \A q \in Puts : q # p => size'[q] = size[q]
      /\ size'[p] = size[p] \/ (put'[p] = put[p] /\ put[p].at = "copy")
  <2>1. CASE CopyPiece(p)
    <3>1. size[p] \in 0 .. Size /\ size[p] < Size /\ size' = [size EXCEPT ![p] = size[p] + 1]
      BY <2>1, <1>y DEF CopyPiece
    <3>2. size[p] + 1 \in 0 .. Size
      BY <3>1, ObjectStoreAssumption
    <3> QED
      BY <2>1, <1>y, <3>1, <3>2 DEF CopyPiece
  <2>2. CASE ~CopyPiece(p)
    BY <2>2, <1>y DEF CreateTemp, Sync, PutFails
  <2> QED
    BY <2>1, <2>2
<1>3. /\ synced \subseteq synced'
      /\ put'[p].at = "rename" /\ put[p].at = "copy" => p \in synced'
  <2>1. CASE Sync(p)
    BY <2>1 DEF Sync
  <2>2. CASE ~Sync(p)
    <3>1. synced' = synced
      BY <2>2 DEF CreateTemp, CopyPiece, PutFails
    <3>2. CASE CopyPiece(p)
      BY <3>1, <3>2 DEF CopyPiece
    <3>3. CASE CreateTemp(p)
      BY <3>1, <3>3 DEF CreateTemp
    <3>4. CASE PutFails(p)
      BY <1>y, <3>1, <3>4 DEF PutFails, PutAt
    <3> QED
      BY <2>2, <3>2, <3>3, <3>4
  <2> QED
    BY <2>1, <2>2
<1>4. /\ temps' \subseteq Puts /\ pastTemps' \subseteq Puts
      /\ temps' \subseteq temps \cup {p}
      /\ p \in temps' => put'[p].at \in {"copy", "rename"} \/ (p \in temps /\ put'[p].at = "failed" /\ put[p].at = "idle")
  <2>1. CASE CreateTemp(p)
    <3>1. PICK k \in Keys :
            \/ /\ put' = [put EXCEPT ![p] = [at |-> "copy", key |-> k]]
               /\ temps' = temps \cup {p} /\ pastTemps' = pastTemps \cup {p}
            \/ /\ put' = [put EXCEPT ![p] = [at |-> "failed", key |-> k]]
               /\ UNCHANGED <<temps, pastTemps>>
      BY <2>1 DEF CreateTemp
    <3>2. put'[p] = [at |-> "copy", key |-> k] => put'[p].at = "copy"
      OBVIOUS
    <3>3. put'[p] = [at |-> "failed", key |-> k] => put'[p].at = "failed"
      OBVIOUS
    <3>4. put[p].at = "idle"
      BY <2>1 DEF CreateTemp
    <3> QED
      BY <1>y, <3>1, <3>2, <3>3, <3>4
  <2>2. CASE CopyPiece(p)
    BY <2>2, <1>y DEF CopyPiece
  <2>3. CASE Sync(p)
    BY <2>3, <1>y DEF Sync, PutAt
  <2>4. CASE PutFails(p)
    BY <2>4, <1>y DEF PutFails, PutAt
  <2> QED
    BY <2>1, <2>2, <2>3, <2>4
<1>5. ObjectsType'
  BY <1>t, <1>u, <1>1, <1>2, <1>4 DEF ObjectsType
<1>6. UnderWay'
  <2> SUFFICES ASSUME NEW q \in Puts
               PROVE  /\ put'[q].at \in {"copy", "rename"} => put'[q].key \in Keys
                      /\ put'[q].at = "rename" => size'[q] = Size /\ q \in synced'
    BY DEF UnderWay
  <2>1. CASE q # p
    BY <1>t, <1>1, <1>2, <1>3, <2>1 DEF UnderWay
  <2>2. CASE q = p
    BY <1>t, <1>1, <1>2, <1>3, <2>2 DEF UnderWay
  <2> QED
    BY <2>1, <2>2
<1>7. \A q \in Puts, k \in Keys : WholeFile(q, k) => WholeFile(q, k)'
  BY <1>1, <1>2, <1>3 DEF WholeFile
<1>8. Durable' /\ OpenWhole'
  BY <1>t, <1>u, <1>7, WholeKept
<1>9. NoLeftovers'
  BY <1>t, <1>u, <1>1, <1>4 DEF NoLeftovers
<1>10. Walked' /\ ListComplete'
  BY <1>t, <1>u DEF Walked, ListComplete, Present, listVars
<1> QED
  BY <1>5, <1>6, <1>8, <1>9, <1>10 DEF ObjectsInv

\* Rename puts a whole file under its key.
LEMMA RenameStep ==
  ASSUME ObjectsInv, NEW p \in Puts, Rename(p)
  PROVE  ObjectsInv'
<1>t. /\ ObjectsType /\ UnderWay /\ Durable /\ OpenWhole /\ NoLeftovers /\ Walked
      /\ ListComplete
  BY DEF ObjectsInv
<1>y. /\ put \in [Puts -> PutRecord]
      /\ entry \in [Keys -> SUBSET Puts] /\ past \in [Keys -> SUBSET (SUBSET Puts)]
      /\ temps \subseteq Puts
  BY <1>t DEF ObjectsType
<1>k. PICK k \in Keys : k = put[p].key
  BY <1>t DEF Rename, UnderWay
<1>1. /\ put[p].at = "rename" /\ size[p] = Size /\ p \in synced
      /\ entry' = [entry EXCEPT ![k] = {p}]
      /\ past' = [past EXCEPT ![k] = @ \cup {{p}}]
      /\ temps' = temps \ {p} /\ put' = [put EXCEPT ![p].at = "done"]
      /\ UNCHANGED <<size, synced, pastTemps, handle, listVars, crashes>>
  BY <1>t, <1>k DEF Rename, UnderWay, PutAt
<1>p. put' = [put EXCEPT ![p] = [put[p] EXCEPT !.at = "done"]] /\ "done" \in Places
  BY <1>1 DEF Places
<1>2. /\ put'[p].at = "done" /\ put'[p].key = k /\ \A q \in Puts : q # p => put'[q] = put[q]
      /\ put' \in [Puts -> PutRecord]
  BY <1>k, <1>p, <1>y, Moved
<1>3. /\ entry'[k] = {p} /\ \A j \in Keys : j # k => entry'[j] = entry[j]
      /\ past'[k] = past[k] \cup {{p}} /\ \A j \in Keys : j # k => past'[j] = past[j]
      /\ entry' \in [Keys -> SUBSET Puts]
  BY <1>1, <1>y
<1>4. past' \in [Keys -> SUBSET (SUBSET Puts)]
  <2>1. past[k] \cup {{p}} \in SUBSET (SUBSET Puts)
    BY <1>1, <1>y
  <2> QED
    BY <1>1, <1>y, <2>1
<1>5. ObjectsType'
  BY <1>1, <1>2, <1>3, <1>4, <1>t DEF ObjectsType
<1>6. ASSUME NEW q \in Puts, NEW j \in Keys, WholeFile(q, j) PROVE WholeFile(q, j)'
  BY <1>1, <1>2, <1>6 DEF WholeFile
<1>7. WholeFile(p, k)'
  BY <1>1, <1>2 DEF WholeFile
<1>8. UnderWay'
  BY <1>1, <1>2, <1>t DEF UnderWay
<1>9. Durable'
  <2>1. ASSUME NEW j \in Keys, NEW e \in past'[j], NEW q \in e PROVE WholeFile(q, j)'
    <3>1. CASE e \in past[j]
      <4>1. q \in Puts /\ WholeFile(q, j)
        BY <1>t, <1>y, <3>1 DEF Durable
      <4> QED
        BY <1>6, <4>1
    <3>2. CASE e \notin past[j]
      <4>1. j = k /\ e = {p}
        BY <1>3, <3>2
      <4> QED
        BY <1>7, <4>1
    <3> QED
      BY <3>1, <3>2
  <2>2. \A j \in Keys : entry'[j] \in past'[j]
    BY <1>1, <1>3, <1>t DEF Durable
  <2> QED
    BY <2>1, <2>2 DEF Durable
<1>10. OpenWhole'
  <2>1. \A h \in [key : Keys, file : Puts] : h.file \in Puts /\ h.key \in Keys
    OBVIOUS
  <2>2. \A r \in Readers : handle[r] \subseteq [key : Keys, file : Puts]
    BY <1>t DEF ObjectsType
  <2> QED
    BY <1>1, <1>6, <1>t, <2>1, <2>2 DEF OpenWhole
<1>11. NoLeftovers'
  BY <1>1, <1>2, <1>t, <1>y DEF NoLeftovers
<1>12. Walked' /\ ListComplete'
  BY <1>1, <1>3, <1>t DEF Walked, ListComplete, Present, listVars
<1> QED
  BY <1>5, <1>8, <1>9, <1>10, <1>11, <1>12 DEF ObjectsInv

\* Get opens what is under a key at that moment.
LEMMA GetStep ==
  ASSUME ObjectsInv, NEW r \in Readers, Get(r) \/ CloseObject(r)
  PROVE  ObjectsInv'
<1>t. /\ ObjectsType /\ UnderWay /\ Durable /\ OpenWhole /\ NoLeftovers /\ Walked
      /\ ListComplete
  BY DEF ObjectsInv
<1>y. /\ entry \in [Keys -> SUBSET Puts]
      /\ handle \in [Readers -> SUBSET [key : Keys, file : Puts]]
  BY <1>t DEF ObjectsType
<1>u. UNCHANGED <<putVars, listVars, crashes>>
  BY DEF Get, CloseObject
<1>1. PICK H \in SUBSET [key : Keys, file : Puts] :
        /\ handle' = [handle EXCEPT ![r] = H]
        /\ \A h \in H : WholeFile(h.file, h.key)
  <2>1. CASE Get(r)
    <3>1. PICK k \in Keys : \E p \in entry[k] :
            handle' = [handle EXCEPT ![r] = {[key |-> k, file |-> p]}]
      BY <2>1 DEF Get
    <3>2. PICK p \in entry[k] : handle' = [handle EXCEPT ![r] = {[key |-> k, file |-> p]}]
      BY <3>1
    <3>3. p \in Puts /\ WholeFile(p, k)
      BY <1>t, <1>y DEF Durable
    <3> DEFINE h == [key |-> k, file |-> p]
    <3>4. h \in [key : Keys, file : Puts] /\ h.key = k /\ h.file = p
      BY <3>3
    <3> HIDE DEF h
    <3>5. {h} \in SUBSET [key : Keys, file : Puts]
          /\ \A g \in {h} : WholeFile(g.file, g.key)
      BY <3>3, <3>4
    <3> QED
      BY <3>2, <3>5 DEF h
  <2>2. CASE CloseObject(r)
    <3>1. {} \in SUBSET [key : Keys, file : Puts] /\ \A h \in {} : WholeFile(h.file, h.key)
      OBVIOUS
    <3>2. handle' = [handle EXCEPT ![r] = {}]
      BY <2>2 DEF CloseObject
    <3> QED
      BY <3>1, <3>2
  <2> QED
    BY <2>1, <2>2
<1>2. handle' \in [Readers -> SUBSET [key : Keys, file : Puts]]
  BY <1>y, <1>1
<1>3. \A q \in Readers : handle'[q] = handle[q] \/ handle'[q] = H
  BY <1>y, <1>1
<1>4. \A q \in Puts : \A k : WholeFile(q, k)' <=> WholeFile(q, k)
  BY <1>u DEF putVars, WholeFile
<1>5. OpenWhole'
  <2>1. \A h : WholeFile(h.file, h.key)' <=> WholeFile(h.file, h.key)
    BY <1>u DEF putVars, WholeFile
  <2>2. \A q \in Readers : \A h \in handle'[q] : WholeFile(h.file, h.key)
    BY <1>t, <1>1, <1>3 DEF OpenWhole
  <2> QED
    BY <2>1, <2>2 DEF OpenWhole
<1>6. ObjectsType'
  BY <1>t, <1>u, <1>2 DEF ObjectsType, putVars
<1>7. UnderWay' /\ Durable' /\ NoLeftovers'
  BY <1>t, <1>u DEF putVars, UnderWay, Durable, NoLeftovers, WholeFile
<1>8. Walked' /\ ListComplete'
  BY <1>t, <1>u DEF putVars, listVars, Walked, ListComplete, Present
<1> QED
  BY <1>5, <1>6, <1>7, <1>8 DEF ObjectsInv

LEMMA DeleteStep ==
  ASSUME ObjectsInv, NEW k \in Keys, Delete(k)
  PROVE  ObjectsInv'
<1>t. /\ ObjectsType /\ UnderWay /\ Durable /\ OpenWhole /\ NoLeftovers /\ Walked
      /\ ListComplete
  BY DEF ObjectsInv
<1>y. entry \in [Keys -> SUBSET Puts] /\ past \in [Keys -> SUBSET (SUBSET Puts)]
  BY <1>t DEF ObjectsType
<1>1. /\ entry' = [entry EXCEPT ![k] = {}] /\ past' = [past EXCEPT ![k] = @ \cup {{}}]
      /\ through' = through \ {k}
      /\ UNCHANGED <<put, size, synced, temps, pastTemps, handle, names, yielded, crashes>>
  BY DEF Delete
<1>2. /\ entry'[k] = {} /\ \A j \in Keys : j # k => entry'[j] = entry[j]
      /\ past'[k] = past[k] \cup {{}} /\ \A j \in Keys : j # k => past'[j] = past[j]
      /\ entry' \in [Keys -> SUBSET Puts]
  BY <1>1, <1>y
<1>3. past' \in [Keys -> SUBSET (SUBSET Puts)]
  <2>1. past[k] \cup {{}} \in SUBSET (SUBSET Puts)
    BY <1>y
  <2> QED
    BY <1>1, <1>y, <2>1
<1>4. ObjectsType'
  BY <1>1, <1>2, <1>3, <1>t DEF ObjectsType
<1>5. Durable'
  <2>1. ASSUME NEW j \in Keys, NEW e \in past'[j], NEW p \in e PROVE WholeFile(p, j)'
    <3>1. e \in past[j]
      BY <1>2
    <3> QED
      BY <1>1, <1>t, <3>1 DEF Durable, WholeFile
  <2>2. \A j \in Keys : entry'[j] \in past'[j]
    BY <1>2, <1>t DEF Durable
  <2> QED
    BY <2>1, <2>2 DEF Durable
<1>6. UnderWay' /\ OpenWhole' /\ NoLeftovers' /\ ListComplete'
  BY <1>1, <1>t DEF UnderWay, OpenWhole, NoLeftovers, ListComplete, WholeFile
<1>7. Walked'
  BY <1>1, <1>2, <1>t DEF Walked, Present
<1> QED
  BY <1>4, <1>5, <1>6, <1>7 DEF ObjectsInv

LEMMA WalkingStep ==
  ASSUME ObjectsInv, WalkBegins \/ WalkStep \/ WalkStops
  PROVE  ObjectsInv'
<1>t. /\ ObjectsType /\ UnderWay /\ Durable /\ OpenWhole /\ NoLeftovers /\ Walked
      /\ ListComplete
  BY DEF ObjectsInv
<1>1. UNCHANGED <<putVars, handle, crashes>>
  BY DEF WalkBegins, WalkStep, WalkStops
<1>2. ObjectsType'
  BY <1>1, <1>t DEF putVars, ObjectsType
<1>3. UnderWay' /\ Durable' /\ OpenWhole' /\ NoLeftovers'
  BY <1>1, <1>t DEF putVars, UnderWay, Durable, OpenWhole, NoLeftovers, WholeFile
<1>4. Present' = Present
  BY <1>1 DEF putVars, Present
<1>5. Walked' /\ ListComplete'
  BY <1>t, <1>4 DEF WalkBegins, WalkStep, WalkStops, Walked, ListComplete
<1> QED
  BY <1>2, <1>3, <1>5 DEF ObjectsInv

\* The machine stops: what comes back under a key was there before, whole and
\* on the disk.
LEMMA CrashStep ==
  ASSUME ObjectsInv, CrashObjects
  PROVE  ObjectsInv'
<1>t. ObjectsType /\ UnderWay /\ Durable
  BY DEF ObjectsInv
<1>y. /\ put \in [Puts -> PutRecord]
      /\ size \in [Puts -> 0 .. Size] /\ past \in [Keys -> SUBSET (SUBSET Puts)]
      /\ pastTemps \subseteq Puts /\ crashes \in Nat
  BY <1>t DEF ObjectsType
<1>1. /\ crashes' = crashes + 1
      /\ put' = [p \in Puts |-> IF put[p].at \in {"copy", "rename"}
                               THEN [put[p] EXCEPT !.at = "failed"] ELSE put[p]]
      /\ \A k \in Keys : entry'[k] \in past[k]
      /\ temps' \in SUBSET pastTemps /\ pastTemps' = temps'
      /\ past' = [k \in Keys |-> {entry'[k]}]
      /\ handle' = [r \in Readers |-> {}]
      /\ names' = {} /\ yielded' = {} /\ through' = {}
      /\ UNCHANGED synced
  BY DEF CrashObjects
<1>2. /\ size' \in [Puts -> 0 .. Size]
      /\ \A p \in Puts : p \in synced => size'[p] = size[p]
  BY DEF CrashObjects
<1>3. \E S : entry' \in [Keys -> S]
  BY DEF CrashObjects
<1>4. entry' \in [Keys -> SUBSET Puts] /\ past' \in [Keys -> SUBSET (SUBSET Puts)]
  <2>1. \A k \in Keys : entry'[k] \in SUBSET Puts
    BY <1>1, <1>y
  <2>2. entry' \in [Keys -> SUBSET Puts]
    BY <1>3, <2>1
  <2>3. \A k \in Keys : {entry'[k]} \in SUBSET (SUBSET Puts)
    BY <2>1
  <2> QED
    BY <1>1, <2>2, <2>3
<1>5. \A p \in Puts : /\ put[p].at \notin {"copy", "rename"} => put'[p] = put[p]
                       /\ put'[p].at \notin {"copy", "rename"}
  BY <1>1, <1>y
<1>6. put' \in [Puts -> PutRecord]
  <2>1. "failed" \in Places
    BY DEF Places
  <2>2. \A p \in Puts : [put[p] EXCEPT !.at = "failed"] \in PutRecord
    BY <1>y, <2>1, Moved
  <2> QED
    BY <1>1, <1>y, <2>2
<1>7. ObjectsType'
  BY <1>1, <1>2, <1>4, <1>6, <1>y DEF ObjectsType
<1>8. Durable'
  <2>1. ASSUME NEW k \in Keys, NEW p \in entry'[k] PROVE WholeFile(p, k)'
    <3>1. WholeFile(p, k) /\ p \in Puts
      BY <1>1, <1>t, <1>y DEF Durable
    <3> QED
      BY <1>1, <1>2, <1>5, <3>1 DEF WholeFile
  <2>2. \A k \in Keys : past'[k] = {entry'[k]}
    BY <1>1
  <2> QED
    BY <2>1, <2>2 DEF Durable
<1>9. UnderWay' /\ OpenWhole' /\ Walked' /\ ListComplete'
  BY <1>1, <1>5 DEF UnderWay, OpenWhole, Walked, ListComplete
<1>10. NoLeftovers'
  <2>1. crashes' # 0
    BY <1>1, <1>y
  <2> QED
    BY <2>1 DEF NoLeftovers
<1> QED
  BY <1>7, <1>8, <1>9, <1>10 DEF ObjectsInv

LEMMA ObjectsStep == ObjectsInv /\ [ObjectsNext]_objectVars => ObjectsInv'
<1> SUFFICES ASSUME ObjectsInv, [ObjectsNext]_objectVars PROVE ObjectsInv'
  OBVIOUS
<1>1. CASE UNCHANGED objectVars
  BY <1>1 DEF objectVars, putVars, listVars, ObjectsInv, ObjectsType, UnderWay, Durable,
     OpenWhole, NoLeftovers, Walked, ListComplete, Present, WholeFile
<1> QED
  BY <1>1, PutStep, RenameStep, GetStep, DeleteStep, WalkingStep, CrashStep
  DEF ObjectsNext, Put

LEMMA ObjectsImply == ObjectsInv => ObjectsSound
<1> SUFFICES ASSUME ObjectsInv PROVE WholeObjects
  BY DEF ObjectsInv, ObjectsSound
<1>1. \A k \in Keys : \A p \in entry[k] : WholeFile(p, k)
  BY DEF ObjectsInv, Durable
<1> QED
  BY <1>1 DEF ObjectsInv, OpenWhole, WholeObjects, WholeFile

-----------------------------------------------------------------------------
(***************************************************************************)
(* The Parquet writer.  The rows of the file and of the builder together   *)
(* are an increasing sequence (Increasing) of the rows made but not lost   *)
(* (Kept); a footer is written by the last call only.                      *)
(***************************************************************************)
RowSeq == groups \o bldr

Increasing(s) == \A i, j \in 1 .. Len(s) : i < j => s[i] < s[j]
Elements(s) == {s[i] : i \in 1 .. Len(s)}

RowsInv ==
  /\ bldr \in Seq(Nat) /\ groups \in Seq(Nat) /\ pendingRows \in Nat /\ rowsMade \in Nat
  /\ writing \in BOOLEAN /\ footer \in BOOLEAN
  /\ Increasing(RowSeq)
  /\ Elements(RowSeq) = (1 .. rowsMade) \ lostRows
  /\ lostRows \subseteq 1 .. rowsMade
  /\ pendingRows = 0 => bldr = <<>>
  /\ footer => bldr = <<>> /\ ~writing

LEMMA ElementsConcat ==
  ASSUME NEW s \in Seq(Nat), NEW t \in Seq(Nat)
  PROVE  Elements(s \o t) = Elements(s) \cup Elements(t)
<1>t. /\ Len(s) \in Nat /\ Len(t) \in Nat /\ Len(s \o t) = Len(s) + Len(t)
      /\ \A i \in 1 .. Len(s) + Len(t) :
           (s \o t)[i] = IF i <= Len(s) THEN s[i] ELSE t[i - Len(s)]
  BY LenProperties, ConcatProperties
<1>1. ASSUME NEW i \in 1 .. Len(s) + Len(t)
      PROVE  (s \o t)[i] \in Elements(s) \cup Elements(t)
  <2>1. CASE i <= Len(s)
    BY <1>t, <2>1 DEF Elements
  <2>2. CASE ~(i <= Len(s))
    <3>1. i - Len(s) \in 1 .. Len(t)
      BY <1>t, <2>2
    <3> QED
      BY <1>t, <2>2, <3>1 DEF Elements
  <2> QED
    BY <2>1, <2>2
<1>2. ASSUME NEW i \in 1 .. Len(s) PROVE s[i] \in Elements(s \o t)
  <2>1. i \in 1 .. Len(s) + Len(t) /\ (s \o t)[i] = s[i]
    BY <1>t
  <2> QED
    BY <1>t, <2>1 DEF Elements
<1>3. ASSUME NEW i \in 1 .. Len(t) PROVE t[i] \in Elements(s \o t)
  <2>1. Len(s) + i \in 1 .. Len(s) + Len(t) /\ (s \o t)[Len(s) + i] = t[i]
    BY <1>t
  <2> QED
    BY <1>t, <2>1 DEF Elements
<1> QED
  BY <1>t, <1>1, <1>2, <1>3 DEF Elements

\* The parts of an increasing sequence are increasing and share nothing.
LEMMA IncreasingParts ==
  ASSUME NEW s \in Seq(Nat), NEW t \in Seq(Nat), Increasing(s \o t)
  PROVE  Increasing(s) /\ Elements(s) \cap Elements(t) = {}
<1>t. /\ Len(s) \in Nat /\ Len(t) \in Nat /\ Len(s \o t) = Len(s) + Len(t)
      /\ \A i \in 1 .. Len(s) + Len(t) :
           (s \o t)[i] = IF i <= Len(s) THEN s[i] ELSE t[i - Len(s)]
  BY LenProperties, ConcatProperties
<1>1. \A i \in 1 .. Len(s) : i \in 1 .. Len(s) + Len(t) /\ (s \o t)[i] = s[i]
  BY <1>t
<1>2. ASSUME NEW i \in 1 .. Len(t)
      PROVE  Len(s) + i \in 1 .. Len(s) + Len(t) /\ (s \o t)[Len(s) + i] = t[i]
  BY <1>t
<1>3. Increasing(s)
  BY <1>t, <1>1 DEF Increasing
<1>4. ASSUME NEW i \in 1 .. Len(s), NEW j \in 1 .. Len(t) PROVE s[i] # t[j]
  <2>1. i < Len(s) + j
    BY <1>t
  <2>2. s[i] < t[j]
    BY <1>t, <1>1, <1>2, <2>1 DEF Increasing
  <2>3. s[i] \in Nat /\ t[j] \in Nat
    BY ElementOfSeq
  <2> QED
    BY <2>2, <2>3
<1> QED
  BY <1>3, <1>4 DEF Elements

\* One more row, larger than all before.
LEMMA IncreasingAppend ==
  ASSUME NEW s \in Seq(Nat), Increasing(s), NEW n \in Nat, \A x \in Elements(s) : x < n
  PROVE  Increasing(Append(s, n)) /\ Elements(Append(s, n)) = Elements(s) \cup {n}
<1>t. /\ Len(s) \in Nat /\ Len(Append(s, n)) = Len(s) + 1
      /\ \A i \in 1 .. Len(s) : Append(s, n)[i] = s[i]
      /\ Append(s, n)[Len(s) + 1] = n
  BY LenProperties, AppendProperties
<1>1. 1 .. Len(s) + 1 = (1 .. Len(s)) \cup {Len(s) + 1}
  BY <1>t
<1>2. Elements(Append(s, n)) = Elements(s) \cup {n}
  BY <1>t, <1>1 DEF Elements
<1>3. Increasing(Append(s, n))
  <2> SUFFICES ASSUME NEW i \in 1 .. Len(s) + 1, NEW j \in 1 .. Len(s) + 1, i < j
               PROVE  Append(s, n)[i] < Append(s, n)[j]
    BY <1>t DEF Increasing
  <2>1. i \in 1 .. Len(s)
    BY <1>t
  <2>2. CASE j \in 1 .. Len(s)
    BY <1>t, <2>1, <2>2 DEF Increasing
  <2>3. CASE j = Len(s) + 1
    BY <1>t, <2>1, <2>3 DEF Elements
  <2> QED
    BY <1>1, <2>2, <2>3
<1> QED
  BY <1>2, <1>3

\* A flush of the rows in the builder, whether it can write them or not.
LEMMA FlushKeepsRows ==
  ASSUME NEW rows \in Seq(Nat), NEW n \in Nat, NEW ok \in BOOLEAN, NEW made \in Nat,
         groups \in Seq(Nat), Increasing(groups \o rows),
         Elements(groups \o rows) = (1 .. made) \ lostRows, lostRows \subseteq 1 .. made,
         n = 0 => rows = <<>>,
         FlushRows(rows, n, ok)
  PROVE  /\ bldr' \in Seq(Nat) /\ groups' \in Seq(Nat) /\ pendingRows' \in Nat
         /\ Increasing(RowSeq') /\ Elements(RowSeq') = (1 .. made) \ lostRows'
         /\ lostRows' \subseteq 1 .. made
         /\ bldr' = <<>>
<1>e. /\ <<>> \in Seq(Nat) /\ groups \o rows \in Seq(Nat)
      /\ groups \o <<>> = groups /\ (groups \o rows) \o <<>> = groups \o rows
  BY EmptySeq, ConcatProperties, ConcatEmptySeq
<1>1. CASE n = 0
  BY <1>1, <1>e DEF FlushRows, RowSeq
<1>2. CASE n # 0 /\ ok
  <2>1. bldr' = <<>> /\ groups' = groups \o rows /\ lostRows' = lostRows /\ pendingRows' = 0
    BY <1>2 DEF FlushRows
  <2>2. RowSeq' = groups \o rows
    BY <1>e, <2>1 DEF RowSeq
  <2> QED
    BY <1>e, <2>1, <2>2
<1>3. CASE n # 0 /\ ~ok
  <2>1. /\ bldr' = <<>> /\ groups' = groups /\ pendingRows' = n
        /\ lostRows' = lostRows \cup Elements(rows)
    BY <1>3 DEF FlushRows, Elements
  <2>2. RowSeq' = groups
    BY <1>e, <2>1 DEF RowSeq
  <2>3. /\ Increasing(groups) /\ Elements(groups) \cap Elements(rows) = {}
        /\ Elements(groups \o rows) = Elements(groups) \cup Elements(rows)
    BY IncreasingParts, ElementsConcat
  <2>4. Elements(groups) = (1 .. made) \ lostRows' /\ lostRows' \subseteq 1 .. made
    BY <2>1, <2>3
  <2> QED
    BY <1>e, <2>1, <2>2, <2>3, <2>4
<1> QED
  BY <1>1, <1>2, <1>3

LEMMA InitRows == RowsInit => RowsInv
<1> SUFFICES ASSUME RowsInit PROVE RowsInv
  OBVIOUS
<1>1. bldr = <<>> /\ groups = <<>> /\ <<>> \in Seq(Nat) /\ Len(<<>>) = 0 /\ RowSeq = <<>>
  BY EmptySeq, ConcatEmptySeq DEF RowsInit, RowSeq
<1>2. Increasing(RowSeq) /\ Elements(RowSeq) = {}
  BY <1>1 DEF Increasing, Elements
<1>3. pendingRows = 0 /\ rowsMade = 0 /\ lostRows = {} /\ 1 .. 0 = {}
  BY DEF RowsInit
<1>4. writing \in BOOLEAN /\ footer \in BOOLEAN /\ ~footer
  BY Zenon DEF RowsInit
<1>5. Elements(RowSeq) = (1 .. rowsMade) \ lostRows /\ lostRows \subseteq 1 .. rowsMade
  BY <1>2, <1>3
<1>6. pendingRows \in Nat /\ rowsMade \in Nat
  BY <1>3
<1> QED
  BY <1>1, <1>2, <1>4, <1>5, <1>6 DEF RowsInv

LEMMA AppendRowStep ==
  ASSUME RowsInv, AppendRow
  PROVE  RowsInv'
<1> DEFINE n == rowsMade + 1
           rows == Append(bldr, n)
<1>t. /\ bldr \in Seq(Nat) /\ groups \in Seq(Nat) /\ pendingRows \in Nat /\ rowsMade \in Nat
      /\ Increasing(RowSeq) /\ Elements(RowSeq) = (1 .. rowsMade) \ lostRows
      /\ lostRows \subseteq 1 .. rowsMade /\ writing /\ ~footer
  BY DEF RowsInv, AppendRow
<1>1. n \in Nat /\ rowsMade' = n /\ UNCHANGED <<writing, footer>>
  BY <1>t DEF AppendRow
<1>2. rows \in Seq(Nat) /\ groups \o rows = Append(RowSeq, n) /\ RowSeq \in Seq(Nat)
  <2>1. /\ rows = bldr \o <<n>> /\ <<n>> \in Seq(Nat) /\ RowSeq \in Seq(Nat)
        /\ Append(RowSeq, n) = RowSeq \o <<n>> /\ rows \in Seq(Nat)
    BY <1>t, <1>1, AppendIsConcat, AppendProperties, ConcatProperties DEF RowSeq
  <2>2. (groups \o bldr) \o <<n>> = groups \o (bldr \o <<n>>)
    BY <1>t, <2>1, ConcatAssociative, SMTT(30)
  <2> QED
    BY <2>1, <2>2 DEF RowSeq
<1>3. /\ Increasing(groups \o rows) /\ Elements(groups \o rows) = (1 .. n) \ lostRows
      /\ lostRows \subseteq 1 .. n
  <2>1. \A x \in Elements(RowSeq) : x < n
    BY <1>t
  <2>2. /\ Increasing(groups \o rows)
        /\ Elements(groups \o rows) = Elements(RowSeq) \cup {n}
    BY <1>1, <1>2, <1>t, <2>1, IncreasingAppend, ZenonT(40)
  <2>3. 1 .. n = (1 .. rowsMade) \cup {n} /\ n \notin 1 .. rowsMade
    BY <1>t
  <2> QED
    BY <1>t, <2>2, <2>3
<1>4. CASE pendingRows + 1 >= RowGroupCap
  <2>1. PICK ok \in BOOLEAN : FlushRows(rows, pendingRows + 1, ok)
    BY <1>1, <1>4 DEF AppendRow
  <2>2. pendingRows + 1 \in Nat /\ pendingRows + 1 # 0
    BY <1>t
  <2> HIDE DEF n, rows
  <2>3. /\ bldr' \in Seq(Nat) /\ groups' \in Seq(Nat) /\ pendingRows' \in Nat
        /\ Increasing(RowSeq') /\ Elements(RowSeq') = (1 .. n) \ lostRows'
        /\ lostRows' \subseteq 1 .. n /\ bldr' = <<>>
    BY <1>t, <1>1, <1>2, <1>3, <2>1, <2>2, FlushKeepsRows
  <2> QED
    BY <1>1, <1>t, <2>3 DEF RowsInv
<1>5. CASE ~(pendingRows + 1 >= RowGroupCap)
  <2>1. bldr' = rows /\ pendingRows' = pendingRows + 1 /\ UNCHANGED <<groups, lostRows>>
    BY <1>1, <1>5 DEF AppendRow
  <2>2. RowSeq' = groups \o rows
    BY <2>1 DEF RowSeq
  <2>3. pendingRows' \in Nat /\ pendingRows' # 0
    BY <1>t, <2>1
  <2> HIDE DEF n, rows
  <2> QED
    BY <1>1, <1>2, <1>3, <1>t, <2>1, <2>2, <2>3 DEF RowsInv
<1> QED
  BY <1>4, <1>5

LEMMA FlushStep ==
  ASSUME RowsInv, FlushBuilder \/ CloseWriter
  PROVE  RowsInv'
<1>t. /\ bldr \in Seq(Nat) /\ groups \in Seq(Nat) /\ pendingRows \in Nat /\ rowsMade \in Nat
      /\ Increasing(groups \o bldr) /\ Elements(groups \o bldr) = (1 .. rowsMade) \ lostRows
      /\ lostRows \subseteq 1 .. rowsMade /\ writing /\ ~footer
      /\ (pendingRows = 0 => bldr = <<>>)
  BY DEF RowsInv, RowSeq, FlushBuilder, CloseWriter
<1>1. PICK ok \in BOOLEAN : FlushRows(bldr, pendingRows, ok)
  BY DEF FlushBuilder, CloseWriter
<1>2. /\ bldr' \in Seq(Nat) /\ groups' \in Seq(Nat) /\ pendingRows' \in Nat
      /\ Increasing(RowSeq') /\ Elements(RowSeq') = (1 .. rowsMade) \ lostRows'
      /\ lostRows' \subseteq 1 .. rowsMade /\ bldr' = <<>>
  BY <1>t, <1>1, FlushKeepsRows
<1>3. /\ rowsMade' = rowsMade /\ writing' \in BOOLEAN /\ footer' \in BOOLEAN
      /\ (footer' => ~writing')
  <2>1. CASE FlushBuilder
    BY <1>t, <2>1, Zenon DEF FlushBuilder, RowsInv
  <2>2. CASE CloseWriter
    <3>1. rowsMade' = rowsMade /\ writing' = FALSE /\ footer' \in BOOLEAN
      <4>1. \E b \in BOOLEAN : footer' \in (IF b THEN BOOLEAN ELSE {FALSE})
        BY <2>2 DEF CloseWriter
      <4> QED
        BY <2>2, <4>1, Zenon DEF CloseWriter
    <3> QED
      BY <3>1, Zenon
  <2> QED
    BY <2>1, <2>2
<1> QED
  BY <1>2, <1>3 DEF RowsInv

LEMMA RowsStep == RowsInv /\ [RowsNext]_rowVars => RowsInv'
<1> SUFFICES ASSUME RowsInv, [RowsNext]_rowVars PROVE RowsInv'
  OBVIOUS
<1>1. CASE UNCHANGED rowVars
  BY <1>1 DEF rowVars, RowsInv, RowSeq, Increasing, Elements
<1> QED
  BY <1>1, AppendRowStep, FlushStep DEF RowsNext

LEMMA RowsImply == RowsInv => RowsAccounted
BY DEF RowsInv, RowsAccounted, RowSeq, Increasing, Elements

-----------------------------------------------------------------------------
(***************************************************************************)
(* The table's metadata.  Arrays are made and never changed, so metadata   *)
(* keeps listing what it listed (Lists, ListsKept), and the result of a    *)
(* commit stays one snapshot ahead of what its committer read (Extends).   *)
(***************************************************************************)
Snapshot == [owner : Committers, sequenceNumber : Nat]
Metadata == [lastSequenceNum : Nat, array : Nat, length : Nat]

Accepted(i) == [owner |-> accepted[i], sequenceNumber |-> i]

\* m lists the first of those that have won.
Lists(m) ==
  /\ m.array \in 1 .. Len(arrays) /\ m.length \in 0 .. Len(accepted)
  /\ m.lastSequenceNum = m.length /\ m.length <= Len(arrays[m.array])
  /\ \A i \in 1 .. m.length : arrays[m.array][i] = Accepted(i)

\* r lists what m does, and one more, of c.
Extends(r, m, c) ==
  /\ r.array \in 1 .. Len(arrays) /\ r.length = m.length + 1
  /\ r.lastSequenceNum = r.length /\ r.length <= Len(arrays[r.array])
  /\ \A i \in 1 .. m.length : arrays[r.array][i] = arrays[m.array][i]
  /\ arrays[r.array][r.length] = [owner |-> c, sequenceNumber |-> r.length]

Held ==
  /\ base \in [Committers -> SUBSET Metadata]
  /\ result \in [Committers -> SUBSET Metadata]
  /\ \A c \in Committers : \A m \in base[c] :
       Lists(m) /\ \A n \in base[c] : n = m
  /\ \A c \in Committers : \A r \in result[c] :
       base[c] # {} /\ \A m \in base[c] : Extends(r, m, c)

TableInv ==
  /\ arrays \in Seq(Seq(Snapshot)) /\ accepted \in Seq(Committers)
  /\ current \in Metadata /\ Lists(current) /\ current.length = Len(accepted)
  /\ Held

\* Arrays made and commits accepted are only added to.
Grown ==
  /\ Len(arrays) \in Nat /\ Len(arrays') \in Nat /\ Len(arrays) <= Len(arrays')
  /\ \A a \in 1 .. Len(arrays) : arrays'[a] = arrays[a]
  /\ Len(accepted) \in Nat /\ Len(accepted') \in Nat /\ Len(accepted) <= Len(accepted')
  /\ \A i \in 1 .. Len(accepted) : accepted'[i] = accepted[i]

LEMMA ListsKept ==
  ASSUME NEW m \in Metadata, Lists(m), Grown
  PROVE  Lists(m)'
<1>1. /\ m.array \in 1 .. Len(arrays') /\ arrays'[m.array] = arrays[m.array]
      /\ m.length \in 0 .. Len(accepted')
  BY DEF Lists, Grown
<1>2. \A i \in 1 .. m.length : accepted'[i] = accepted[i]
  BY DEF Lists, Grown, Metadata
<1> QED
  BY <1>1, <1>2 DEF Lists, Accepted

LEMMA ExtendsKept ==
  ASSUME NEW m \in Metadata, NEW r \in Metadata, NEW c \in Committers,
         Lists(m), Extends(r, m, c), Grown
  PROVE  Extends(r, m, c)'
<1>1. /\ r.array \in 1 .. Len(arrays') /\ arrays'[r.array] = arrays[r.array]
      /\ arrays'[m.array] = arrays[m.array]
  BY DEF Lists, Extends, Grown
<1> QED
  BY <1>1 DEF Extends

LEMMA InitTable == TableInit => TableInv
<1> SUFFICES ASSUME TableInit PROVE TableInv
  OBVIOUS
<1>1. /\ arrays = << <<>> >> /\ accepted = <<>> /\ Len(arrays) = 1 /\ arrays[1] = <<>>
      /\ Len(accepted) = 0
  BY DEF TableInit
<1>2. arrays \in Seq(Seq(Snapshot)) /\ accepted \in Seq(Committers)
  BY <1>1
<1>3. /\ current = [lastSequenceNum |-> 0, array |-> 1, length |-> 0]
      /\ current \in Metadata /\ Lists(current)
  BY <1>1 DEF TableInit, NewTableMetadata, Metadata, Lists
<1>4. Held
  BY DEF TableInit, Held
<1> QED
  BY <1>1, <1>2, <1>3, <1>4 DEF TableInv

LEMMA LoadTableStep ==
  ASSUME TableInv, NEW c \in Committers, LoadTable(c)
  PROVE  TableInv'
<1>t. /\ arrays \in Seq(Seq(Snapshot)) /\ accepted \in Seq(Committers)
      /\ current \in Metadata /\ Lists(current) /\ Held
  BY DEF TableInv
<1>1. /\ base[c] = {} /\ base' = [base EXCEPT ![c] = {current}]
      /\ UNCHANGED <<arrays, current, result, accepted>>
  BY DEF LoadTable
<1>2. base' \in [Committers -> SUBSET Metadata]
  BY <1>t, <1>1 DEF Held
<1>3. ASSUME NEW d \in Committers, NEW m \in base'[d]
      PROVE  Lists(m) /\ \A n \in base'[d] : n = m
  BY <1>t, <1>1, <1>3 DEF Held
<1>4. result[c] = {}
  BY <1>t, <1>1 DEF Held
<1>5. ASSUME NEW d \in Committers, NEW r \in result[d]
      PROVE  d # c /\ base'[d] = base[d]
  BY <1>t, <1>1, <1>4 DEF Held
<1>6. \A m : Lists(m)' <=> Lists(m)
  BY <1>1 DEF Lists, Accepted
<1>7. \A r, m, d : Extends(r, m, d)' <=> Extends(r, m, d)
  BY <1>1 DEF Extends
<1>8. Held'
  BY <1>t, <1>1, <1>2, <1>3, <1>5, <1>6, <1>7 DEF Held
<1> QED
  BY <1>1, <1>6, <1>8 DEF TableInv

LEMMA CommitStep ==
  ASSUME TableInv, NEW c \in Committers, Commit(c)
  PROVE  TableInv'
<1>t. /\ arrays \in Seq(Seq(Snapshot)) /\ accepted \in Seq(Committers)
      /\ current \in Metadata /\ Lists(current) /\ current.length = Len(accepted)
      /\ base \in [Committers -> SUBSET Metadata]
      /\ result \in [Committers -> SUBSET Metadata]
      /\ result[c] = {} /\ UNCHANGED <<current, base, accepted>>
  BY DEF TableInv, Held, Commit
<1>1. PICK m \in base[c] :
        LET snap == Numbered(c, m) IN
        /\ arrays' = Append(arrays, Append(SnapshotsOf(m), snap))
        /\ result' = [result EXCEPT ![c] =
                        {[lastSequenceNum |-> snap.sequenceNumber,
                          array |-> Len(arrays'), length |-> m.length + 1]}]
  BY DEF Commit
<1> DEFINE snap == Numbered(c, m)
           list == SnapshotsOf(m)
           made == [lastSequenceNum |-> m.length + 1, array |-> Len(arrays) + 1,
                    length |-> m.length + 1]
<1>2. m \in Metadata /\ Lists(m) /\ \A n \in base[c] : n = m
  BY <1>t DEF TableInv, Held
<1>3. /\ Len(arrays) \in Nat /\ m.length \in Nat /\ m.array \in 1 .. Len(arrays)
      /\ arrays[m.array] \in Seq(Snapshot) /\ m.lastSequenceNum = m.length
      /\ m.length <= Len(arrays[m.array]) /\ Len(accepted) \in Nat
  BY <1>t, <1>2, ElementOfSeq, LenProperties DEF Lists, Metadata
<1>4. /\ snap = [owner |-> c, sequenceNumber |-> m.length + 1] /\ snap \in Snapshot
  BY <1>3 DEF Numbered, Snapshot
<1>5. /\ list \in Seq(Snapshot) /\ Len(list) = m.length
      /\ \A i \in 1 .. m.length : list[i] = arrays[m.array][i]
  <2>1. \A i \in 1 .. m.length : arrays[m.array][i] \in Snapshot
    BY <1>3, ElementOfSeq
  <2>2. /\ list \in Seq(Snapshot)
        /\ Len(list) = IF 1 <= m.length THEN m.length - 1 + 1 ELSE 0
        /\ \A i \in 1 .. m.length - 1 + 1 : list[i] = arrays[m.array][1 + i - 1]
    BY <1>3, <2>1, SubSeqProperties DEF SnapshotsOf
  <2> QED
    BY <1>3, <2>2
<1>6. /\ Append(list, snap) \in Seq(Snapshot) /\ Len(Append(list, snap)) = m.length + 1
      /\ \A i \in 1 .. m.length : Append(list, snap)[i] = arrays[m.array][i]
      /\ Append(list, snap)[m.length + 1] = snap
  <2> HIDE DEF list, snap
  <2> QED
    BY <1>4, <1>5, AppendProperties
<1>7. /\ arrays' \in Seq(Seq(Snapshot)) /\ Len(arrays') = Len(arrays) + 1
      /\ \A a \in 1 .. Len(arrays) : arrays'[a] = arrays[a]
      /\ arrays'[Len(arrays) + 1] = Append(list, snap)
  <2>1. arrays' = Append(arrays, Append(list, snap))
    BY <1>1
  <2> HIDE DEF list, snap
  <2> QED
    BY <1>t, <1>6, <2>1, AppendProperties
<1>8. result' = [result EXCEPT ![c] = {made}] /\ made \in Metadata
  <2>1. result' = [result EXCEPT ![c] =
                     {[lastSequenceNum |-> snap.sequenceNumber,
                       array |-> Len(arrays'), length |-> m.length + 1]}]
    BY <1>1
  <2>2. made \in Metadata
    BY <1>3 DEF Metadata
  <2> QED
    BY <1>4, <1>7, <2>1, <2>2
<1>r. PICK r \in Metadata : r = made
  BY <1>8
<1>9. Grown
  BY <1>t, <1>3, <1>7 DEF Grown
<1>10. Extends(r, m, c)'
  <2>1. /\ r.array = Len(arrays) + 1 /\ r.length = m.length + 1
        /\ r.lastSequenceNum = m.length + 1
    BY <1>r
  <2>2. arrays'[r.array] = Append(list, snap) /\ arrays'[m.array] = arrays[m.array]
    BY <1>3, <1>7, <2>1
  <2> HIDE DEF made, list
  <2> QED
    BY <1>3, <1>4, <1>6, <1>7, <2>1, <2>2, SMTT(30) DEF Extends
<1>z. result' = [result EXCEPT ![c] = {r}]
  BY <1>8, <1>r
<1> HIDE DEF made, list, snap
<1>11. Held'
  <2>1. base' \in [Committers -> SUBSET Metadata] /\ result' \in [Committers -> SUBSET Metadata]
    BY <1>t, <1>z
  <2>2. ASSUME NEW d \in Committers, NEW n \in base[d]
        PROVE  Lists(n)' /\ \A k \in base[d] : k = n
    BY <1>t, <1>9, <2>2, ListsKept DEF TableInv, Held
  <2>3. ASSUME NEW d \in Committers, NEW q \in result'[d], NEW n \in base[d]
        PROVE  Extends(q, n, d)'
    <3>1. CASE d = c
      BY <1>t, <1>2, <1>z, <1>10, <3>1
    <3>2. CASE d # c
      <4>1. q \in result[d] /\ q \in Metadata /\ n \in Metadata
        BY <1>t, <1>z, <3>2
      <4>2. Lists(n) /\ Extends(q, n, d)
        BY <4>1 DEF TableInv, Held
      <4> QED
        BY <1>9, <4>1, <4>2, ExtendsKept
    <3> QED
      BY <3>1, <3>2
  <2>4. ASSUME NEW d \in Committers, NEW q \in result'[d]
        PROVE  base[d] # {}
    BY <1>t, <1>z DEF TableInv, Held
  <2> QED
    BY <1>t, <2>1, <2>2, <2>3, <2>4 DEF Held
<1> QED
  BY <1>t, <1>7, <1>9, <1>11, ListsKept DEF TableInv

LEMMA SwapTableStep ==
  ASSUME TableInv, NEW c \in Committers, SwapTable(c)
  PROVE  TableInv'
<1>t. /\ arrays \in Seq(Seq(Snapshot)) /\ accepted \in Seq(Committers)
      /\ current \in Metadata /\ Lists(current) /\ current.length = Len(accepted)
      /\ base \in [Committers -> SUBSET Metadata]
      /\ result \in [Committers -> SUBSET Metadata]
      /\ Len(arrays) \in Nat /\ Len(accepted) \in Nat
  BY LenProperties DEF TableInv, Held
<1>1. /\ base' = [base EXCEPT ![c] = {}] /\ result' = [result EXCEPT ![c] = {}]
      /\ arrays' = arrays
  BY DEF SwapTable
<1>2. \/ current' = current /\ accepted' = accepted
      \/ /\ current \in base[c] /\ current' \in result[c]
         /\ accepted' = Append(accepted, c)
  BY DEF SwapTable
<1>3. /\ accepted' \in Seq(Committers) /\ Len(accepted') \in Nat
      /\ \A i \in 1 .. Len(accepted) : accepted'[i] = accepted[i]
      /\ Len(accepted) <= Len(accepted')
  <2>1. CASE accepted' = accepted
    BY <1>t, <2>1
  <2>2. CASE accepted' = Append(accepted, c)
    <3>1. /\ accepted' \in Seq(Committers) /\ Len(accepted') = Len(accepted) + 1
          /\ \A i \in 1 .. Len(accepted) : accepted'[i] = accepted[i]
      BY <1>t, <2>2, AppendProperties
    <3> QED
      BY <1>t, <3>1
  <2> QED
    BY <1>2, <2>1, <2>2
<1>4. Grown
  BY <1>t, <1>1, <1>3 DEF Grown
<1>5. Held'
  <2>1. base' \in [Committers -> SUBSET Metadata] /\ result' \in [Committers -> SUBSET Metadata]
    BY <1>t, <1>1
  <2>2. ASSUME NEW d \in Committers, NEW n \in base'[d]
        PROVE  Lists(n)' /\ \A k \in base'[d] : k = n
    <3>1. d # c /\ base'[d] = base[d] /\ n \in Metadata
      BY <1>t, <1>1
    <3>2. Lists(n) /\ \A k \in base[d] : k = n
      BY <3>1 DEF TableInv, Held
    <3> QED
      BY <1>4, <3>1, <3>2, ListsKept
  <2>3. ASSUME NEW d \in Committers, NEW q \in result'[d]
        PROVE  base'[d] # {} /\ \A n \in base'[d] : Extends(q, n, d)'
    <3>1. d # c /\ base'[d] = base[d] /\ q \in result[d] /\ q \in Metadata
      BY <1>t, <1>1
    <3>2. base[d] # {} /\ \A n \in base[d] : n \in Metadata /\ Lists(n) /\ Extends(q, n, d)
      BY <1>t, <3>1 DEF TableInv, Held
    <3> QED
      BY <1>4, <3>1, <3>2, ExtendsKept
  <2> QED
    BY <2>1, <2>2, <2>3 DEF Held
<1>6. CASE current' = current /\ accepted' = accepted
  BY <1>t, <1>3, <1>1, <1>4, <1>5, <1>6, ListsKept DEF TableInv
<1>7. CASE /\ current \in base[c] /\ current' \in result[c]
           /\ accepted' = Append(accepted, c)
  <2>1. PICK r \in result[c] : current' = r
    BY <1>7
  <2>2. r \in Metadata /\ Extends(r, current, c)
    BY <1>t, <1>7 DEF TableInv, Held
  <2>3. Len(accepted') = Len(accepted) + 1 /\ accepted'[Len(accepted) + 1] = c
    BY <1>t, <1>7, AppendProperties
  <2>4. /\ r.array \in 1 .. Len(arrays') /\ r.length = Len(accepted')
        /\ r.lastSequenceNum = r.length /\ r.length <= Len(arrays'[r.array])
    BY <1>t, <1>1, <2>2, <2>3 DEF Extends
  <2>5. ASSUME NEW i \in 1 .. r.length
        PROVE  arrays'[r.array][i] = [owner |-> accepted'[i], sequenceNumber |-> i]
    <3>1. CASE i = r.length
      BY <1>t, <1>1, <2>2, <2>3, <2>4, <3>1 DEF Extends
    <3>2. CASE i # r.length
      <4>1. i \in 1 .. Len(accepted) /\ i \in 1 .. current.length
        BY <1>t, <2>3, <2>4, <3>2
      <4>2. arrays[current.array][i] = [owner |-> accepted[i], sequenceNumber |-> i]
        BY <1>t, <4>1 DEF Lists, Accepted
      <4> QED
        BY <1>1, <1>3, <2>2, <4>1, <4>2 DEF Extends
    <3> QED
      BY <3>1, <3>2
  <2>6. Lists(current)'
    BY <2>1, <1>3, <2>4, <2>5 DEF Lists, Accepted
  <2> QED
    BY <1>t, <1>1, <1>3, <1>5, <2>1, <2>2, <2>4, <2>6 DEF TableInv
<1> QED
  BY <1>2, <1>6, <1>7

LEMMA TableStep == TableInv /\ [TableNext]_tableVars => TableInv'
<1> SUFFICES ASSUME TableInv, [TableNext]_tableVars PROVE TableInv'
  OBVIOUS
<1>1. CASE UNCHANGED tableVars
  <2>1. UNCHANGED <<arrays, current, base, result, accepted>>
    BY <1>1 DEF tableVars
  <2>2. \A m : Lists(m)' <=> Lists(m)
    BY <2>1 DEF Lists, Accepted
  <2>3. \A r, m, d : Extends(r, m, d)' <=> Extends(r, m, d)
    BY <2>1 DEF Extends
  <2>4. Held'
    BY <2>1, <2>2, <2>3 DEF TableInv, Held
  <2> QED
    BY <2>1, <2>2, <2>4 DEF TableInv
<1> QED
  BY <1>1, LoadTableStep, CommitStep, SwapTableStep DEF TableNext

LEMMA TableImplies == TableInv => HistoryIntact
<1> SUFFICES ASSUME TableInv PROVE HistoryIntact
  OBVIOUS
<1>1. ASSUME NEW m \in Metadata, Lists(m)
      PROVE  /\ m.lastSequenceNum = m.length
             /\ SnapshotsOf(m) = [i \in 1 .. m.length |->
                                    [owner |-> accepted[i], sequenceNumber |-> i]]
  <2>1. /\ m.length \in Nat /\ arrays[m.array] \in Seq(Snapshot)
        /\ m.length <= Len(arrays[m.array]) /\ m.lastSequenceNum = m.length
    BY <1>1, ElementOfSeq DEF TableInv, Lists, Metadata
  <2>2. \A i \in 1 .. m.length : arrays[m.array][i] \in Snapshot
    BY <2>1, LenProperties, ElementOfSeq
  <2>3. /\ SnapshotsOf(m) \in Seq(Snapshot)
        /\ Len(SnapshotsOf(m)) = IF 1 <= m.length THEN m.length - 1 + 1 ELSE 0
        /\ \A i \in 1 .. m.length - 1 + 1 : SnapshotsOf(m)[i] = arrays[m.array][1 + i - 1]
    BY <2>1, <2>2, SubSeqProperties DEF SnapshotsOf
  <2>4. /\ SnapshotsOf(m) \in Seq(Snapshot) /\ Len(SnapshotsOf(m)) = m.length
        /\ \A i \in 1 .. m.length : SnapshotsOf(m)[i] = arrays[m.array][i]
    BY <2>1, <2>3
  <2>5. DOMAIN SnapshotsOf(m) = 1 .. m.length
    BY <2>4, LenProperties
  <2>6. SnapshotsOf(m) = [i \in 1 .. m.length |-> SnapshotsOf(m)[i]]
    BY <2>4, <2>5
  <2>7. \A i \in 1 .. m.length :
          SnapshotsOf(m)[i] = [owner |-> accepted[i], sequenceNumber |-> i]
    BY <1>1, <2>4 DEF Lists, Accepted
  <2> QED
    BY <2>1, <2>6, <2>7
<1>2. ASSUME NEW c \in Committers, NEW m \in base[c] PROVE m \in Metadata /\ Lists(m)
  BY DEF TableInv, Held
<1> QED
  BY <1>1, <1>2 DEF TableInv, HistoryIntact

-----------------------------------------------------------------------------
(***************************************************************************)
(* The parts together: whichever moves, the others rest.                   *)
(***************************************************************************)
LakeInv == ObjectsInv /\ RowsInv /\ TableInv

LEMMA LakeInvariant == SpecStorage => []LakeInv
<1>1. InitStorage => LakeInv
  BY InitObjects, InitRows, InitTable DEF InitStorage, LakeInv
<1>2. LakeInv /\ [NextStorage]_storageVars => LakeInv'
  <2> SUFFICES ASSUME LakeInv, [NextStorage]_storageVars PROVE LakeInv'
    OBVIOUS
  <2>1. /\ [ObjectsNext]_objectVars /\ [RowsNext]_rowVars /\ [TableNext]_tableVars
    BY DEF NextStorage, storageVars
  <2> QED
    BY <2>1, ObjectsStep, RowsStep, TableStep DEF LakeInv
<1> QED
  BY <1>1, <1>2, PTL DEF SpecStorage

\* Whatever storage puts on disk is sound, for any number of writers, readers,
\* keys, rows, committers and crashes: objects are whole (object/local.go Put),
\* no row disappears without an error (parquet/writer.go Flush, Close), and a
\* commit touches neither the metadata it was made from nor anyone else's
\* (iceberg/snapshot.go Commit).
THEOREM LakeIsSound == SpecStorage => []LakeSound
<1>1. LakeInv => LakeSound
  BY ObjectsImply, RowsImply, TableImplies DEF LakeInv, LakeSound
<1> QED
  BY <1>1, LakeInvariant, PTL

=============================================================================
