---------------------------- MODULE ObjectStore ----------------------------
(***************************************************************************)
(* The object store on a file system (internal/storage/object/local.go):   *)
(* a Put writes a temporary file, syncs it and renames it to its key;      *)
(* reads, deletions and a listing go on meanwhile; any step of a Put may   *)
(* fail, and the machine may stop.                                         *)
(*                                                                         *)
(* Every call of Put has a body of its own, in Size pieces, and makes one  *)
(* file, so a file is named after its Put.  The keys are those of one      *)
(* directory, whose names a walk reads at once.  The code never syncs the  *)
(* directory: what a crash leaves of a name is anything it has been.       *)
(***************************************************************************)
EXTENDS Integers, FiniteSets

CONSTANTS
  Keys,      \* the keys of a directory
  Puts,      \* calls of Put
  Readers,   \* calls of Get under way at a time
  Size,      \* pieces of a body
  MaxCrashes \* bound

ASSUME ObjectStoreAssumption == Size \in Nat \ {0} /\ MaxCrashes \in Nat

VARIABLES
  put,      \* where each Put is, and its key
  size,     \* pieces in its file
  synced,   \* files whose data has reached the disk
  temps,    \* files under their temporary names
  entry,    \* the file under each key, at most one
  past,     \* history: what each key has been since the last crash
  pastTemps, \* history: temporary names there have been since then
  handle,   \* what each reader has open
  names,    \* names the listing has read and not yet looked at
  yielded,  \* keys it has yielded
  through,  \* history: keys that have been there all the time it ran
  crashes

putVars == <<put, size, synced, temps, entry, past, pastTemps>>
listVars == <<names, yielded, through>>
objectVars == <<putVars, handle, listVars, crashes>>

Idle == [at |-> "idle", key |-> ""]

ObjectsInit ==
  /\ put = [p \in Puts |-> Idle]
  /\ size = [p \in Puts |-> 0] /\ synced = {}
  /\ temps = {} /\ entry = [k \in Keys |-> {}]
  /\ past = [k \in Keys |-> {{}}] /\ pastTemps = {}
  /\ handle = [r \in Readers |-> {}]
  /\ names = {} /\ yielded = {} /\ through = {}
  /\ crashes = 0

-----------------------------------------------------------------------------
PutAt(p, place) == put' = [put EXCEPT ![p].at = place]

\* resolve, MkdirAll and CreateTemp, which may fail.
CreateTemp(p) ==
  /\ put[p].at = "idle"
  /\ \E k \in Keys :
       \/ /\ put' = [put EXCEPT ![p] = [at |-> "copy", key |-> k]]
          /\ temps' = temps \cup {p} /\ pastTemps' = pastTemps \cup {p}
       \/ /\ put' = [put EXCEPT ![p] = [at |-> "failed", key |-> k]]
          /\ UNCHANGED <<temps, pastTemps>>
  /\ UNCHANGED <<size, synced, entry, past, handle, listVars, crashes>>

\* One piece of io.Copy.
CopyPiece(p) ==
  /\ put[p].at = "copy" /\ size[p] < Size
  /\ size' = [size EXCEPT ![p] = @ + 1]
  /\ UNCHANGED <<put, synced, temps, entry, past, pastTemps, handle, listVars,
                 crashes>>

\* A Put that leaves the sync out.
SyncNothing(p) ==
  /\ put[p].at = "copy" /\ size[p] = Size
  /\ PutAt(p, "rename")
  /\ UNCHANGED <<size, synced, temps, entry, past, pastTemps, handle, listVars,
                 crashes>>

\* The copy is complete; Sync and Close.
Sync(p) ==
  /\ put[p].at = "copy" /\ size[p] = Size
  /\ synced' = synced \cup {p}
  /\ PutAt(p, "rename")
  /\ UNCHANGED <<size, temps, entry, past, pastTemps, handle, listVars, crashes>>

\* Rename: the temporary name goes, the key's file is replaced.
Rename(p) ==
  /\ put[p].at = "rename"
  /\ LET k == put[p].key IN
     /\ entry' = [entry EXCEPT ![k] = {p}]
     /\ past' = [past EXCEPT ![k] = @ \cup {{p}}]
  /\ temps' = temps \ {p}
  /\ PutAt(p, "done")
  /\ UNCHANGED <<size, synced, pastTemps, handle, listVars, crashes>>

\* The copy, the sync, the close or the rename fails, and the deferred cleanup
\* removes the temporary file.
PutFails(p) ==
  /\ put[p].at \in {"copy", "rename"}
  /\ temps' = temps \ {p}
  /\ PutAt(p, "failed")
  /\ UNCHANGED <<size, synced, entry, past, pastTemps, handle, listVars, crashes>>

Put(p) == CreateTemp(p) \/ CopyPiece(p) \/ Sync(p) \/ Rename(p) \/ PutFails(p)

-----------------------------------------------------------------------------
\* Get of a key that exists: an open file, until the caller closes it.
Get(r) ==
  /\ handle[r] = {}
  /\ \E k \in Keys : \E p \in entry[k] :
       handle' = [handle EXCEPT ![r] = {[key |-> k, file |-> p]}]
  /\ UNCHANGED <<putVars, listVars, crashes>>

CloseObject(r) ==
  /\ handle[r] # {} /\ handle' = [handle EXCEPT ![r] = {}]
  /\ UNCHANGED <<putVars, listVars, crashes>>

Delete(k) ==
  /\ entry[k] # {}
  /\ entry' = [entry EXCEPT ![k] = {}]
  /\ past' = [past EXCEPT ![k] = @ \cup {{}}]
  /\ through' = through \ {k}
  /\ UNCHANGED <<put, size, synced, temps, pastTemps, handle, names, yielded,
                 crashes>>

Present == {k \in Keys : entry[k] # {}}

\* List of the whole root: Walk reads the names, ...
WalkBegins ==
  /\ names = {} /\ names' = Present \cup temps
  /\ yielded' = {} /\ through' = Present
  /\ UNCHANGED <<putVars, handle, crashes>>

\* ... looks at one after the other, and passes over one that has gone; the
\* caller, or its context, may end it early.
WalkStep ==
  /\ \E n \in names :
       /\ names' = names \ {n}
       /\ yielded' = IF n \in Present \cup temps THEN yielded \cup {n} ELSE yielded
  /\ UNCHANGED <<putVars, handle, through, crashes>>

WalkStops ==
  /\ names # {} /\ names' = {} /\ yielded' = {} /\ through' = {}
  /\ UNCHANGED <<putVars, handle, crashes>>

\* The machine stops: calls under way end, data that was not synced may be cut
\* short, and every name is what it is or what it has been.
CrashObjects ==
  /\ crashes < MaxCrashes /\ crashes' = crashes + 1
  /\ put' = [p \in Puts |-> IF put[p].at \in {"copy", "rename"}
                             THEN [put[p] EXCEPT !.at = "failed"] ELSE put[p]]
  /\ size' \in {s \in [Puts -> 0 .. Size] :
                  \A p \in Puts : s[p] = size[p] \/ (p \notin synced /\ s[p] < size[p])}
  /\ entry' \in {e \in [Keys -> UNION {past[k] : k \in Keys}] :
                   \A k \in Keys : e[k] \in past[k]}
  /\ temps' \in SUBSET pastTemps
  /\ past' = [k \in Keys |-> {entry'[k]}] /\ pastTemps' = temps'
  /\ handle' = [r \in Readers |-> {}]
  /\ names' = {} /\ yielded' = {} /\ through' = {}
  /\ UNCHANGED synced

ObjectsNext ==
  \/ \E p \in Puts : Put(p)
  \/ \E r \in Readers : Get(r) \/ CloseObject(r)
  \/ \E k \in Keys : Delete(k)
  \/ WalkBegins \/ WalkStep \/ WalkStops \/ CrashObjects

ObjectsSpec == ObjectsInit /\ [][ObjectsNext]_objectVars

-----------------------------------------------------------------------------
\* What a key names and what a reader has open is always a whole body that was
\* put under that key, though it is overwritten or deleted meanwhile and
\* whatever a crash does to the directory ("concurrent readers either see the
\* old object or the new one -- never a partial", local.go Put).
WholeObjects ==
  /\ \A k \in Keys : \A p \in entry[k] : size[p] = Size /\ put[p].key = k
  /\ \A r \in Readers : \A h \in handle[r] :
       size[h.file] = Size /\ put[h.file].key = h.key

\* Only a crash leaves temporary files behind: a failed Put removes its own
\* (local.go Put, cleanup).
NoLeftovers ==
  crashes = 0 => \A p \in temps : put[p].at \in {"copy", "rename"}

\* A listing that comes to its end has yielded every key that was there all
\* the time, overwritten or not (local.go List).
ListComplete == through \subseteq yielded \cup names

ObjectsSound == WholeObjects /\ NoLeftovers /\ ListComplete

=============================================================================
