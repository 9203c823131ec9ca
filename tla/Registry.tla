---- MODULE Registry ----
(***************************************************************************)
(* The supervisor's table of daemons in memory and on disk                 *)
(* (mekami-cli/internal/supervisor, registry.go, and its callers in        *)
(* supervisor.go).  Find hands out a pointer into the backing array of a   *)
(* slice.  Callers write through it without the registry's lock, while     *)
(* Save sorts the array in place and Upsert may move to a larger one.      *)
(* Several goroutines do so at once: requests, the health tick, restarts.  *)
(***************************************************************************)
EXTENDS Naturals, Sequences, FiniteSets, Functions

CONSTANTS
  Roots,      \* project roots, as numbers: the order of their names
  Goroutines, \* goroutines of the supervisor
  MaxStamps,  \* bound on the writes to records
  MaxFailures \* bound on saves that fail and on crashes of the supervisor

Nobody == "nobody"

ASSUME RegistryAssumption == /\ Roots \subseteq Nat /\ Nobody \notin Goroutines
                             /\ MaxStamps \in Nat /\ MaxFailures \in Nat

VARIABLES
  mem,      \* Registry.Daemons; of a record, its root and its last write
  cap,      \* the capacity of the backing array
  array,    \* which backing array it is
  mu,       \* who holds the registry's mutex
  image,    \* what its holder has encoded into the temporary file
  disk,     \* daemons.json
  step, root, ptr,  \* where a goroutine is, its root, its *DaemonState
  stamp,    \* writes so far; each has a number
  latest,   \* the last write meant for each root, of this supervisor
  strayed,  \* roots that a write missed, or hit meaning another one
  unsaved,  \* a save has failed and none has succeeded since
  failures

heap  == <<mem, cap, array>>
saves == <<image, disk, unsaved>>
local == <<root, ptr>>
ghost == <<stamp, latest, strayed>>
tableVars == <<heap, mu, saves, step, local, ghost, failures>>

Nil == <<0, 0>>
NoWrite == 0

TableInit ==
  /\ mem = <<>> /\ cap = 0 /\ array = 1
  /\ mu = Nobody /\ image = <<>> /\ disk = <<>>
  /\ step = [t \in Goroutines |-> "idle"]
  /\ root \in [Goroutines -> Roots] /\ ptr = [t \in Goroutines |-> Nil]
  /\ stamp = 0 /\ latest = [r \in Roots |-> NoWrite] /\ strayed = {}
  /\ unsaved = FALSE /\ failures = 0

Goto(t, next) == step' = [step EXCEPT ![t] = next]

Places(s, r) == {i \in DOMAIN s : s[i].root = r}

(* sort.Slice by root.                                                     *)
IsSortedBy(s, p) ==
  \A i, j \in 1..Len(s) : i < j => s[p[i]].root <= s[p[j]].root
Sorted(s) ==
  LET p == CHOOSE p \in Bijection(1..Len(s), 1..Len(s)) : IsSortedBy(s, p)
  IN  [i \in 1..Len(s) |-> s[p[i]]]

-----------------------------------------------------------------------------
(* What a goroutine does with the record of a root:                        *)
(*   start    Upsert, Save                            Start                *)
(*   note     Find, write if there is one, Save       Stop, checkOne,      *)
(*                                                    tryAdopt, reloadOne  *)
(*   register Find, write or Upsert, Save             Register, persistOne,*)
(*                                                    adoptBeforeStart     *)
Begin(t, r, first) ==
  /\ step[t] = "idle" /\ stamp < MaxStamps
  /\ Goto(t, first) /\ root' = [root EXCEPT ![t] = r]
  /\ UNCHANGED <<heap, mu, saves, ptr, ghost, failures>>

(* Find, under the mutex.                                                  *)
Find(t) ==
  /\ step[t] \in {"note", "register"} /\ mu = Nobody
  /\ LET at == Places(mem, root[t])
     IN  IF at = {}
         THEN /\ Goto(t, IF step[t] = "note" THEN "idle" ELSE "start")
              /\ UNCHANGED ptr
         ELSE /\ Goto(t, "write")
              /\ \E i \in at : ptr' = [ptr EXCEPT ![t] = <<array, i>>]
  /\ UNCHANGED <<heap, mu, saves, root, ghost, failures>>

Stamped(r) ==
  /\ stamp' = stamp + 1
  /\ latest' = [latest EXCEPT ![r] = stamp + 1]

(* Upsert, under the mutex: append moves to a new array when it is full.   *)
Upsert(t) ==
  /\ step[t] = "start" /\ mu = Nobody /\ stamp < MaxStamps
  /\ LET at  == Places(mem, root[t])
         rec == [root |-> root[t], last |-> stamp + 1]
     IN  IF at # {}
         THEN /\ \E i \in at : mem' = [mem EXCEPT ![i] = rec]
              /\ UNCHANGED <<cap, array>>
         ELSE /\ mem' = Append(mem, rec)
              /\ IF Len(mem) < cap
                 THEN UNCHANGED <<cap, array>>
                 ELSE cap' = (IF cap = 0 THEN 1 ELSE 2 * cap) /\ array' = array + 1
  /\ Stamped(root[t]) /\ Goto(t, "save")
  /\ UNCHANGED <<mu, saves, local, strayed, failures>>

Sorting == mu # Nobody /\ step[mu] = "sort"

(* Where a write through <<array, i>> may end up.  While a Save sorts, its *)
(* swaps race with the write: the record that was at i, the one that will  *)
(* be, or, between the two halves of a swap, none.                         *)
Hits(p) ==
  IF p[1] # array THEN {0}
  ELSE LET i == p[2]
           later == CHOOSE j \in DOMAIN mem : mem[j].root = Sorted(mem)[i].root
       IN  IF Sorting /\ Sorted(mem) # mem THEN {i, later, 0} ELSE {i}

(* Mutant: nobody saves what was written.                                  *)
WriteForgetsToSave(t) ==
  /\ step[t] = "write" /\ stamp < MaxStamps /\ ptr[t][1] = array
  /\ mem' = [mem EXCEPT ![ptr[t][2]].last = stamp + 1]
  /\ Stamped(root[t])
  /\ ptr' = [ptr EXCEPT ![t] = Nil] /\ Goto(t, "idle")
  /\ UNCHANGED <<cap, array, mu, saves, root, strayed, failures>>

(* ds.LastState = ..., ds.ConfigHash = ..., without any lock.              *)
Write(t) ==
  /\ step[t] = "write" /\ stamp < MaxStamps
  /\ \E i \in Hits(ptr[t]) :
       /\ mem' = IF i = 0 THEN mem ELSE [mem EXCEPT ![i].last = stamp + 1]
       /\ strayed' = strayed \cup
            (IF i # 0 /\ mem[i].root = root[t] THEN {}
             ELSE {root[t]} \cup (IF i = 0 THEN {} ELSE {mem[i].root}))
  /\ Stamped(root[t])
  /\ ptr' = [ptr EXCEPT ![t] = Nil] /\ Goto(t, "save")
  /\ UNCHANGED <<cap, array, mu, saves, root, failures>>

-----------------------------------------------------------------------------
(* Save, under the mutex: sort, encode into a temporary file, rename.      *)

SaveLocks(t) ==
  /\ step[t] = "save" /\ mu = Nobody
  /\ mu' = t /\ Goto(t, "sort")
  /\ UNCHANGED <<heap, saves, local, ghost, failures>>

SaveEncodes(t) ==
  /\ step[t] = "sort" /\ mem' = Sorted(mem) /\ image' = Sorted(mem)
  /\ Goto(t, "rename")
  /\ UNCHANGED <<cap, array, mu, disk, unsaved, local, ghost, failures>>

SaveRenames(t) ==
  /\ step[t] = "rename" /\ disk' = image /\ unsaved' = FALSE
  /\ mu' = Nobody /\ Goto(t, "idle")
  /\ UNCHANGED <<heap, image, local, ghost, failures>>

(* Mutant: daemons.json is emptied before it is known that it can be       *)
(* written.                                                                *)
SaveFailsTruncated(t) ==
  /\ step[t] \in {"sort", "rename"} /\ failures < MaxFailures
  /\ mem' = Sorted(mem) /\ unsaved' = TRUE /\ failures' = failures + 1
  /\ disk' = <<>> /\ mu' = Nobody /\ Goto(t, "idle")
  /\ UNCHANGED <<cap, array, image, local, ghost>>

(* An error on the way; no caller but Register tells its own caller.       *)
SaveFails(t) ==
  /\ step[t] \in {"sort", "rename"} /\ failures < MaxFailures
  /\ mem' = Sorted(mem) /\ unsaved' = TRUE /\ failures' = failures + 1
  /\ mu' = Nobody /\ Goto(t, "idle")
  /\ UNCHANGED <<cap, array, image, disk, local, ghost>>

(* The supervisor dies; the next one loads what is on disk, into an array  *)
(* that the decoder has grown by doubling.                                 *)
Restart ==
  /\ failures < MaxFailures /\ failures' = failures + 1
  /\ mem' = disk /\ array' = array + 1
  /\ cap' \in Len(disk)..(2 * Len(disk))
  /\ mu' = Nobody /\ image' = <<>> /\ unsaved' = FALSE
  /\ step' = [t \in Goroutines |-> "idle"] /\ ptr' = [t \in Goroutines |-> Nil]
  /\ latest' = [r \in Roots |->
       IF Places(disk, r) = {} THEN NoWrite
       ELSE disk[CHOOSE i \in Places(disk, r) : TRUE].last]
  /\ strayed' = {}
  /\ UNCHANGED <<disk, root, stamp>>

TableNext ==
  \/ \E t \in Goroutines, r \in Roots, first \in {"start", "note", "register"} :
       Begin(t, r, first)
  \/ \E t \in Goroutines :
       \/ Find(t) \/ Upsert(t) \/ Write(t)
       \/ SaveLocks(t) \/ SaveEncodes(t) \/ SaveRenames(t) \/ SaveFails(t)
  \/ Restart

TableSpec == TableInit /\ [][TableNext]_tableVars

-----------------------------------------------------------------------------
Records == Seq([root : Roots, last : 0..MaxStamps])

TableTypeOK ==
  /\ mem \in Records /\ image \in Records /\ disk \in Records
  /\ cap \in Nat /\ Len(mem) <= cap /\ array \in Nat
  /\ mu \in Goroutines \cup {Nobody}
  /\ step \in [Goroutines -> {"idle", "start", "note", "register", "write", "save",
                         "sort", "rename"}]
  /\ root \in [Goroutines -> Roots] /\ ptr \in [Goroutines -> Nat \X Nat]
  /\ stamp \in 0..MaxStamps /\ latest \in [Roots -> 0..MaxStamps]
  /\ strayed \subseteq Roots
  /\ unsaved \in BOOLEAN /\ failures \in 0..MaxFailures

(* However saves, sorts, growth and writes interleave, a root has one      *)
(* record at most.                                                         *)
OneRecordPerRoot ==
  \A s \in {mem, disk} : \A i, j \in DOMAIN s : s[i].root = s[j].root => i = j

(* When nobody is at work, each record tells the last write meant for its  *)
(* root, unless a pointer went astray: over a Save that moved the record,  *)
(* or an Upsert that moved the array.                                      *)
RecordsAreCurrent ==
  (\A t \in Goroutines : step[t] \in {"idle", "note", "register", "start"}) =>
    \A i \in DOMAIN mem :
      mem[i].root \in strayed \/ mem[i].last = latest[mem[i].root]

(* ... and the file tells what the table tells, unless a save has failed.  *)
SavedWhenQuiet ==
  (\A t \in Goroutines : step[t] \in {"idle", "note", "register", "start"}) =>
    unsaved \/ disk = mem

(* What holds of the table and its file at all times: well formed, one     *)
(* record per root, every record up to date and saved unless a pointer     *)
(* strayed or a save failed.                                               *)
TableIsSound ==
  /\ TableTypeOK
  /\ OneRecordPerRoot
  /\ RecordsAreCurrent
  /\ SavedWhenQuiet

(* A root that is in the file stays in it, failed saves and crashes in     *)
(* between included.                                                       *)
NothingIsForgotten ==
  [][\A i \in DOMAIN disk : Places(disk', disk[i].root) # {}]_tableVars
====
