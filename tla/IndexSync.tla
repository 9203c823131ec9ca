---- MODULE IndexSync ----
(***************************************************************************)
(* What the watcher promises about one project, with no mention of how:    *)
(* the index follows the files.  Every file carries a version that only    *)
(* grows; index[f] is the version whose content the SQLite rows of f       *)
(* reflect.                                                                *)
(*                                                                         *)
(* Three things excuse a stale row.  noted[f] is the newest version whose  *)
(* loss the program has logged, or that it has skipped (and counted in a   *)
(* number the watcher drops).  unseen[f] is the newest version the event   *)
(* source was never in a position to see.  halted says the watcher has been*)
(* told to stop, or has lost its event source.                             *)
(***************************************************************************)
EXTENDS Naturals

CONSTANTS Files,        \* the files of the project the index covers
          MaxVersion    \* bound on the number of edits to each file

VARIABLES disk, index, noted, unseen, halted

vars == <<disk, index, noted, unseen, halted>>

Versions == {v \in [Files -> Nat] : \A f \in Files : v[f] <= MaxVersion[f]}

Init ==
  /\ disk   = [f \in Files |-> 0]
  /\ index  = [f \in Files |-> 0]
  /\ noted  = [f \in Files |-> 0]
  /\ unseen = [f \in Files |-> 0]
  /\ halted = FALSE

(* An editor saves f.  The change may be lost on the spot, but then only   *)
(* by a loss that is written down, or because the source cannot see f.     *)
Edit(f) ==
  /\ disk[f] < MaxVersion[f]
  /\ disk' = [disk EXCEPT ![f] = @ + 1]
  /\ noted'  \in {noted,  [noted  EXCEPT ![f] = disk[f] + 1]}
  /\ unseen' \in {unseen, [unseen EXCEPT ![f] = disk[f] + 1]}
  /\ UNCHANGED <<index, halted>>

(* One transaction moves some rows forward.  No row ever goes back to an   *)
(* older version, none runs ahead of the disk.                             *)
Sync ==
  /\ index' \in Versions
  /\ \A f \in Files : index[f] <= index'[f] /\ index'[f] <= disk[f]
  /\ UNCHANGED <<disk, noted, unseen, halted>>

(* The loss of the current versions of a set of files is written down.     *)
Note(F) ==
  /\ noted' = [f \in Files |-> IF f \in F THEN disk[f] ELSE noted[f]]
  /\ UNCHANGED <<disk, index, unseen, halted>>

Halt ==
  /\ halted' = TRUE
  /\ UNCHANGED <<disk, index, noted, unseen>>

Next ==
  \/ \E f \in Files : Edit(f)
  \/ Sync
  \/ \E F \in SUBSET Files : Note(F)
  \/ Halt

Spec == Init /\ [][Next]_vars

Settled(f) == disk[f] \in {index[f], noted[f], unseen[f]}

(* A row that has gone stale is brought up to date, or its staleness is    *)
(* accounted for, or the watcher is on its way out.                        *)
EventuallySettled == \A f \in Files : (index[f] # disk[f]) ~> (Settled(f) \/ halted)
====
