---- MODULE PollerSource ----
(***************************************************************************)
(* The second Source of the watcher (mekami-cli/internal/watch,            *)
(* poller_source.go): a goroutine that walks the tree on every tick and    *)
(* compares the (size, mtime) of each file with those of its last walk.    *)
(* It promises what FsnotifySource promises, so the abstract specification *)
(* is the same: IndexSync.                                                 *)
(*                                                                         *)
(* A file has versions, as in WatchLoop; StatOf[f][v] is what the walk     *)
(* sees of version v: a pair (size, mtime), which two versions may share,  *)
(* or Gone when version v is "the file is not there".                      *)
(***************************************************************************)
EXTENDS Naturals, Sequences, SequencesExt

CONSTANTS
  Files,        \* paths that may hold a file, none in a skipped directory
  Stats,        \* pairs (size, mtime)
  Gone,         \* what is seen of a file that is not there
  Unknown,      \* the nil snapshot: nothing has been looked at yet
  MaxVersion,   \* bound on the number of edits to each file
  StatOf,       \* the stat of each version of each file
  ChanCap,      \* room in the channel (1024 in the code)
  MaxErrors     \* bound on the looks that fail although the file is there

ASSUME StatAssumption == /\ Gone \notin Stats
                         /\ Unknown \notin Stats \cup {Gone}
ASSUME VersionAssumption == /\ MaxVersion \in [Files -> Nat]
                            /\ ChanCap \in Nat \ {0}
                            /\ MaxErrors \in Nat
ASSUME StatOfAssumption ==
  \A f \in Files : \A v \in 0..MaxVersion[f] : StatOf[f][v] \in Stats \cup {Gone}

VARIABLES
  disk,     \* version of each file on disk
  index,    \* version each file's rows in the index reflect
  noted,    \* newest version whose loss was logged
  unseen,   \* newest version that looks like what the poller has seen
  seen,     \* the last complete snapshot
  cur,      \* the snapshot being taken
  left,     \* files the running walk has not come to
  run,      \* where the poller's goroutine is
  todo,     \* events the tick has yet to emit
  out,      \* the channel of events
  stop,     \* the stop channel is closed
  errors    \* looks that have failed

fileVars == <<disk, noted, unseen>>
walkVars == <<seen, cur, left, run>>
vars == <<fileVars, index, walkVars, todo, out, stop, errors>>

Versions == {v \in [Files -> Nat] : \A f \in Files : v[f] <= MaxVersion[f]}
Looks    == Stats \cup {Gone, Unknown}

(* The stat of f the poller has taken last.                                *)
Looked(f) == IF run = "walk" /\ f \notin left THEN cur[f] ELSE seen[f]

(* takeSnapshot: the first walk has nothing to compare with.               *)
First == \A f \in Files : seen[f] = Unknown

(* NewPollerSource starts the goroutine, which begins its first walk.      *)
Init ==
  /\ disk   = [f \in Files |-> 0]
  /\ index  = [f \in Files |-> 0]
  /\ noted  = [f \in Files |-> 0]
  /\ unseen = [f \in Files |-> 0]
  /\ seen   = [f \in Files |-> Unknown]
  /\ cur    = [f \in Files |-> Gone]
  /\ left = Files /\ run = "walk"
  /\ todo = {} /\ out = <<>> /\ stop = FALSE /\ errors = 0

-----------------------------------------------------------------------------
(* An editor saves or removes f, perhaps in the middle of a walk.  The new *)
(* version cannot be told from what the poller has seen last when it has   *)
(* the same stat; before the first look nothing can.                       *)
Edit(f) ==
  /\ disk[f] < MaxVersion[f] /\ ~stop
  /\ disk' = [disk EXCEPT ![f] = @ + 1]
  /\ unseen' = IF Looked(f) \in {Unknown, StatOf[f][disk[f] + 1]}
               THEN [unseen EXCEPT ![f] = disk[f] + 1]
               ELSE unseen
  /\ UNCHANGED <<noted, index, walkVars, todo, out, stop, errors>>

-----------------------------------------------------------------------------
(* The poller's goroutine.                                                 *)

(* time.Ticker: the select of run takes the tick.                          *)
Tick ==
  /\ run = "idle"
  /\ run' = "walk" /\ left' = Files
  /\ cur' = [f \in Files |-> Gone]
  /\ UNCHANGED <<fileVars, index, seen, todo, out, stop, errors>>

(* WalkDir comes to f.  A file that is not there is not in the snapshot.   *)
Look(f) ==
  /\ run = "walk" /\ f \in left
  /\ cur' = [cur EXCEPT ![f] = StatOf[f][disk[f]]]
  /\ left' = left \ {f}
  /\ UNCHANGED <<fileVars, index, seen, run, todo, out, stop, errors>>

(* The walk has an error at f, or at a directory above it, and leaves the  *)
(* file out: from here on it looks removed.                                *)
LookFails(f) ==
  /\ run = "walk" /\ f \in left
  /\ errors < MaxErrors
  /\ errors' = errors + 1
  /\ left' = left \ {f}
  /\ UNCHANGED <<fileVars, index, seen, cur, run, todo, out, stop>>

(* Mutant: the events are those of the files that are there.               *)
WalkEndsWithoutRemovals ==
  /\ run = "walk" /\ left = {}
  /\ seen' = cur
  /\ todo' = IF First THEN {} ELSE {f \in Files : cur[f] \notin {seen[f], Gone}}
  /\ run' = "emit"
  /\ UNCHANGED <<fileVars, index, cur, left, out, stop, errors>>

(* The walk is over: the snapshot is replaced, and only then the           *)
(* differences are emitted.  The first snapshot emits nothing.             *)
WalkEnds ==
  /\ run = "walk" /\ left = {}
  /\ seen' = cur
  /\ todo' = IF First THEN {} ELSE {f \in Files : cur[f] # seen[f]}
  /\ run' = "emit"
  /\ UNCHANGED <<fileVars, index, cur, left, out, stop, errors>>

(* Creates and writes are emitted before removals, otherwise in any order. *)
Emits(f) ==
  /\ run = "emit" /\ f \in todo
  /\ cur[f] = Gone => \A g \in todo : cur[g] = Gone
  /\ todo' = todo \ {f}

(* Mutant: the channel grows past its capacity.                            *)
EmitUnbounded(f) ==
  /\ Emits(f)
  /\ out' = Append(out, f)
  /\ UNCHANGED <<fileVars, index, walkVars, stop, errors>>

Emit(f) ==
  /\ Emits(f)
  /\ Len(out) < ChanCap
  /\ out' = Append(out, f)
  /\ UNCHANGED <<fileVars, index, walkVars, stop, errors>>

(* Mutant: the event is dropped as soon as the channel is full, unlogged.  *)
EmitDropsQuietly(f) ==
  /\ Emits(f)
  /\ ~stop /\ Len(out) >= ChanCap
  /\ UNCHANGED <<fileVars, index, walkVars, out, stop, errors>>

(* The channel is full: the event is logged, and is never emitted again.   *)
EmitDrops(f) ==
  /\ Emits(f)
  /\ ~stop /\ Len(out) >= ChanCap
  /\ noted' = [noted EXCEPT ![f] = disk[f]]
  /\ UNCHANGED <<disk, unseen, index, walkVars, out, stop, errors>>

(* stop is closed: the select of tryEmit may take it instead.              *)
EmitStops(f) ==
  /\ Emits(f)
  /\ stop
  /\ UNCHANGED <<fileVars, index, walkVars, out, stop, errors>>

EmitDone ==
  /\ run = "emit" /\ todo = {}
  /\ run' = "idle"
  /\ UNCHANGED <<fileVars, index, seen, cur, left, todo, out, stop, errors>>

(* run takes stop; its defers close out and done.                          *)
Exits ==
  /\ run = "idle" /\ stop
  /\ run' = "closed"
  /\ UNCHANGED <<fileVars, index, seen, cur, left, todo, out, stop, errors>>

-----------------------------------------------------------------------------
(* The other side: RunLoop takes an event and indexes what the file holds  *)
(* by then (WatchLoop has the steps in between), and calls Stop, which     *)
(* waits for done.                                                         *)

(* Mutant: the consumer believes the kind of the event, as the poller saw  *)
(* it, and removes the rows of a file that may be back.                    *)
ConsumeTrustsKind ==
  /\ out # <<>>
  /\ out' = Tail(out)
  /\ index' = [index EXCEPT ![Head(out)] = IF seen[Head(out)] = Gone THEN 0 ELSE disk[Head(out)]]
  /\ UNCHANGED <<fileVars, walkVars, todo, stop, errors>>

Consume ==
  /\ out # <<>>
  /\ out' = Tail(out)
  /\ index' = [index EXCEPT ![Head(out)] = disk[Head(out)]]
  /\ UNCHANGED <<fileVars, walkVars, todo, stop, errors>>

Stop ==
  /\ ~stop
  /\ stop' = TRUE
  /\ UNCHANGED <<fileVars, index, walkVars, todo, out, errors>>

-----------------------------------------------------------------------------
Walk == \/ \E f \in Files : Look(f) \/ LookFails(f)
        \/ WalkEnds

Emission == \/ \E f \in Files : Emit(f) \/ EmitDrops(f) \/ EmitStops(f)
            \/ EmitDone

Next ==
  \/ \E f \in Files : Edit(f)
  \/ Tick \/ Walk \/ Emission \/ Exits
  \/ Consume
  \/ Stop

(* The goroutines run when they can and the ticker ticks; a select with    *)
(* stop and a tick both ready does not take the tick for ever.  RunLoop    *)
(* consumes until it calls Stop; afterwards nobody does.                   *)
Fairness ==
  /\ WF_vars(Tick \/ Walk \/ Emission \/ Exits)
  /\ SF_vars(Exits)
  /\ WF_vars(~stop /\ Consume)

Spec == Init /\ [][Next]_vars /\ Fairness

-----------------------------------------------------------------------------
TypeOK ==
  /\ disk \in Versions /\ index \in Versions
  /\ noted \in Versions /\ unseen \in Versions
  /\ seen \in [Files -> Looks] /\ cur \in [Files -> Stats \cup {Gone}]
  /\ left \subseteq Files /\ todo \subseteq Files
  /\ run \in {"walk", "emit", "idle", "closed"}
  /\ out \in Seq(Files) /\ Len(out) <= ChanCap
  /\ stop \in BOOLEAN
  /\ errors \in 0..MaxErrors

(* A stale row is on its way to be noticed: the walk has found a           *)
(* difference, an event has not been consumed, or the next look will not   *)
(* find what the last one found.                                           *)
InFlight(f) ==
  \/ f \in todo
  \/ Contains(out, f)
  \/ run = "walk" /\ f \notin left /\ seen[f] \notin {Unknown, cur[f]}
  \/ StatOf[f][disk[f]] # Looked(f)

(* Although the snapshot is replaced before its differences are emitted,   *)
(* no change is lost in silence: a stale row has something on its way, or  *)
(* its event was dropped in the log, or the change cannot be told from     *)
(* what the poller had seen.                                               *)
NoSilentLoss ==
  \A f \in Files : \/ disk[f] \in {index[f], noted[f], unseen[f]}
                   \/ InFlight(f)
                   \/ stop

IndexOf == INSTANCE IndexSync WITH halted <- stop

(* The poller, too, implements IndexSync.                                  *)
RefinesIndexSync == IndexOf!Spec

(* Every visible change is indexed in the end, or its loss is logged,      *)
(* also with files that cannot be looked at for a while.                   *)
EventuallySettled == IndexOf!EventuallySettled
====
