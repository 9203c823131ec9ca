---- MODULE WatchLoop ----
(***************************************************************************)
(* The watcher of one project (mekami-cli/internal/watch): file-system     *)
(* events travel from the kernel through the Source's channel, the reader  *)
(* goroutine and the Coalescer to the loop goroutine, which turns a batch  *)
(* into one ingest build.                                                  *)
(*                                                                         *)
(* Goroutines: the Source's pump, the reader, the goroutine that closes    *)
(* stop, the timer callback, the loop.  A file is a member of Files; its   *)
(* content is a version number that grows with every save, so that         *)
(* "stale", "up to date" and "went backwards" are comparisons.  Event      *)
(* kinds are abstracted away: the loop only uses them in a log line.       *)
(***************************************************************************)
EXTENDS Naturals, Sequences, FiniteSets, SequencesExt

CONSTANTS
  Files,        \* files of the project that Filter.Accept lets through
  Structural,   \* go.mod, go.work, go.sum: a batch with one is a full build
  Noise,        \* paths with a watch that Filter.Accept rejects
  LateFiles,    \* files in directories made after the Source's startup walk
  MaxVersion,   \* bound on the number of edits to each file
  KernelCap,    \* room in the kernel's event queue
  ChanCap,      \* room in the Source's channel (1024 in the code)
  Buffered      \* room in the coalescer (4096 in the code)

ASSUME FilesAssumption == /\ Structural \subseteq Files
                          /\ LateFiles \subseteq Files
                          /\ Noise \cap Files = {}
                          /\ IsFiniteSet(Files)
ASSUME BoundsAssumption == /\ MaxVersion \in [Files -> Nat]
                           /\ KernelCap \in Nat \ {0}
                           /\ ChanCap \in Nat \ {0}
                           /\ Buffered \in Nat \ {0}

VARIABLES
  disk,       \* version of each file on disk
  index,      \* version each file's rows in the index reflect
  noted,      \* newest version whose loss was logged, or whose file was skipped
  unseen,     \* newest version no Source was in a position to see
  watching,   \* the Source has its watches in place
  kernel,     \* the kernel's event queue
  out,        \* the Source's channel of events
  srcClosed,  \* the Source has closed that channel
  pending,    \* keys of Coalescer.events
  timer,      \* Coalescer.timer is running: the quiet window is open
  wakeup,     \* the token in Coalescer.wakeup (a channel of capacity 1)
  reader,     \* where the reader goroutine is
  stop,       \* the stop channel is closed
  loop,       \* where the loop goroutine is
  batch,      \* the batch being handled
  todo,       \* files the running build has not read yet
  staged,     \* rows the running build will commit
  built,      \* meta last_root is set: the database has been built
  cancelled   \* ctx is done (SIGINT, SIGTERM or a stop over IPC)

fileVars == <<disk, noted, unseen>>
srcVars  == <<watching, kernel, out, srcClosed>>
coalVars == <<pending, timer, wakeup>>
loopVars == <<loop, batch, todo, staged, built, index>>
vars == <<fileVars, srcVars, coalVars, reader, stop, loopVars, cancelled>>

Versions == {v \in [Files -> Nat] : \A f \in Files : v[f] <= MaxVersion[f]}
Paths    == Files \cup Noise

Halted == cancelled \/ srcClosed

(* What is written down about the files of F: their current version.      *)
NotedFor(F) == [f \in Files |-> IF f \in F THEN disk[f] ELSE noted[f]]

(* The three ways a watcher starts.  Run (mekami watch) runs the on-start  *)
(* build, or skips it, and only then creates its Source; RunDaemon creates *)
(* the Source and enters the loop.                                         *)
Init ==
  /\ disk = [f \in Files |-> 0]
  /\ index = [f \in Files |-> 0]
  /\ noted = [f \in Files |-> 0]
  /\ unseen = [f \in Files |-> 0]
  /\ kernel = <<>> /\ out = <<>> /\ srcClosed = FALSE
  /\ pending = {} /\ timer = FALSE /\ wakeup = FALSE
  /\ reader = "recv" /\ stop = FALSE /\ cancelled = FALSE
  /\ batch = {} /\ staged = index
  /\ \/ loop = "build"  /\ todo = Files /\ watching = FALSE /\ built = TRUE
     \/ loop = "attach" /\ todo = {}    /\ watching = FALSE /\ built \in BOOLEAN
     \/ loop = "drain"  /\ todo = {}    /\ watching = TRUE  /\ built \in BOOLEAN

-----------------------------------------------------------------------------
(* The file system and its event queue.                                    *)

(* A save.  What is saved once the watcher is on its way out is of no      *)
(* concern to it: Save is bounded by Halted (EditNoise is not).            *)
Save(f) ==
  /\ disk[f] < MaxVersion[f] /\ ~Halted
  /\ disk' = [disk EXCEPT ![f] = @ + 1]

(* A save the Source has a watch for, queued by the kernel.                *)
EditSeen(f) ==
  /\ watching /\ f \notin LateFiles
  /\ Len(kernel) < KernelCap
  /\ Save(f)
  /\ kernel' = Append(kernel, f)
  /\ UNCHANGED <<noted, unseen, watching, out, srcClosed, coalVars, reader, stop,
                 loopVars, cancelled>>

(* The queue is full: the event is lost and fsnotify reports the overflow, *)
(* which the pump logs.                                                    *)
EditOverflows(f) ==
  /\ watching /\ f \notin LateFiles
  /\ Len(kernel) >= KernelCap
  /\ Save(f)
  /\ noted' = [noted EXCEPT ![f] = disk[f] + 1]
  /\ UNCHANGED <<unseen, srcVars, coalVars, reader, stop, loopVars, cancelled>>

(* No watch covers the file: the Source does not exist yet, or the file's  *)
(* directory was created after NewFsnotifySource walked the tree.          *)
EditUnseen(f) ==
  /\ ~watching \/ f \in LateFiles
  /\ Save(f)
  /\ unseen' = [unseen EXCEPT ![f] = disk[f] + 1]
  /\ UNCHANGED <<noted, srcVars, coalVars, reader, stop, loopVars, cancelled>>

EditNoise(n) ==
  /\ watching /\ ~srcClosed /\ Len(kernel) < KernelCap
  /\ kernel' = Append(kernel, n)
  /\ UNCHANGED <<fileVars, watching, out, srcClosed, coalVars, reader, stop,
                 loopVars, cancelled>>

-----------------------------------------------------------------------------
(* The Source's goroutine (FsnotifySource.run).                            *)

Pump ==
  /\ kernel # <<>> /\ ~srcClosed
  /\ Len(out) < ChanCap
  /\ out' = Append(out, Head(kernel))
  /\ kernel' = Tail(kernel)
  /\ UNCHANGED <<fileVars, watching, srcClosed, coalVars, reader, stop, loopVars,
                 cancelled>>

(* The fsnotify watcher goes away under the Source, or could not be made.  *)
SourceCloses ==
  /\ watching /\ ~srcClosed
  /\ srcClosed' = TRUE
  /\ UNCHANGED <<fileVars, watching, kernel, out, coalVars, reader, stop, loopVars,
                 cancelled>>

-----------------------------------------------------------------------------
(* The reader goroutine of RunLoop; it exists once the Source does.        *)

ReaderReady == watching /\ reader = "recv" /\ out # <<>>

ReaderRejects ==
  /\ ReaderReady /\ Head(out) \in Noise
  /\ out' = Tail(out)
  /\ UNCHANGED <<fileVars, watching, kernel, srcClosed, coalVars, reader, stop,
                 loopVars, cancelled>>

(* Mutant: the bound is tested one too late.                               *)
ReaderAddsOneMore ==
  /\ ReaderReady /\ Head(out) \in Files
  /\ Cardinality(pending) <= Buffered
  /\ out' = Tail(out)
  /\ pending' = pending \cup {Head(out)}
  /\ timer' = TRUE
  /\ reader' = "signal"
  /\ UNCHANGED <<fileVars, watching, kernel, srcClosed, wakeup, stop, loopVars,
                 cancelled>>

(* Coalescer.Add up to its unlock: the event is recorded, the timer starts *)
(* again.  The signal comes after the unlock (ReaderSignals).              *)
ReaderAdds ==
  /\ ReaderReady /\ Head(out) \in Files
  /\ Cardinality(pending) < Buffered
  /\ out' = Tail(out)
  /\ pending' = pending \cup {Head(out)}
  /\ timer' = TRUE
  /\ reader' = "signal"
  /\ UNCHANGED <<fileVars, watching, kernel, srcClosed, wakeup, stop, loopVars,
                 cancelled>>

(* The coalescer is full: Add returns FALSE, even for a path it already    *)
(* holds, and the drop is logged.                                          *)
ReaderDrops ==
  /\ ReaderReady /\ Head(out) \in Files
  /\ Cardinality(pending) >= Buffered
  /\ out' = Tail(out)
  /\ noted' = NotedFor({Head(out)})
  /\ UNCHANGED <<disk, unseen, watching, kernel, srcClosed, coalVars, reader, stop,
                 loopVars, cancelled>>

(* Mutant: Add leaves the wakeup to the timer.                             *)
ReaderLeavesItToTimer ==
  /\ reader = "signal"
  /\ reader' = "recv"
  /\ UNCHANGED <<fileVars, srcVars, coalVars, stop, loopVars, cancelled>>

(* Add after its unlock: the token, unless one is there already.           *)
ReaderSignals ==
  /\ reader = "signal"
  /\ wakeup' = TRUE
  /\ reader' = "recv"
  /\ UNCHANGED <<fileVars, srcVars, pending, timer, stop, loopVars, cancelled>>

(* Mutant: the reader ranges over the channel and never looks at ctx.      *)
ReaderIgnoresCtx ==
  /\ watching /\ reader = "recv"
  /\ srcClosed /\ out = <<>>
  /\ reader' = "exited"
  /\ UNCHANGED <<fileVars, srcVars, coalVars, stop, loopVars, cancelled>>

(* ctx is done, or the channel is closed and empty: the reader returns and *)
(* its defers close sourceDone.                                            *)
ReaderExits ==
  /\ watching /\ reader = "recv"
  /\ cancelled \/ (srcClosed /\ out = <<>>)
  /\ reader' = "exited"
  /\ UNCHANGED <<fileVars, srcVars, coalVars, stop, loopVars, cancelled>>

(* Mutant: stop is closed as soon as ctx is done.                          *)
StopClosesEarly ==
  /\ reader = "exited" \/ cancelled
  /\ ~stop
  /\ stop' = TRUE
  /\ UNCHANGED <<fileVars, srcVars, coalVars, reader, loopVars, cancelled>>

(* The goroutine that waits for sourceDone and closes stop.                *)
StopCloses ==
  /\ reader = "exited" /\ ~stop
  /\ stop' = TRUE
  /\ UNCHANGED <<fileVars, srcVars, coalVars, reader, loopVars, cancelled>>

(* The timer callback: flush signals when there is something pending.      *)
TimerFires ==
  /\ timer
  /\ timer' = FALSE
  /\ wakeup' = (wakeup \/ pending # {})
  /\ UNCHANGED <<fileVars, srcVars, pending, reader, stop, loopVars, cancelled>>

Cancel ==
  /\ ~cancelled
  /\ cancelled' = TRUE
  /\ UNCHANGED <<fileVars, srcVars, coalVars, reader, stop, loopVars>>

-----------------------------------------------------------------------------
(* The loop goroutine: Drain, handleBatch, FlushImmediately.               *)

(* Run creates the Source after the on-start pass and enters RunLoop.      *)
Attach ==
  /\ loop = "attach"
  /\ watching' = TRUE
  /\ loop' = "drain"
  /\ UNCHANGED <<fileVars, kernel, out, srcClosed, coalVars, reader, stop, batch,
                 todo, staged, built, index, cancelled>>

(* Drain takes the token; the batch is only taken under the lock, later.   *)
DrainWakes ==
  /\ loop = "drain" /\ wakeup
  /\ wakeup' = FALSE
  /\ loop' = "woken"
  /\ UNCHANGED <<fileVars, srcVars, pending, timer, reader, stop, batch, todo,
                 staged, built, index, cancelled>>

(* Drain sees stop: it clears the map and returns the leftover with FALSE. *)
(* RunLoop does not look at it.                                            *)
DrainStops ==
  /\ loop = "drain" /\ stop
  /\ pending' = {} /\ timer' = FALSE
  /\ loop' = "flush"
  /\ UNCHANGED <<fileVars, srcVars, wakeup, reader, stop, batch, todo,
                 staged, built, index, cancelled>>

(* drainLocked after a wakeup, and the look at stop that follows it.  (The *)
(* timer runs on over an empty map; as flush then does nothing and the     *)
(* next Add restarts it, it counts as stopped.)                            *)
Drained ==
  /\ loop = "woken"
  /\ pending' = {} /\ timer' = FALSE
  /\ batch' = IF stop THEN {} ELSE pending
  /\ loop' = IF stop THEN "flush"
             ELSE IF pending = {} THEN "drain" ELSE "begin"
  /\ UNCHANGED <<fileVars, srcVars, wakeup, reader, stop, todo, staged,
                 built, index, cancelled>>

(* Mutant: the batch is built under a coalescer that is told to forget     *)
(* its token, as if nothing could have been added since Drain.             *)
HandleBatchClearsToken ==
  /\ loop = "begin" /\ ~cancelled
  /\ LET full == batch \cap Structural # {} \/ ~built
     IN  /\ todo' = IF full THEN Files ELSE batch
         /\ built' = (built \/ full)
  /\ staged' = index
  /\ wakeup' = FALSE
  /\ loop' = "build"
  /\ UNCHANGED <<fileVars, srcVars, pending, timer, reader, stop, batch, index,
                 cancelled>>

(* handleBatch up to the start of the build.  A structural file, or a      *)
(* database with no last_root, turns the batch into a full build.          *)
HandleBatch ==
  /\ loop = "begin" /\ ~cancelled
  /\ LET full == batch \cap Structural # {} \/ ~built
     IN  /\ todo' = IF full THEN Files ELSE batch
         /\ built' = (built \/ full)
  /\ staged' = index
  /\ loop' = "build"
  /\ UNCHANGED <<fileVars, srcVars, coalVars, reader, stop, batch, index, cancelled>>

(* A worker of the build fingerprints and parses f.                        *)
ReadFile(f) ==
  /\ loop = "build" /\ f \in todo
  /\ staged' = [staged EXCEPT ![f] = disk[f]]
  /\ todo' = todo \ {f}
  /\ UNCHANGED <<fileVars, srcVars, coalVars, reader, stop, loop, batch, built,
                 index, cancelled>>

(* Mutant: a file that cannot be parsed counts as removed.                 *)
SkipFileRemovesRows(f) ==
  /\ loop = "build" /\ f \in todo
  /\ noted' = NotedFor({f})
  /\ staged' = [staged EXCEPT ![f] = 0]
  /\ todo' = todo \ {f}
  /\ UNCHANGED <<disk, unseen, srcVars, coalVars, reader, stop, loop, batch,
                 built, index, cancelled>>

(* f cannot be parsed: it is counted in FilesSkipped, which handleBatch    *)
(* drops without a line in the log, and its old rows stay.  (A file that is*)
(* removed is a matter of Ingest.)                                         *)
SkipFile(f) ==
  /\ loop = "build" /\ f \in todo
  /\ noted' = NotedFor({f})
  /\ todo' = todo \ {f}
  /\ UNCHANGED <<disk, unseen, srcVars, coalVars, reader, stop, loop, batch, staged,
                 built, index, cancelled>>

AfterBuild == IF watching THEN "drain" ELSE "attach"

(* tx.Commit; a transaction of a done ctx is rolled back instead.          *)
BuildCommits ==
  /\ loop = "build" /\ todo = {} /\ ~cancelled
  /\ index' = staged
  /\ batch' = {}
  /\ loop' = AfterBuild
  /\ UNCHANGED <<fileVars, srcVars, coalVars, reader, stop, todo, staged, built,
                 cancelled>>

(* Mutant: an error that is neither logged nor counted.                    *)
BuildFailsQuietly ==
  /\ \/ loop = "build"
     \/ loop = "begin" /\ cancelled
  /\ batch' = {} /\ todo' = {} /\ staged' = index
  /\ loop' = AfterBuild
  /\ UNCHANGED <<fileVars, srcVars, coalVars, reader, stop, built, index,
                 cancelled>>

(* Any error of the build, a done ctx among them: nothing is committed,    *)
(* the loop logs the error and does not try again.  The on-start pass is   *)
(* about every file.                                                       *)
BuildFails ==
  /\ \/ loop = "build"
     \/ loop = "begin" /\ cancelled
  /\ noted' = NotedFor(IF watching THEN batch ELSE Files)
  /\ batch' = {} /\ todo' = {} /\ staged' = index
  /\ loop' = AfterBuild
  /\ UNCHANGED <<disk, unseen, srcVars, coalVars, reader, stop, built, index,
                 cancelled>>

(* The end of RunLoop: FlushImmediately, a last handleBatch when it finds  *)
(* something (under a ctx that may be done), and the deferred src.Stop.    *)
FlushReturns ==
  /\ loop = "flush" /\ pending = {}
  /\ loop' = "returned"
  /\ srcClosed' = TRUE
  /\ UNCHANGED <<fileVars, watching, kernel, out, coalVars, reader, stop, batch,
                 todo, staged, built, index, cancelled>>

-----------------------------------------------------------------------------
Editing ==
  \/ \E f \in Files : EditSeen(f) \/ EditOverflows(f) \/ EditUnseen(f)
  \/ \E n \in Noise : EditNoise(n)

Reader == ReaderRejects \/ ReaderAdds \/ ReaderDrops \/ ReaderSignals \/ ReaderExits

Building ==
  \/ \E f \in Files : ReadFile(f) \/ SkipFile(f)
  \/ BuildCommits
  \/ BuildFails

Loop ==
  \/ Attach \/ DrainWakes \/ DrainStops \/ Drained \/ HandleBatch
  \/ Building
  \/ FlushReturns

Next ==
  \/ Editing
  \/ Pump \/ SourceCloses
  \/ Reader \/ StopCloses
  \/ TimerFires
  \/ Cancel
  \/ Loop

(* The Go scheduler runs a goroutine that can run, and a select with two   *)
(* ready cases picks one at random, so the reader does not pass over a     *)
(* done ctx for ever (the strong fairness of ReaderExits).  Nothing forces *)
(* an editor to save, a user to cancel or a Source to break.               *)
Fairness ==
  /\ WF_vars(Pump)
  /\ WF_vars(Reader)
  /\ SF_vars(ReaderExits)
  /\ WF_vars(StopCloses)
  /\ WF_vars(Loop)

Spec == Init /\ [][Next]_vars /\ Fairness

-----------------------------------------------------------------------------
(* Each variable has its type, and the coalescer never outgrows its bound. *)
TypeOK ==
  /\ disk \in Versions /\ index \in Versions
  /\ noted \in Versions /\ unseen \in Versions
  /\ staged \in Versions
  /\ watching \in BOOLEAN /\ srcClosed \in BOOLEAN /\ built \in BOOLEAN
  /\ timer \in BOOLEAN /\ wakeup \in BOOLEAN /\ stop \in BOOLEAN
  /\ cancelled \in BOOLEAN
  /\ kernel \in Seq(Paths) /\ Len(kernel) <= KernelCap
  /\ out \in Seq(Paths) /\ Len(out) <= ChanCap
  /\ pending \subseteq Files /\ Cardinality(pending) <= Buffered
  /\ batch \subseteq Files /\ todo \subseteq Files
  /\ reader \in {"recv", "signal", "exited"}
  /\ loop \in {"attach", "drain", "woken", "begin", "build", "flush", "returned"}

(* Events recorded in the coalescer always have a wakeup on its way to the *)
(* loop: the token itself, the reader between unlock and signal, or a loop *)
(* that has taken the token and not yet the batch.  (Add signals after it  *)
(* unlocks, Drain takes the token before it locks.)                        *)
NoLostWakeup ==
  pending # {} => \/ wakeup
                  \/ reader = "signal"
                  \/ loop = "woken"

(* The current version of f is still travelling: some event about it has   *)
(* not been consumed, or the running build has its newest content in hand. *)
InFlight(f) ==
  \/ Contains(kernel, f) \/ Contains(out, f)
  \/ f \in pending
  \/ loop = "begin" /\ f \in batch
  \/ loop = "build" /\ f \in batch /\ (f \in todo \/ staged[f] = disk[f])

(* No save is lost in silence: while the watcher runs, a stale row has an  *)
(* event or a build on its way, or the loss has been logged, or no Source  *)
(* could see the save.  The one loss nobody is told of is that of a file   *)
(* which a build has skipped (SkipFile).                                   *)
NoSilentLoss ==
  \A f \in Files : \/ disk[f] \in {index[f], noted[f], unseen[f]}
                   \/ InFlight(f)
                   \/ Halted

(* Once stop is closed nothing reaches the coalescer any more, so the      *)
(* FlushImmediately that follows Drain has nothing to return.              *)
FlushFindsNothing == loop = "flush" => pending = {}

IndexOf == INSTANCE IndexSync WITH halted <- Halted

(* The watcher implements IndexSync: rows only move forward, never past    *)
(* the disk, and nothing but a logged loss is written down.                *)
RefinesIndexSync == IndexOf!Spec

(* A stale row is brought up to date, or accounted for, or the watcher is  *)
(* stopping.                                                               *)
EventuallySettled == IndexOf!EventuallySettled

(* A cancelled watcher leaves RunLoop, however many events keep arriving.  *)
ShutdownTerminates == cancelled ~> (loop = "returned")

====
