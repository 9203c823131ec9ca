---- MODULE Ingest ----
(***************************************************************************)
(* Builds of one project's index (mekami-cli's core/ingest) by several *)
(* processes at once: the watcher, which turns batches of events into      *)
(* incremental or full builds, and mekami build, started by hand.          *)
(*                                                                         *)
(* They share one SQLite file and nothing else.  A build looks at the      *)
(* database, the tree and each file at different times, and writes in one  *)
(* transaction; what keeps two builds apart is SQLite's one writer, and    *)
(* its refusal to let a transaction write that has read an older state.    *)
(*                                                                         *)
(* A file's content and its sha256 are one value.  Parsing is left to the  *)
(* frontend; what matters here is which content it has seen.               *)
(***************************************************************************)
EXTENDS Naturals

CONSTANTS
  Own,            \* files of the language that is built
  Foreign,        \* paths with rows of a language the project has dropped
  Contents,       \* contents of a file
  Structural,     \* go.mod and the like: in a batch, it asks for a full build
  Hands,          \* builds started by hand
  Watcher,        \* the builder in the watcher
  MaxEdits        \* bound on the number of edits

Builders == Hands \cup {Watcher}
Paths    == Own \cup Foreign

Gone == "gone"      \* no such file

(* What the database holds about a path: the hash in its files row and the *)
(* content its symbols and refs were made from.                            *)
Rows     == [hash : Contents, text : Contents]
RowOf(c) == [hash |-> c, text |-> c]
NoRow    == RowOf(Gone)     \* no row at all
Keep     == RowOf("keep")   \* the transaction leaves the path alone

ASSUME BuilderAssumption == /\ Watcher \notin Hands
                            /\ "no one" \notin Hands \cup {Watcher}
ASSUME PathAssumption == Own \cap Foreign = {} /\ Structural \notin Own
ASSUME ValueAssumption == /\ {Gone, "keep"} \cap Contents = {}
                          /\ MaxEdits \in Nat

VARIABLES
  disk,      \* content of each file
  edits,     \* edits so far
  langs,     \* the watcher was given the project's languages (AllowedLangs)
  dirty,     \* what the watcher has events about
  noted,     \* files whose current content the watcher has logged as lost
  lapsed,    \* history: files a build has lost track of and said nothing
  rows,      \* the committed rows of each path
  hasRoot,   \* meta last_root is set
  built,     \* a full build has been committed to this database
  writer,    \* the builder whose transaction holds the write lock
  pc,        \* where each builder is
  full,      \* it runs Build, not BuildIncremental
  batch,     \* the watcher's batch
  prev,      \* the rows each builder has compared with
  todo,      \* files it has still to look at
  hashed,    \* content it has hashed and not yet parsed
  staged,    \* what its transaction will write
  snap,      \* the state its transaction reads: none yet, fresh, or stale
  orphan     \* its database file has been unlinked under it

envVars == <<disk, edits, langs>>
watchVars == <<dirty, noted, lapsed>>
dbVars == <<rows, hasRoot, built, writer>>
jobVars == <<pc, full, batch, prev, todo, hashed, staged, snap, orphan>>
vars == <<envVars, watchVars, dbVars, jobVars>>

NoOne   == "no one"
Nothing == [p \in Paths |-> NoRow]
AsIs    == [p \in Paths |-> Keep]

-----------------------------------------------------------------------------
(* A database that is up to date, with what a dropped language left; or    *)
(* none at all.                                                            *)
Init ==
  /\ disk \in [Own -> Contents \cup {Gone}] /\ edits = 0
  /\ langs \in BOOLEAN
  /\ dirty = {} /\ noted = {} /\ lapsed = {}
  /\ \/ /\ \E c \in Contents :
             rows = [p \in Paths |->
                       RowOf(IF p \in Own THEN disk[p] ELSE c)]
        /\ hasRoot = TRUE /\ built = TRUE
     \/ rows = Nothing /\ hasRoot = FALSE /\ built = FALSE
  /\ writer = NoOne
  /\ pc = [b \in Builders |-> "idle"] /\ full = [b \in Builders |-> FALSE]
  /\ batch = {}
  /\ prev = [b \in Builders |-> Nothing] /\ todo = [b \in Builders |-> {}]
  /\ hashed = [b \in Builders |-> [f \in Own |-> Gone]]
  /\ staged = [b \in Builders |-> AsIs]
  /\ snap = [b \in Builders |-> "none"] /\ orphan = [b \in Builders |-> FALSE]

-----------------------------------------------------------------------------
(* The tree.  Every edit is an event for the watcher.                      *)

Edit(f, c) ==
  /\ edits < MaxEdits
  /\ disk[f] # c
  /\ disk' = [disk EXCEPT ![f] = c]
  /\ edits' = edits + 1
  /\ dirty' = dirty \cup {f} /\ noted' = noted \ {f} /\ lapsed' = lapsed \ {f}
  /\ UNCHANGED <<langs, dbVars, jobVars>>

EditStructural ==
  /\ edits < MaxEdits
  /\ edits' = edits + 1
  /\ dirty' = dirty \cup {Structural}
  /\ UNCHANGED <<disk, langs, noted, lapsed, dbVars, jobVars>>

-----------------------------------------------------------------------------
At(b, l) == pc[b] = l
Go(b, l) == pc' = [pc EXCEPT ![b] = l]

(* AllowedLangs: mekami build always has them; the daemon has what the     *)
(* supervisor passed on, mekami watch in the foreground has none.          *)
Prunes(b) == b # Watcher \/ langs

(* b may write now: nobody else holds the lock, and what its transaction   *)
(* has read is still the latest state.                                     *)
MayWrite(b) == orphan[b] \/ (writer \in {NoOne, b} /\ snap[b] # "stale")

(* The readers among the other transactions are behind after a commit.     *)
Behind(b) == [x \in Builders |-> IF x # b /\ snap[x] = "fresh" /\ ~orphan[x]
                                 THEN "stale" ELSE snap[x]]

(* b is done: its transaction is over, its store closed.                   *)
Ends(b) ==
  /\ pc' = [pc EXCEPT ![b] = "idle"] /\ full' = [full EXCEPT ![b] = FALSE]
  /\ batch' = IF b = Watcher THEN {} ELSE batch
  /\ prev' = [prev EXCEPT ![b] = Nothing] /\ todo' = [todo EXCEPT ![b] = {}]
  /\ hashed' = [hashed EXCEPT ![b] = [f \in Own |-> Gone]]
  /\ staged' = [staged EXCEPT ![b] = AsIs]
  /\ orphan' = [orphan EXCEPT ![b] = FALSE]
  /\ writer' = IF writer = b THEN NoOne ELSE writer

-----------------------------------------------------------------------------
(* How a build begins.                                                     *)

(* handleBatch: a structural file makes it a full build.                   *)
TakesBatch ==
  /\ At(Watcher, "idle") /\ dirty # {}
  /\ batch' = dirty /\ dirty' = {}
  /\ full' = [full EXCEPT ![Watcher] = Structural \in dirty]
  /\ Go(Watcher, "stamp")
  /\ UNCHANGED <<envVars, noted, lapsed, dbVars, prev, todo, hashed, staged, snap,
                 orphan>>

ByHand(b) ==
  /\ b \in Hands /\ At(b, "idle")
  /\ full' = [full EXCEPT ![b] = TRUE]
  /\ Go(b, "stamp")
  /\ UNCHANGED <<envVars, watchVars, dbVars, batch, prev, todo, hashed, staged,
                 snap, orphan>>

(* With --clean: the database file is unlinked first.  Who has it open     *)
(* goes on with a file nobody else will ever see.                          *)
ByHandClean(b) ==
  /\ b \in Hands /\ At(b, "idle")
  /\ full' = [full EXCEPT ![b] = TRUE]
  /\ Go(b, "stamp")
  /\ rows' = Nothing /\ hasRoot' = FALSE /\ built' = FALSE /\ writer' = NoOne
  /\ lapsed' = {}
  /\ orphan' = [x \in Builders |-> pc[x] # "idle"]
  /\ UNCHANGED <<envVars, dirty, noted, batch, prev, todo, hashed, staged, snap>>

(* BuildIncremental finds no last_root; the watcher runs Build instead,    *)
(* which opens the database again.                                         *)
NoLastRoot(b) ==
  /\ At(b, "stamp") /\ ~full[b]
  /\ ~hasRoot \/ orphan[b]
  /\ full' = [full EXCEPT ![b] = TRUE]
  /\ orphan' = [orphan EXCEPT ![b] = FALSE]
  /\ UNCHANGED <<envVars, watchVars, dbVars, pc, batch, prev, todo, hashed, staged, snap>>

(* last_root and last_build_at are set in transactions of their own.       *)
Stamps(b) ==
  /\ At(b, "stamp")
  /\ full[b] \/ hasRoot \/ orphan[b]
  /\ MayWrite(b)
  /\ hasRoot' = (hasRoot \/ ~orphan[b])
  /\ snap' = IF orphan[b] THEN snap ELSE Behind(b)
  /\ Go(b, IF full[b] THEN "walk" ELSE "prev")
  /\ UNCHANGED <<envVars, watchVars, rows, built, writer, full, batch, prev, todo,
                 hashed, staged, orphan>>

(* walk.MatchingFiles.  A build with AllowedLangs leaves the rows of files *)
(* that are gone alone; the watcher has used up the events about them.     *)
Walks(b) ==
  /\ At(b, "walk")
  /\ todo' = [todo EXCEPT ![b] = {f \in Own : disk[f] # Gone}]
  /\ lapsed' = IF b = Watcher /\ Prunes(b)
               THEN lapsed \cup {f \in batch \cap Own : disk[f] = Gone} ELSE lapsed
  /\ Go(b, IF Prunes(b) THEN "prune" ELSE "prev")
  /\ UNCHANGED <<envVars, dirty, noted, dbVars, full, batch, prev, hashed, staged, snap,
                 orphan>>

(* Mutant: the languages are listed on a connection of their own.          *)
PrunesWithoutSnapshot(b) ==
  /\ At(b, "prune")
  /\ Go(b, IF \E x \in Foreign : rows[x] # NoRow THEN "drop" ELSE "prev")
  /\ UNCHANGED <<envVars, watchVars, dbVars, full, batch, prev, todo, hashed, staged,
                 snap, orphan>>

(* pruneDisabledLangs lists the languages inside the transaction, which    *)
(* from now on reads this state.                                           *)
ListsLangs(b) ==
  /\ At(b, "prune")
  /\ snap' = [snap EXCEPT ![b] = "fresh"]
  /\ Go(b, IF \E x \in Foreign : rows[x] # NoRow THEN "drop" ELSE "prev")
  /\ UNCHANGED <<envVars, watchVars, dbVars, full, batch, prev, todo, hashed, staged,
                 orphan>>

(* It deletes the rows of those no longer tracked.                         *)
DropsLangs(b) ==
  /\ At(b, "drop") /\ MayWrite(b)
  /\ writer' = IF orphan[b] THEN writer ELSE b
  /\ staged' = [staged EXCEPT ![b] = [p \in Paths |-> IF p \in Foreign THEN NoRow
                                                                      ELSE @[p]]]
  /\ Go(b, "prev")
  /\ UNCHANGED <<envVars, watchVars, rows, hasRoot, built, full, batch, prev, todo,
                 hashed, snap, orphan>>

(* queries.AllFiles, on a connection of its own: the latest rows.  A full  *)
(* build without AllowedLangs will remove those the walk has not seen.     *)
LoadsPrev(b) ==
  /\ At(b, "prev")
  /\ prev' = [prev EXCEPT ![b] = rows]
  /\ IF full[b]
     THEN /\ staged' = IF Prunes(b) THEN staged
                       ELSE [staged EXCEPT ![b] = [p \in Paths |->
                               IF rows[p] # NoRow /\ p \notin todo[b] THEN NoRow
                                                                     ELSE @[p]]]
          /\ Go(b, "read")
          /\ UNCHANGED todo
     ELSE /\ todo' = [todo EXCEPT ![b] = batch \cap Own]
          /\ Go(b, "check")
          /\ UNCHANGED staged
  /\ UNCHANGED <<envVars, watchVars, dbVars, full, batch, hashed, snap, orphan>>
-----------------------------------------------------------------------------
(* How it goes on.                                                         *)

(* Mutant: a file that is gone is left to the next full build.             *)
ChecksKeepGone(b) ==
  /\ At(b, "check")
  /\ LET there == {f \in todo[b] : disk[f] # Gone}
     IN  todo' = [todo EXCEPT ![b] = {f \in there : prev[b][f].hash # disk[f]}]
  /\ Go(b, "read")
  /\ UNCHANGED <<envVars, watchVars, dbVars, full, batch, prev, hashed, staged, snap,
                 orphan>>

(* BuildIncremental hashes its files a first time.  One that cannot be     *)
(* read is deleted, one with the hash on record left alone.  (The files    *)
(* are hashed one after the other; as that commutes with edits to other    *)
(* files, it is one step.)                                                 *)
Checks(b) ==
  /\ At(b, "check")
  /\ LET there   == {f \in todo[b] : disk[f] # Gone}
         removed == {f \in todo[b] \ there : prev[b][f] # NoRow}
     IN  /\ removed # {} => MayWrite(b)
         /\ writer' = IF removed = {} \/ orphan[b] THEN writer ELSE b
         /\ staged' = [staged EXCEPT ![b] = [p \in Paths |-> IF p \in removed THEN NoRow
                                                                              ELSE @[p]]]
         /\ todo' = [todo EXCEPT ![b] = {f \in there : prev[b][f].hash # disk[f]}]
  /\ Go(b, "read")
  /\ UNCHANGED <<envVars, watchVars, rows, hasRoot, built, full, batch, prev, hashed,
                 snap, orphan>>

(* A worker of ingestFilesParallel: f has the hash on record.              *)
Unchanged(b, f) ==
  /\ At(b, "read") /\ f \in todo[b] /\ hashed[b][f] = Gone
  /\ disk[f] # Gone /\ prev[b][f].hash = disk[f]
  /\ todo' = [todo EXCEPT ![b] = @ \ {f}]
  /\ UNCHANGED <<envVars, watchVars, dbVars, pc, full, batch, prev, hashed, staged,
                 snap, orphan>>

Hashes(b, f) ==
  /\ At(b, "read") /\ f \in todo[b] /\ hashed[b][f] = Gone
  /\ disk[f] # Gone /\ prev[b][f].hash # disk[f]
  /\ hashed' = [hashed EXCEPT ![b][f] = disk[f]]
  /\ UNCHANGED <<envVars, watchVars, dbVars, pc, full, batch, prev, todo, staged,
                 snap, orphan>>

(* Mutant: the error of the frontend is not looked at.                     *)
ParsesAnything(b, f) ==
  /\ At(b, "read") /\ hashed[b][f] # Gone
  /\ \E c \in {disk[f], Gone} :
       staged' = [staged EXCEPT ![b][f] = [hash |-> hashed[b][f], text |-> c]]
  /\ hashed' = [hashed EXCEPT ![b][f] = Gone]
  /\ todo' = [todo EXCEPT ![b] = @ \ {f}]
  /\ UNCHANGED <<envVars, watchVars, dbVars, pc, full, batch, prev, snap, orphan>>

(* The frontend opens the file again and parses what it finds by now.      *)
Parses(b, f) ==
  /\ At(b, "read") /\ hashed[b][f] # Gone
  /\ disk[f] # Gone
  /\ staged' = [staged EXCEPT ![b][f] = [hash |-> hashed[b][f], text |-> disk[f]]]
  /\ hashed' = [hashed EXCEPT ![b][f] = Gone]
  /\ todo' = [todo EXCEPT ![b] = @ \ {f}]
  /\ UNCHANGED <<envVars, watchVars, dbVars, pc, full, batch, prev, snap, orphan>>

(* f cannot be read or parsed.  The build counts it and leaves its rows as *)
(* they are.  A build by hand prints the count; the watcher drops it.      *)
Skips(b, f) ==
  /\ At(b, "read") /\ f \in todo[b]
  /\ noted' = IF b # Watcher /\ ~built THEN noted \cup {f} ELSE noted
  /\ lapsed' = IF b = Watcher THEN lapsed \cup {f} ELSE lapsed
  /\ hashed' = [hashed EXCEPT ![b][f] = Gone]
  /\ todo' = [todo EXCEPT ![b] = @ \ {f}]
  /\ UNCHANGED <<envVars, dirty, dbVars, pc, full, batch, prev, staged, snap, orphan>>

(* All files have been read, and only now the first of the results is      *)
(* written.  Nobody sees them before the commit.                           *)
Writes(b) ==
  /\ At(b, "read") /\ todo[b] = {}
  /\ staged[b] # AsIs => MayWrite(b)
  /\ writer' = IF staged[b] = AsIs \/ orphan[b] THEN writer ELSE b
  /\ Go(b, "commit")
  /\ UNCHANGED <<envVars, watchVars, rows, hasRoot, built, full, batch, prev, todo,
                 hashed, staged, snap, orphan>>

(* The sweep of a full build without AllowedLangs deletes by the id in     *)
(* prev, after everything is written.  Where another build has deleted the *)
(* row in between, SQLite may have given its id to a new one.              *)
Result(b)  == [p \in Paths |-> IF staged[b][p] = Keep THEN rows[p] ELSE staged[b][p]]
Vacated(b) == {p \in Paths : /\ full[b] /\ ~Prunes(b)
                             /\ staged[b][p] = NoRow /\ rows[p] = NoRow}
New(b)     == {f \in Own : prev[b][f] = NoRow /\ Result(b)[f] # NoRow}
Heirs(b)   == {{g[p] : p \in Vacated(b)} \cap New(b) : g \in [Vacated(b) -> Paths]}

Commits(b) ==
  /\ At(b, "commit")
  /\ IF orphan[b]
     THEN UNCHANGED <<lapsed, rows, built>> /\ snap' = [snap EXCEPT ![b] = "none"]
     ELSE /\ \E H \in Heirs(b) :
               /\ rows' = [p \in Paths |-> IF p \in H THEN NoRow ELSE Result(b)[p]]
               /\ lapsed' = lapsed \cup H
          /\ built' = (built \/ full[b])
          /\ snap' = [IF staged[b] = AsIs THEN snap ELSE Behind(b) EXCEPT ![b] = "none"]
  /\ Ends(b)
  /\ UNCHANGED <<envVars, dirty, noted, hasRoot>>

(* Any error, a done ctx or the death of a build by hand: the deferred     *)
(* Rollback, or SQLite when it is opened next, undoes the transaction.     *)
(* The watcher logs the error and does not try again.                      *)
Fails(b) ==
  /\ ~At(b, "idle")
  /\ noted' = IF b = Watcher THEN noted \cup (batch \cap Own) ELSE noted
  /\ snap' = [snap EXCEPT ![b] = "none"]
  /\ Ends(b)
  /\ UNCHANGED <<envVars, dirty, lapsed, rows, hasRoot, built>>

(* SQLITE_BUSY, at once or after a while: the lock is taken, or what the   *)
(* transaction has read is no longer the latest state.                     *)
Busy(b) == ~At(b, "idle") /\ ~MayWrite(b) /\ Fails(b)

-----------------------------------------------------------------------------
Tree == (\E f \in Own, c \in Contents \cup {Gone} : Edit(f, c)) \/ EditStructural

Begins(b) == ByHand(b) \/ ByHandClean(b)

Step(b) ==
  \/ NoLastRoot(b) \/ Stamps(b) \/ Walks(b) \/ ListsLangs(b) \/ DropsLangs(b)
  \/ LoadsPrev(b) \/ Checks(b)
  \/ \E f \in Own : Unchanged(b, f) \/ Hashes(b, f) \/ Parses(b, f) \/ Skips(b, f)
  \/ Writes(b) \/ Commits(b)

Next ==
  \/ Tree
  \/ TakesBatch
  \/ \E b \in Hands : Begins(b)
  \/ \E b \in Builders : Step(b) \/ Fails(b)

(* A build goes on while it can, and does not wait for SQLite for ever.    *)
(* Nobody has to save a file or to start a build by hand.                  *)
Fairness ==
  /\ WF_vars(TakesBatch)
  /\ \A b \in Builders : WF_vars(Step(b) \/ Busy(b))

Spec == Init /\ [][Next]_vars /\ Fairness

-----------------------------------------------------------------------------
(* Each variable has its type.                                             *)
TypeOK ==
  /\ disk \in [Own -> Contents \cup {Gone}] /\ edits \in 0..MaxEdits
  /\ langs \in BOOLEAN
  /\ dirty \subseteq Own \cup {Structural} /\ noted \subseteq Own /\ lapsed \subseteq Own
  /\ rows \in [Paths -> Rows \cup {NoRow}]
  /\ hasRoot \in BOOLEAN /\ built \in BOOLEAN
  /\ writer \in Builders \cup {NoOne}
  /\ pc \in [Builders -> {"idle", "stamp", "walk", "prune", "drop", "prev", "check",
                          "read", "commit"}]
  /\ full \in [Builders -> BOOLEAN] /\ orphan \in [Builders -> BOOLEAN]
  /\ batch \subseteq Own \cup {Structural}
  /\ prev \in [Builders -> [Paths -> Rows \cup {NoRow}]]
  /\ todo \in [Builders -> SUBSET Own]
  /\ hashed \in [Builders -> [Own -> Contents \cup {Gone}]]
  /\ staged \in [Builders -> [Paths -> Rows \cup {NoRow, Keep}]]
  /\ snap \in [Builders -> {"none", "fresh", "stale"}]

(* The index believes that it holds f: symbols and references from the     *)
(* content f has, or at least that content's hash.  The latter alone is    *)
(* what a save between a build's two reads of f can leave behind.          *)
Believed(f) == disk[f] \in {rows[f].text, rows[f].hash}

(* However builds overlap, fail or have the database unlinked under them,  *)
(* whenever a file is saved, between a build's two reads of it included:   *)
(* the index has what it believes to be a file's content, or the watcher   *)
(* has an event about it or a build under way for it, or has logged that   *)
(* it has lost it; the three ways in which a build loses track of a file   *)
(* and says nothing are skipping it, a full build with AllowedLangs that   *)
(* finds it gone, and a sweep that takes its rows for another's.           *)
NoSilentStaleness ==
  built => \A f \in Own : Believed(f) \/ f \in dirty \cup batch \cup noted \cup lapsed

(* A build by hand replaces only what it has compared with: what another   *)
(* build has committed since makes it fail, never disappear.               *)
HandsAreSerial ==
  [][\A b \in Hands : At(b, "commit") /\ pc'[b] = "idle" /\ rows' # rows
                       => rows = prev[b]]_vars

(* Rows that have fallen behind catch up, whatever is built by hand        *)
(* meanwhile, or the loss is logged, or a build loses track of the file.   *)
CatchesUp ==
  \A f \in Own : (built /\ ~Believed(f))
                    ~> (Believed(f) \/ f \in noted \cup lapsed \/ ~built)
====
