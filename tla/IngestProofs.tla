---- MODULE IngestProofs ----
(***************************************************************************)
(* What holds of Ingest for any number of files, contents, edits and       *)
(* builds by hand.                                                         *)
(***************************************************************************)
EXTENDS Ingest, TLAPS

(* The special rows are no rows, and they differ.                          *)
LEMMA SpecialRows ==
  /\ NoRow # Keep /\ Keep \notin Rows /\ NoRow \notin Rows
  /\ NoRow.text = Gone /\ NoRow.hash = Gone /\ Keep.text = "keep" /\ Keep.hash = "keep"
  /\ NoRow = [hash |-> Gone, text |-> Gone]
  /\ \A c \in Contents : RowOf(c) \in Rows
  BY ValueAssumption DEF NoRow, Keep, RowOf, Rows, Gone

(* The end of a build leaves everything well typed.                        *)
LEMMA EndsType ==
  ASSUME TypeOK, NEW b \in Builders, Ends(b),
         noted' \subseteq Own, snap' \in [Builders -> {"none", "fresh", "stale"}],
         rows' \in [Paths -> Rows \cup {NoRow}], built' \in BOOLEAN, lapsed' \subseteq Own,
         UNCHANGED <<envVars, dirty, hasRoot>>
  PROVE  TypeOK'
  <1> USE DEF TypeOK, Ends, envVars
  <1>1. [f \in Own |-> Gone] \in [Own -> Contents \cup {Gone}]
    OBVIOUS
  <1>2. Nothing \in [Paths -> Rows \cup {NoRow}]
    BY DEF Nothing
  <1>3. AsIs \in [Paths -> Rows \cup {NoRow, Keep}]
    BY DEF AsIs
  <1>4. pc' \in [Builders -> {"idle", "stamp", "walk", "prune", "drop", "prev", "check",
                          "read", "commit"}]
    OBVIOUS
  <1>5. full' \in [Builders -> BOOLEAN] /\ orphan' \in [Builders -> BOOLEAN]
    OBVIOUS
  <1>6. batch' \subseteq Own \cup {Structural} /\ writer' \in Builders \cup {NoOne}
    OBVIOUS
  <1>7. prev' \in [Builders -> [Paths -> Rows \cup {NoRow}]]
    BY <1>2
  <1>8. todo' \in [Builders -> SUBSET Own]
    OBVIOUS
  <1>9. hashed' \in [Builders -> [Own -> Contents \cup {Gone}]]
    BY <1>1
  <1>10. staged' \in [Builders -> [Paths -> Rows \cup {NoRow, Keep}]]
    BY <1>3
  <1> QED
    BY <1>4, <1>5, <1>6, <1>7, <1>8, <1>9, <1>10

(* What a commit writes, next to what it has staged, are the deletions of  *)
(* the sweep; a build with AllowedLangs has none.                          *)
LEMMA CommitWrites ==
  ASSUME TypeOK, NEW b \in Builders, Commits(b), ~orphan[b]
  PROVE  \E H \in SUBSET Own :
           /\ rows' = [p \in Paths |-> IF p \in H THEN NoRow
                                      ELSE IF staged[b][p] = Keep THEN rows[p]
                                      ELSE staged[b][p]]
           /\ lapsed' = lapsed \cup H
           /\ b \in Hands \/ staged[b] = AsIs => H = {}
  <1>1. PICK H \in Heirs(b) :
          /\ rows' = [p \in Paths |-> IF p \in H THEN NoRow ELSE Result(b)[p]]
          /\ lapsed' = lapsed \cup H
    BY DEF Commits
  <1>2. H \subseteq New(b) /\ New(b) \subseteq Own
    BY DEF Heirs, New
  <1>3. Vacated(b) = {} => H = {}
    BY DEF Heirs
  <1>4. b \in Hands \/ staged[b] = AsIs => Vacated(b) = {}
    <2>1. b \in Hands => Prunes(b)
      BY BuilderAssumption DEF Prunes
    <2>2. staged[b] = AsIs => \A p \in Paths : staged[b][p] # NoRow
      BY SpecialRows DEF AsIs
    <2> QED BY <2>1, <2>2 DEF Vacated
  <1>5. \A p \in Paths : Result(b)[p] = IF staged[b][p] = Keep THEN rows[p] ELSE staged[b][p]
    BY DEF Result
  <1> QED
    BY <1>1, <1>2, <1>3, <1>4, <1>5

(* A database that exists or not: both are well typed.                     *)
LEMMA InitType == Init => TypeOK
  <1> SUFFICES ASSUME Init PROVE TypeOK
    OBVIOUS
  <1>1. rows \in [Paths -> Rows \cup {NoRow}]
    <2>1. CASE rows = Nothing
      BY <2>1 DEF Nothing
    <2>2. CASE rows # Nothing
      <3>1. PICK c \in Contents :
               rows = [p \in Paths |-> RowOf(IF p \in Own THEN disk[p] ELSE c)]
        BY <2>2 DEF Init
      <3>2. \A p \in Paths : RowOf(IF p \in Own THEN disk[p] ELSE c) \in Rows \cup {NoRow}
        BY SpecialRows DEF Init, NoRow
      <3> QED BY <3>1, <3>2
    <2> QED BY <2>1, <2>2
  <1>2. edits \in 0..MaxEdits
    BY ValueAssumption DEF Init
  <1>3. Nothing \in [Paths -> Rows \cup {NoRow}] /\ AsIs \in [Paths -> Rows \cup {NoRow, Keep}]
    BY DEF Nothing, AsIs
  <1>4. prev \in [Builders -> [Paths -> Rows \cup {NoRow}]]
        /\ staged \in [Builders -> [Paths -> Rows \cup {NoRow, Keep}]]
    BY <1>3 DEF Init
  <1>5. hashed \in [Builders -> [Own -> Contents \cup {Gone}]]
    BY DEF Init
  <1> QED
    BY <1>1, <1>2, <1>4, <1>5 DEF Init, TypeOK

(* Edits and the beginning of a build.                                     *)
LEMMA BeginsType ==
  ASSUME TypeOK, Tree \/ TakesBatch \/ \E b \in Hands : Begins(b)
  PROVE  TypeOK'
  <1> USE DEF TypeOK, Builders
  <1>1. ASSUME NEW f \in Own, NEW c \in Contents \cup {Gone}, Edit(f, c) PROVE TypeOK'
    <2>1. edits' \in 0..MaxEdits
      BY <1>1, ValueAssumption DEF Edit
    <2> QED BY <1>1, <2>1 DEF Edit, dbVars, jobVars
  <1>2. CASE EditStructural
    <2>1. edits' \in 0..MaxEdits
      BY <1>2, ValueAssumption DEF EditStructural
    <2> QED BY <1>2, <2>1 DEF EditStructural, dbVars, jobVars
  <1>3. CASE TakesBatch
    BY <1>3 DEF TakesBatch, Go, dbVars, envVars
  <1>4. ASSUME NEW b \in Hands, ByHand(b) PROVE TypeOK'
    BY <1>4 DEF ByHand, Go, dbVars, envVars, watchVars
  <1>5. ASSUME NEW b \in Hands, ByHandClean(b) PROVE TypeOK'
    <2>1. rows' \in [Paths -> Rows \cup {NoRow}]
      BY <1>5 DEF ByHandClean, Nothing
    <2> QED BY <1>5, <2>1 DEF ByHandClean, Go, envVars, watchVars
  <1> QED
    BY <1>1, <1>2, <1>3, <1>4, <1>5 DEF Tree, Begins

(* The steps of a build that do not end it.                                *)
LEMMA StepType ==
  ASSUME TypeOK, NEW b \in Builders, Step(b), ~Commits(b)
  PROVE  TypeOK'
  <1> USE DEF TypeOK, At, Go
  <1>1. CASE NoLastRoot(b)
    BY <1>1 DEF NoLastRoot, envVars, watchVars, dbVars
  <1>2. CASE Stamps(b)
    <2>1. Behind(b) \in [Builders -> {"none", "fresh", "stale"}]
      BY DEF Behind
    <2> QED BY <1>2, <2>1 DEF Stamps, envVars, watchVars
  <1>3. CASE Walks(b)
    BY <1>3 DEF Walks, envVars, dbVars
  <1>4. CASE ListsLangs(b)
    BY <1>4 DEF ListsLangs, envVars, watchVars, dbVars
  <1>5. CASE DropsLangs(b)
    <2>1. [p \in Paths |-> IF p \in Foreign THEN NoRow ELSE staged[b][p]]
            \in [Paths -> Rows \cup {NoRow, Keep}]
      OBVIOUS
    <2>2. staged' \in [Builders -> [Paths -> Rows \cup {NoRow, Keep}]]
      BY <1>5, <2>1 DEF DropsLangs
    <2> QED BY <1>5, <2>2 DEF DropsLangs, envVars, watchVars
  <1>6. CASE LoadsPrev(b)
    <2>1. [p \in Paths |-> IF rows[p] # NoRow /\ p \notin todo[b] THEN NoRow
                                                               ELSE staged[b][p]]
            \in [Paths -> Rows \cup {NoRow, Keep}]
      OBVIOUS
    <2>2. staged' \in [Builders -> [Paths -> Rows \cup {NoRow, Keep}]]
      BY <1>6, <2>1 DEF LoadsPrev
    <2>3. todo' \in [Builders -> SUBSET Own]
      <3>1. todo' = todo \/ todo' = [todo EXCEPT ![b] = batch \cap Own]
        BY <1>6 DEF LoadsPrev
      <3>2. batch \cap Own \in SUBSET Own
        OBVIOUS
      <3> QED BY <3>1, <3>2
    <2>4. prev' \in [Builders -> [Paths -> Rows \cup {NoRow}]]
      BY <1>6 DEF LoadsPrev
    <2> QED BY <1>6, <2>2, <2>3, <2>4 DEF LoadsPrev, envVars, watchVars, dbVars
  <1>7. CASE Checks(b)
    <2> DEFINE there   == {f \in todo[b] : disk[f] # Gone}
               removed == {f \in todo[b] \ there : prev[b][f] # NoRow}
    <2>1. [p \in Paths |-> IF p \in removed THEN NoRow ELSE staged[b][p]]
            \in [Paths -> Rows \cup {NoRow, Keep}]
      OBVIOUS
    <2>2. staged' \in [Builders -> [Paths -> Rows \cup {NoRow, Keep}]]
      BY <1>7, <2>1 DEF Checks
    <2>3. {f \in there : prev[b][f].hash # disk[f]} \in SUBSET Own
      OBVIOUS
    <2>4. todo' \in [Builders -> SUBSET Own]
      BY <1>7, <2>3 DEF Checks
    <2>5. writer' \in Builders \cup {NoOne}
      BY <1>7 DEF Checks
    <2> QED BY <1>7, <2>2, <2>4, <2>5 DEF Checks, envVars, watchVars
  <1>8. ASSUME NEW f \in Own, Unchanged(b, f) \/ Hashes(b, f) \/ Parses(b, f) \/ Skips(b, f)
        PROVE  TypeOK'
    <2>1. CASE Unchanged(b, f)
      BY <2>1 DEF Unchanged, envVars, watchVars, dbVars
    <2>2. CASE Hashes(b, f)
      BY <2>2 DEF Hashes, envVars, watchVars, dbVars
    <2>3. CASE Parses(b, f)
      <3>1. [hash |-> hashed[b][f], text |-> disk[f]] \in Rows
        BY <2>3 DEF Parses, Rows
      <3>2. staged' \in [Builders -> [Paths -> Rows \cup {NoRow, Keep}]]
        BY <2>3, <3>1 DEF Parses
      <3> QED BY <2>3, <3>2 DEF Parses, envVars, watchVars, dbVars
    <2>4. CASE Skips(b, f)
      BY <2>4 DEF Skips, envVars, dbVars
    <2> QED BY <1>8, <2>1, <2>2, <2>3, <2>4
  <1>9. CASE Writes(b)
    BY <1>9 DEF Writes, envVars, watchVars
  <1> QED
    BY <1>1, <1>2, <1>3, <1>4, <1>5, <1>6, <1>7, <1>8, <1>9 DEF Step

(* Its two ends.                                                           *)
LEMMA CommitsType ==
  ASSUME TypeOK, NEW b \in Builders, Commits(b)
  PROVE  TypeOK'
  <1>1. noted' \subseteq Own /\ built' \in BOOLEAN
    BY DEF TypeOK, Commits
  <1>2. rows' \in [Paths -> Rows \cup {NoRow}] /\ lapsed' \subseteq Own
    <2>1. CASE orphan[b]
      BY <2>1 DEF TypeOK, Commits
    <2>2. CASE ~orphan[b]
      <3>1. PICK H \in SUBSET Own :
              /\ rows' = [p \in Paths |-> IF p \in H THEN NoRow
                                         ELSE IF staged[b][p] = Keep THEN rows[p]
                                         ELSE staged[b][p]]
              /\ lapsed' = lapsed \cup H
        BY <2>2, CommitWrites
      <3>2. \A p \in Paths : (IF staged[b][p] = Keep THEN rows[p] ELSE staged[b][p])
                               \in Rows \cup {NoRow}
        BY DEF TypeOK
      <3> QED BY <3>1, <3>2 DEF TypeOK
    <2> QED BY <2>1, <2>2
  <1>3. snap' \in [Builders -> {"none", "fresh", "stale"}]
    BY DEF TypeOK, Commits, Behind
  <1> QED
    BY <1>1, <1>2, <1>3, EndsType DEF Commits, watchVars

LEMMA FailsType ==
  ASSUME TypeOK, NEW b \in Builders, Fails(b)
  PROVE  TypeOK'
  <1>1. /\ noted' \subseteq Own /\ built' \in BOOLEAN
        /\ rows' \in [Paths -> Rows \cup {NoRow}] /\ lapsed' \subseteq Own
        /\ snap' \in [Builders -> {"none", "fresh", "stale"}]
    BY DEF TypeOK, Fails
  <1> QED
    BY <1>1, EndsType DEF Fails

LEMMA NextType == TypeOK /\ [Next]_vars => TypeOK'
  <1> SUFFICES ASSUME TypeOK, [Next]_vars PROVE TypeOK'
    OBVIOUS
  <1>1. CASE Tree \/ TakesBatch \/ \E b \in Hands : Begins(b)
    BY <1>1, BeginsType
  <1>2. ASSUME NEW b \in Builders, Step(b) \/ Fails(b) PROVE TypeOK'
    BY <1>2, StepType, CommitsType, FailsType
  <1>3. CASE UNCHANGED vars
    BY <1>3 DEF TypeOK, vars, envVars, watchVars, dbVars, jobVars
  <1> QED
    BY <1>1, <1>2, <1>3 DEF Next

(* Whatever is read when, a row that is staged or committed has the hash   *)
(* of a content and the symbols of one: never half a row, and never one    *)
(* made from a file that was not there (ingestFilesParallel).              *)
THEOREM TypeCorrect == Spec => []TypeOK
  BY InitType, NextType, PTL DEF Spec

(***************************************************************************)
(* Builds by hand are serializable.                                        *)
(***************************************************************************)

(* The lock is held by builds that write, and what is about to be          *)
(* committed is written by its holder.                                     *)
LockHeld ==
  \A b \in Builders : writer = b => /\ ~orphan[b]
                                    /\ pc[b] \in {"prev", "check", "read", "commit"}

CommitHasLock ==
  \A b \in Builders :
    pc[b] = "commit" /\ ~orphan[b] /\ staged[b] # AsIs => writer = b

(* A build by hand writes only on top of the state it has read.            *)
HandsFresh ==
  \A b \in Hands :
    /\ pc[b] # "idle" => full[b] /\ pc[b] # "check"
    /\ ~orphan[b] /\ pc[b] \in {"drop", "prev", "read", "commit"}
         => snap[b] \in {"fresh", "stale"}
    /\ writer = b => snap[b] = "fresh"
    /\ ~orphan[b] /\ pc[b] \in {"read", "commit"} /\ snap[b] = "fresh"
         => prev[b] = rows

Lock == LockHeld /\ CommitHasLock /\ HandsFresh

(* Nobody has the name of no one.                                          *)
LEMMA Names == Watcher \notin Hands /\ NoOne \notin Builders
  BY BuilderAssumption, Zenon DEF NoOne, Builders

LEMMA InitLock == Init => Lock
  BY Names DEF Init, Lock, LockHeld, CommitHasLock, HandsFresh, Builders

(* Only builds by hand that have not begun are touched by a new one.       *)
LEMMA BeginsLock ==
  ASSUME TypeOK, Lock, Tree \/ TakesBatch \/ \E b \in Hands : Begins(b)
  PROVE  Lock'
  <1> USE Names DEF Lock, LockHeld, CommitHasLock, HandsFresh, Builders, TypeOK, At, Go
  <1>1. CASE Tree
    BY <1>1 DEF Tree, Edit, EditStructural, dbVars, jobVars
  <1>2. CASE TakesBatch
    BY <1>2 DEF TakesBatch, dbVars
  <1>3. ASSUME NEW b \in Hands, ByHand(b) PROVE Lock'
    BY <1>3 DEF ByHand, dbVars
  <1>4. ASSUME NEW b \in Hands, ByHandClean(b) PROVE Lock'
    BY <1>4 DEF ByHandClean
  <1> QED BY <1>1, <1>2, <1>3, <1>4 DEF Begins

(* A commit of something needs the lock; every other reader falls behind.  *)
LEMMA CommitsLock ==
  ASSUME TypeOK, Lock, NEW b \in Builders, Commits(b)
  PROVE  Lock'
  <1> USE Names DEF TypeOK, At
  <1>1. /\ pc' = [pc EXCEPT ![b] = "idle"] /\ full' = [full EXCEPT ![b] = FALSE]
        /\ orphan' = [orphan EXCEPT ![b] = FALSE]
        /\ staged' = [staged EXCEPT ![b] = AsIs]
        /\ prev' = [prev EXCEPT ![b] = Nothing]
        /\ writer' = IF writer = b THEN NoOne ELSE writer
    BY DEF Commits, Ends
  <1>2. \A x \in Builders : x # b =>
          /\ pc'[x] = pc[x] /\ full'[x] = full[x] /\ orphan'[x] = orphan[x]
          /\ staged'[x] = staged[x] /\ prev'[x] = prev[x]
    BY <1>1
  <1>3. pc'[b] = "idle" /\ writer' # b
    BY <1>1 DEF Builders
  <1>4. \A x \in Builders : x # b => (writer' = x <=> writer = x)
    BY <1>1 DEF Builders
  <1>5. \A x \in Hands : x # b =>
          /\ snap[x] \in {"fresh", "stale"} => snap'[x] \in {"fresh", "stale"}
          /\ snap'[x] = "fresh" => snap[x] = "fresh"
    BY DEF Commits, Behind, Builders
  <1>6. orphan[b] \/ staged[b] = AsIs => rows' = rows
    <2>1. CASE orphan[b]
      BY <2>1 DEF Commits
    <2>2. CASE ~orphan[b] /\ staged[b] = AsIs
      <3>1. \A p \in Paths : AsIs[p] = Keep
        BY DEF AsIs
      <3>2. \A p \in Paths : rows'[p] = IF staged[b][p] = Keep THEN rows[p] ELSE staged[b][p]
        <4>1. PICK H \in SUBSET Own :
                /\ rows' = [p \in Paths |-> IF p \in H THEN NoRow
                                           ELSE IF staged[b][p] = Keep THEN rows[p]
                                           ELSE staged[b][p]]
                /\ b \in Hands \/ staged[b] = AsIs => H = {}
          BY <2>2, CommitWrites
        <4> QED BY <2>2, <4>1
      <3>3. rows' \in [Paths -> Rows \cup {NoRow}]
        BY CommitsType
      <3> QED BY <2>2, <3>1, <3>2, <3>3
    <2> QED BY <2>1, <2>2
  <1>7. ~orphan[b] /\ staged[b] # AsIs =>
          /\ writer = b
          /\ \A x \in Builders : x # b /\ ~orphan[x] => snap'[x] # "fresh"
    BY DEF Commits, Behind, Lock, LockHeld, CommitHasLock, HandsFresh
  <1>8. orphan[b] \/ staged[b] = AsIs => \A x \in Builders : x # b => snap'[x] = snap[x]
    BY DEF Commits
  <1>9. \A x \in Hands : ~orphan'[x] /\ pc'[x] \in {"read", "commit"} /\ snap'[x] = "fresh"
                           => prev'[x] = rows'
    BY <1>2, <1>3, <1>5, <1>6, <1>7 DEF Lock, LockHeld, CommitHasLock, HandsFresh, Builders
  <1>10. \A x \in Hands : writer' = x => snap'[x] = "fresh"
    BY <1>3, <1>4, <1>7, <1>8 DEF Lock, LockHeld, CommitHasLock, HandsFresh, Builders
  <1>11. LockHeld'
    BY <1>2, <1>3, <1>4 DEF Lock, LockHeld
  <1>12. CommitHasLock'
    BY <1>2, <1>3, <1>4 DEF Lock, CommitHasLock
  <1>13. HandsFresh'
    BY <1>2, <1>3, <1>5, <1>9, <1>10 DEF Lock, HandsFresh, Builders
  <1> QED
    BY <1>11, <1>12, <1>13 DEF Lock

LEMMA FailsLock ==
  ASSUME TypeOK, Lock, NEW b \in Builders, Fails(b)
  PROVE  Lock'
  <1> USE Names DEF TypeOK
  <1>1. /\ pc' = [pc EXCEPT ![b] = "idle"] /\ full' = [full EXCEPT ![b] = FALSE]
        /\ orphan' = [orphan EXCEPT ![b] = FALSE] /\ snap' = [snap EXCEPT ![b] = "none"]
        /\ staged' = [staged EXCEPT ![b] = AsIs]
        /\ prev' = [prev EXCEPT ![b] = Nothing]
        /\ writer' = IF writer = b THEN NoOne ELSE writer
        /\ rows' = rows
    BY DEF Fails, Ends
  <1>2. \A x \in Builders : x # b =>
          /\ pc'[x] = pc[x] /\ full'[x] = full[x] /\ orphan'[x] = orphan[x]
          /\ staged'[x] = staged[x] /\ prev'[x] = prev[x] /\ snap'[x] = snap[x]
    BY <1>1
  <1>3. pc'[b] = "idle" /\ writer' # b
    BY <1>1 DEF Builders
  <1>4. \A x \in Builders : x # b => (writer' = x <=> writer = x)
    BY <1>1 DEF Builders
  <1> QED
    BY <1>1, <1>2, <1>3, <1>4 DEF Lock, LockHeld, CommitHasLock, HandsFresh, Builders

(* The steps that take the lock find it free and their snapshot fresh.     *)
LEMMA StepLock ==
  ASSUME TypeOK, Lock, NEW b \in Builders, Step(b), ~Commits(b)
  PROVE  Lock'
  <1> USE Names DEF TypeOK, At, Go
  <1>1. CASE NoLastRoot(b)
    BY <1>1 DEF NoLastRoot, dbVars, Lock, LockHeld, CommitHasLock, HandsFresh, Builders
  <1>2. CASE Stamps(b)
    <2>1. \A x \in Hands : writer = x => snap'[x] = snap[x]
      BY <1>2 DEF Stamps, MayWrite, Behind, Lock, LockHeld, CommitHasLock, HandsFresh, Builders
    <2>2. \A x \in Hands :
            /\ snap[x] \in {"fresh", "stale"} => snap'[x] \in {"fresh", "stale"}
            /\ snap'[x] = "fresh" => snap[x] = "fresh"
      BY <1>2 DEF Stamps, Behind, Builders
    <2>3. /\ UNCHANGED <<rows, writer, full, prev, staged, orphan>>
          /\ \A x \in Builders : x # b => pc'[x] = pc[x]
          /\ pc'[b] \in {"walk", "prev"} /\ pc[b] = "stamp"
          /\ b \in Hands => pc'[b] = "walk"
      BY <1>2 DEF Stamps, Lock, LockHeld, CommitHasLock, HandsFresh
    <2>4. LockHeld'
      BY <2>1, <2>2, <2>3 DEF Lock, LockHeld
    <2>5. CommitHasLock'
      BY <2>1, <2>2, <2>3 DEF Lock, CommitHasLock
    <2>6. HandsFresh'
      BY <2>1, <2>2, <2>3 DEF Lock, HandsFresh, Builders
    <2> QED BY <2>4, <2>5, <2>6 DEF Lock
  <1>3. CASE Walks(b)
    BY <1>3 DEF Walks, Prunes, dbVars, Lock, LockHeld, CommitHasLock, HandsFresh, Builders
  <1>4. CASE ListsLangs(b)
    BY <1>4 DEF ListsLangs, dbVars, Lock, LockHeld, CommitHasLock, HandsFresh, Builders
  <1>5. CASE DropsLangs(b)
    <2>1. /\ UNCHANGED <<rows, full, prev, snap, orphan>>
          /\ \A x \in Builders : x # b => pc'[x] = pc[x] /\ staged'[x] = staged[x]
          /\ pc'[b] = "prev" /\ pc[b] = "drop"
      BY <1>5 DEF DropsLangs
    <2>2. \/ orphan[b] /\ writer' = writer
          \/ ~orphan[b] /\ snap[b] # "stale" /\ writer \in {NoOne, b} /\ writer' = b
      BY <1>5 DEF DropsLangs, MayWrite
    <2>3. LockHeld'
      BY <2>1, <2>2 DEF Lock, LockHeld
    <2>4. CommitHasLock'
      BY <2>1, <2>2 DEF Lock, CommitHasLock
    <2>5. HandsFresh'
      BY <2>1, <2>2 DEF Lock, HandsFresh, Builders
    <2> QED BY <2>3, <2>4, <2>5 DEF Lock
  <1>6. CASE LoadsPrev(b)
    <2>1. /\ UNCHANGED <<rows, writer, full, snap, orphan>>
          /\ \A x \in Builders : x # b => pc'[x] = pc[x] /\ prev'[x] = prev[x]
                                          /\ staged'[x] = staged[x]
          /\ pc[b] = "prev" /\ prev'[b] = rows
          /\ pc'[b] = (IF full[b] THEN "read" ELSE "check")
      BY <1>6 DEF LoadsPrev, dbVars
    <2>2. LockHeld'
      BY <2>1 DEF Lock, LockHeld
    <2>3. CommitHasLock'
      BY <2>1 DEF Lock, CommitHasLock
    <2>4. HandsFresh'
      BY <2>1 DEF Lock, HandsFresh, Builders
    <2> QED BY <2>2, <2>3, <2>4 DEF Lock
  <1>7. CASE Checks(b)
    <2>1. /\ UNCHANGED <<rows, full, prev, snap, orphan>>
          /\ \A x \in Builders : x # b => pc'[x] = pc[x] /\ staged'[x] = staged[x]
          /\ pc'[b] = "read" /\ pc[b] = "check"
      BY <1>7 DEF Checks
    <2>2. \/ writer' = writer
          \/ ~orphan[b] /\ snap[b] # "stale" /\ writer \in {NoOne, b} /\ writer' = b
      BY <1>7 DEF Checks, MayWrite
    <2>3. LockHeld'
      BY <2>1, <2>2 DEF Lock, LockHeld
    <2>4. CommitHasLock'
      BY <2>1, <2>2 DEF Lock, CommitHasLock
    <2>5. HandsFresh'
      BY <2>1, <2>2 DEF Lock, HandsFresh, Builders
    <2> QED BY <2>3, <2>4, <2>5 DEF Lock
  <1>8. ASSUME NEW f \in Own, Unchanged(b, f) \/ Hashes(b, f) \/ Parses(b, f) \/ Skips(b, f)
        PROVE  Lock'
    <2>1. /\ UNCHANGED <<rows, writer, full, prev, snap, orphan, pc>>
          /\ \A x \in Builders : x # b => staged'[x] = staged[x]
          /\ pc[b] # "commit" \/ staged' = staged
      BY <1>8 DEF Unchanged, Hashes, Parses, Skips, dbVars
    <2> QED BY <2>1 DEF Lock, LockHeld, CommitHasLock, HandsFresh, Builders
  <1>9. CASE Writes(b)
    <2>1. /\ UNCHANGED <<rows, full, prev, staged, snap, orphan>>
          /\ \A x \in Builders : x # b => pc'[x] = pc[x]
          /\ pc'[b] = "commit" /\ pc[b] = "read"
      BY <1>9 DEF Writes
    <2>2. \/ (staged[b] = AsIs \/ orphan[b]) /\ writer' = writer
          \/ ~orphan[b] /\ snap[b] # "stale" /\ writer \in {NoOne, b} /\ writer' = b
      BY <1>9 DEF Writes, MayWrite
    <2>3. LockHeld'
      BY <2>1, <2>2 DEF Lock, LockHeld
    <2>4. CommitHasLock'
      BY <2>1, <2>2 DEF Lock, CommitHasLock
    <2>5. HandsFresh'
      BY <2>1, <2>2 DEF Lock, HandsFresh, Builders
    <2> QED BY <2>3, <2>4, <2>5 DEF Lock
  <1> QED
    BY <1>1, <1>2, <1>3, <1>4, <1>5, <1>6, <1>7, <1>8, <1>9 DEF Step

LEMMA NextLock == TypeOK /\ Lock /\ [Next]_vars => Lock'
  <1> SUFFICES ASSUME TypeOK, Lock, [Next]_vars PROVE Lock'
    OBVIOUS
  <1>1. CASE Tree \/ TakesBatch \/ \E b \in Hands : Begins(b)
    BY <1>1, BeginsLock
  <1>2. ASSUME NEW b \in Builders, Step(b) \/ Fails(b) PROVE Lock'
    BY <1>2, StepLock, CommitsLock, FailsLock
  <1>3. CASE UNCHANGED vars
    BY <1>3 DEF Lock, LockHeld, CommitHasLock, HandsFresh, vars, envVars, watchVars, dbVars, jobVars
  <1> QED
    BY <1>1, <1>2, <1>3 DEF Next

(* Only its own commit takes a build from commit to idle and changes rows. *)
LEMMA CommitIsSerial ==
  ASSUME TypeOK, Lock, [Next]_vars, NEW b \in Hands,
         At(b, "commit"), pc'[b] = "idle", rows' # rows
  PROVE  rows = prev[b]
  <1> USE DEF TypeOK, Builders, At, Go
  <1>1. \/ \E x \in Builders : Commits(x)
        \/ \E h \in Hands : ByHandClean(h)
    <2> HIDE DEF TypeOK, Builders, At, Go
    <2>1. ~Tree /\ ~TakesBatch /\ ~UNCHANGED vars
      BY DEF Tree, Edit, EditStructural, TakesBatch, vars, dbVars
    <2>2. ASSUME NEW h \in Hands, Begins(h) PROVE ByHandClean(h)
      BY <2>2 DEF Begins, ByHand, dbVars
    <2>3. ASSUME NEW x \in Builders, Step(x) \/ Fails(x) PROVE Commits(x)
      BY <2>3 DEF Step, NoLastRoot, Stamps, Walks, ListsLangs, DropsLangs, LoadsPrev,
                  Checks, Unchanged, Hashes, Parses, Skips, Writes, Fails, dbVars
    <2>4. \/ \E h \in Hands : Begins(h)
          \/ \E x \in Builders : Step(x) \/ Fails(x)
      BY <2>1 DEF Next
    <2> QED BY <2>2, <2>3, <2>4, Zenon
  <1>2. ~\E h \in Hands : ByHandClean(h)
    BY DEF ByHandClean
  <1>3. PICK x \in Builders : Commits(x)
    BY <1>1, <1>2
  <1>4. pc' = [pc EXCEPT ![x] = "idle"]
    BY <1>3 DEF Commits, Ends
  <1>5. x = b
    BY <1>4
  <1>6. ~orphan[b]
    BY <1>3, <1>5 DEF Commits
  <1>7. staged[b] # AsIs
    <2> SUFFICES ASSUME staged[b] = AsIs PROVE FALSE
      OBVIOUS
    <2>1. rows' = [p \in Paths |-> IF staged[b][p] = Keep THEN rows[p] ELSE staged[b][p]]
      <3>1. PICK H \in SUBSET Own :
              /\ rows' = [p \in Paths |-> IF p \in H THEN NoRow
                                         ELSE IF staged[b][p] = Keep THEN rows[p]
                                         ELSE staged[b][p]]
              /\ b \in Hands \/ staged[b] = AsIs => H = {}
        <4>1. b \in Builders /\ Commits(b)
          BY <1>3, <1>5
        <4> HIDE DEF TypeOK, Builders, At, Go
        <4> QED BY <4>1, <1>6, CommitWrites, Zenon
      <3> QED BY <3>1
    <2>2. \A p \in Paths : AsIs[p] = Keep
      BY DEF AsIs
    <2> QED BY <2>1, <2>2
  <1> QED
    BY <1>6, <1>7 DEF Lock, LockHeld, CommitHasLock, HandsFresh

(* For any number of builds by hand and any files: what one of them        *)
(* replaces is what it has compared with (Build's Begin, prune and Commit  *)
(* around queries.AllFiles).                                               *)
THEOREM BuildsByHandAreSerial == Spec => HandsAreSerial
  <1>1. TypeOK /\ Lock /\ [Next]_vars
          => [\A b \in Hands : At(b, "commit") /\ pc'[b] = "idle" /\ rows' # rows
                                 => rows = prev[b]]_vars
    BY CommitIsSerial
  <1> QED
    BY InitType, NextType, InitLock, NextLock, <1>1, PTL DEF Spec, HandsAreSerial

(***************************************************************************)
(* Nothing gets stale in silence.                                          *)
(***************************************************************************)

(* What the watcher has in hand, as far as its database is still the one   *)
(* at the path; what it will look at later, or has logged.                 *)
InHand == IF orphan[Watcher] THEN {} ELSE batch
Told   == dirty \cup noted

(* Before its stamp the watcher has looked at nothing yet; the stamp makes *)
(* whoever has read before it fail.                                        *)
Awaited == Told \cup (IF pc[Watcher] = "stamp" THEN InHand ELSE {})

RightNow(f) == Believed(f) \/ f \in Told \/ f \in lapsed
Right(f)    == RightNow(f) \/ f \in InHand

(* What a build holds where it is.                                         *)
Place(b) ==
  /\ pc[b] = "idle" => ~orphan[b]
  /\ pc[b] = "commit" => todo[b] = {}
  /\ pc[b] \notin {"read", "commit"} => \A f \in Own : staged[b][f] = Keep

WatcherPlace ==
  /\ pc[Watcher] = "idle" => batch = {}
  /\ pc[Watcher] = "check" => ~full[Watcher] /\ todo[Watcher] = batch \cap Own

Places == WatcherPlace /\ \A b \in Builders : Place(b)

RowsRight == \A f \in Own : (built \/ rows[f] # NoRow) => Right(f)

(* What a build by hand has passed over is right, what it will write is    *)
(* right, and what it has compared with has only been replaced by better.  *)
HandRight(b, f) ==
  ~orphan[b] =>
    /\ pc[b] \in {"prune", "drop", "prev"} /\ f \notin todo[b] => Right(f)
    /\ pc[b] \in {"read", "commit"} =>
         /\ rows[f] = prev[b][f] \/ Right(f)
         /\ f \notin todo[b] /\ staged[b][f] = Keep => Right(f)
         /\ staged[b][f] # Keep /\ snap[b] = "fresh"
              => staged[b][f].text = disk[f] \/ f \in Awaited

(* The same of the watcher, which cannot count on what it has in hand.     *)
WatcherRight(f) ==
  ~orphan[Watcher] =>
    /\ pc[Watcher] \in {"prune", "drop", "prev"} /\ full[Watcher] /\ f \notin todo[Watcher]
         => IF langs THEN RightNow(f) ELSE disk[f] = Gone \/ f \in dirty
    /\ pc[Watcher] \in {"check", "read", "commit"} =>
         rows[f] = prev[Watcher][f] \/ RightNow(f)
    /\ pc[Watcher] \in {"read", "commit"} =>
         /\ f \notin todo[Watcher] /\ staged[Watcher][f] = Keep
            /\ (full[Watcher] \/ f \in batch) => RightNow(f)
         /\ staged[Watcher][f] # Keep
              => staged[Watcher][f].text = disk[f] \/ f \in Told

BuildsRight ==
  /\ \A b \in Hands, f \in Own : HandRight(b, f)
  /\ \A f \in Own : WatcherRight(f)

Silence == Places /\ RowsRight /\ BuildsRight

(* Both parts of a row made from one content are that content.             *)
LEMMA RowParts == \A c : RowOf(c).hash = c /\ RowOf(c).text = c
  BY DEF RowOf

LEMMA InitSilence == Init => Silence
  <1> SUFFICES ASSUME Init PROVE Silence
    OBVIOUS
  <1> USE Names DEF Init, Builders, Paths
  <1>3. Places
    BY DEF Places, Place, WatcherPlace, AsIs
  <1>4. \A f \in Own : rows[f].text = disk[f] \/ (~built /\ rows[f] = NoRow)
    <2>1. CASE rows = Nothing /\ ~built
      BY <2>1 DEF Nothing
    <2>2. CASE \E c \in Contents :
                 rows = [p \in Paths |-> RowOf(IF p \in Own THEN disk[p] ELSE c)]
      <3>1. \A f \in Own : rows[f] = RowOf(disk[f])
        BY <2>2
      <3> QED BY <3>1, RowParts
    <2> QED BY <2>1, <2>2
  <1>5. RowsRight
    BY <1>4 DEF RowsRight, Right, Believed, RightNow
  <1>6. BuildsRight
    BY DEF BuildsRight, HandRight, WatcherRight
  <1> QED BY <1>3, <1>5, <1>6 DEF Silence

(* An edit makes the file dirty, whoever has its hash.                     *)
LEMMA EditSilence ==
  ASSUME TypeOK, Silence, NEW g \in Own, NEW c \in Contents \cup {Gone}, Edit(g, c)
  PROVE  Silence'
  <1>1. /\ UNCHANGED <<langs, rows, built, batch, pc, full, prev, todo, hashed, staged,
                       snap, orphan>>
        /\ \A f \in Own : f = g \/ disk'[f] = disk[f]
        /\ lapsed' = lapsed \ {g}
        /\ g \in dirty' /\ dirty \subseteq dirty'
        /\ \A f \in Own : f \in Told => f \in Told'
    BY DEF Edit, TypeOK, dbVars, jobVars, Told
  <1>2. \A f \in Own : /\ RightNow(f) => RightNow(f)'
                       /\ Right(f) => Right(f)'
                       /\ f \in Awaited => f \in Awaited'
                       /\ disk'[f] = disk[f] \/ f \in Told'
    BY <1>1 DEF Believed, RightNow, Right, InHand, Told, Awaited
  <1>4. Places'
    BY <1>1 DEF Silence, Places, Place, WatcherPlace
  <1>5. RowsRight'
    BY <1>1, <1>2 DEF Silence, RowsRight
  <1>6. ASSUME NEW b \in Hands, NEW f \in Own PROVE HandRight(b, f)'
    BY <1>1, <1>2 DEF Silence, BuildsRight, HandRight, Awaited
  <1>7. ASSUME NEW f \in Own PROVE WatcherRight(f)'
    BY <1>1, <1>2 DEF Silence, BuildsRight, WatcherRight
  <1> QED BY <1>4, <1>5, <1>6, <1>7 DEF Silence, BuildsRight

LEMMA StructuralSilence ==
  ASSUME TypeOK, Silence, EditStructural
  PROVE  Silence'
  <1>1. /\ UNCHANGED <<disk, langs, lapsed, rows, built, batch, pc, full, prev, todo,
                       hashed, staged, snap, orphan>>
        /\ dirty \subseteq dirty' /\ Told \subseteq Told'
    BY DEF EditStructural, dbVars, jobVars, Told
  <1>2. \A f \in Own : /\ RightNow(f) => RightNow(f)'
                       /\ Right(f) => Right(f)'
                       /\ f \in Awaited => f \in Awaited'
    BY <1>1 DEF Believed, RightNow, Right, InHand, Awaited
  <1>3. Places'
    BY <1>1 DEF Silence, Places, Place, WatcherPlace
  <1>4. RowsRight'
    BY <1>1, <1>2 DEF Silence, RowsRight
  <1>5. ASSUME NEW b \in Hands, NEW f \in Own PROVE HandRight(b, f)'
    BY <1>1, <1>2 DEF Silence, BuildsRight, HandRight
  <1>6. ASSUME NEW f \in Own PROVE WatcherRight(f)'
    BY <1>1, <1>2 DEF Silence, BuildsRight, WatcherRight
  <1> QED BY <1>3, <1>4, <1>5, <1>6 DEF Silence, BuildsRight

(* What was dirty is in hand.                                              *)
LEMMA TakesBatchSilence ==
  ASSUME TypeOK, Silence, TakesBatch
  PROVE  Silence'
  <1> USE Names DEF TypeOK, Builders
  <1>1. /\ UNCHANGED <<disk, langs, lapsed, noted, rows, built, prev, todo, hashed, staged,
                       snap, orphan>>
        /\ pc[Watcher] = "idle" /\ pc'[Watcher] = "stamp"
        /\ \A b \in Hands : pc'[b] = pc[b] /\ full'[b] = full[b]
        /\ batch' = dirty
    BY DEF TakesBatch, At, Go, dbVars, envVars
  <1>2. batch = {} /\ ~orphan[Watcher]
    BY <1>1 DEF Silence, Places, Place, WatcherPlace
  <1>3. \A f \in Own : /\ Right(f) => Right(f)'
                       /\ f \in Awaited => f \in Awaited'
    BY <1>1, <1>2 DEF Believed, RightNow, Right, InHand, Told, Awaited
  <1>5. Places'
    <2>1. WatcherPlace'
      BY <1>1 DEF WatcherPlace
    <2>2. Place(Watcher)'
      BY <1>1 DEF Silence, Places, Place
    <2>3. ASSUME NEW b \in Hands PROVE Place(b)'
      BY <1>1 DEF Silence, Places, Place
    <2> QED BY <2>1, <2>2, <2>3 DEF Places
  <1>6. RowsRight'
    BY <1>1, <1>3 DEF Silence, RowsRight
  <1>7. ASSUME NEW b \in Hands, NEW f \in Own PROVE HandRight(b, f)'
    BY <1>1, <1>3 DEF Silence, BuildsRight, HandRight
  <1>8. ASSUME NEW f \in Own PROVE WatcherRight(f)'
    BY <1>1 DEF WatcherRight
  <1> QED BY <1>5, <1>6, <1>7, <1>8 DEF Silence, BuildsRight

(* A clean start forgets every build under way along with the rows.        *)
LEMMA BeginsSilence ==
  ASSUME TypeOK, Silence, NEW h \in Hands, Begins(h)
  PROVE  Silence'
  <1> USE Names DEF TypeOK, Builders, At, Go
  <1>1. CASE ByHand(h)
    <2>1. /\ UNCHANGED <<disk, langs, lapsed, dirty, noted, rows, built, batch, prev, todo,
                         hashed, staged, snap, orphan>>
          /\ pc[h] = "idle" /\ pc'[h] = "stamp"
          /\ \A b \in Builders : b # h => pc'[b] = pc[b] /\ full'[b] = full[b]
      BY <1>1 DEF ByHand, envVars, watchVars, dbVars
    <2>2. \A f \in Own : /\ Right(f)' = Right(f) /\ RightNow(f)' = RightNow(f)
                         /\ f \in Awaited' <=> f \in Awaited
      BY <2>1 DEF Right, Believed, RightNow, InHand, Told, Awaited
    <2>3. RowsRight'
      BY <2>1, <2>2 DEF Silence, RowsRight
    <2>4. Places'
      <3>1. Watcher \in Builders /\ h # Watcher
        OBVIOUS
      <3>2. WatcherPlace'
        BY <2>1, <3>1 DEF Silence, Places, WatcherPlace
      <3>3. ASSUME NEW b \in Builders PROVE Place(b)'
        BY <2>1 DEF Silence, Places, Place
      <3> QED BY <3>2, <3>3 DEF Places
    <2>5. ASSUME NEW b \in Hands, NEW f \in Own PROVE HandRight(b, f)'
      BY <2>1, <2>2 DEF Silence, BuildsRight, HandRight
    <2>6. ASSUME NEW f \in Own PROVE WatcherRight(f)'
      BY <2>1, <2>2 DEF Silence, BuildsRight, WatcherRight, Told
    <2> QED BY <2>3, <2>4, <2>5, <2>6 DEF Silence, BuildsRight
  <1>2. CASE ByHandClean(h)
    <2>1. /\ UNCHANGED <<disk, langs, dirty, noted, batch, prev, todo, hashed, staged, snap>>
          /\ rows' = Nothing /\ ~built'
          /\ pc[h] = "idle" /\ pc'[h] = "stamp"
          /\ \A b \in Builders : b # h => pc'[b] = pc[b] /\ full'[b] = full[b]
          /\ \A b \in Builders : /\ pc[b] = "idle" => ~orphan'[b]
                                 /\ pc[b] # "idle" => orphan'[b]
      BY <1>2 DEF ByHandClean, envVars, watchVars
    <2>2. RowsRight'
      BY <2>1, SpecialRows DEF RowsRight, Nothing, Paths
    <2>3. Places'
      BY <2>1 DEF Silence, Places, Place, WatcherPlace
    <2>4. ASSUME NEW b \in Hands, NEW f \in Own PROVE HandRight(b, f)'
      BY <2>1 DEF HandRight
    <2>5. ASSUME NEW f \in Own PROVE WatcherRight(f)'
      BY <2>1 DEF WatcherRight
    <2> QED BY <2>2, <2>3, <2>4, <2>5 DEF Silence, BuildsRight
  <1> QED BY <1>1, <1>2 DEF Begins

(* Between its beginning and its end a build changes its own state only;   *)
(* it may lose files, and its stamp makes the snapshots of others stale.   *)
Local(b) ==
  /\ UNCHANGED <<disk, langs, dirty, rows, built, batch, orphan>>
  /\ noted \subseteq noted' /\ lapsed \subseteq lapsed'
  /\ \A x \in Builders \ {b} :
       /\ pc'[x] = pc[x] /\ full'[x] = full[x] /\ prev'[x] = prev[x] /\ todo'[x] = todo[x]
       /\ hashed'[x] = hashed[x] /\ staged'[x] = staged[x]
       /\ snap'[x] = "fresh" => snap[x] = "fresh"
  /\ pc[Watcher] = "stamp" /\ pc'[Watcher] # "stamp" /\ ~orphan[Watcher]
       => \A x \in Hands : ~orphan[x] => snap'[x] # "fresh"

LEMMA StepIsLocal ==
  ASSUME TypeOK, NEW b \in Builders, Step(b), ~Commits(b), ~NoLastRoot(b)
  PROVE  Local(b)
  <1> USE Names DEF TypeOK, At, Go, Builders
  <1>1. CASE Stamps(b)
    BY <1>1 DEF Stamps, Behind, Local, envVars, watchVars
  <1>2. CASE Walks(b)
    BY <1>2 DEF Walks, Local, envVars, dbVars
  <1>3. CASE ListsLangs(b)
    BY <1>3 DEF ListsLangs, Local, envVars, watchVars, dbVars
  <1>4. CASE DropsLangs(b)
    BY <1>4 DEF DropsLangs, Local, envVars, watchVars
  <1>5. CASE LoadsPrev(b)
    BY <1>5 DEF LoadsPrev, Local, envVars, watchVars, dbVars
  <1>6. CASE Checks(b)
    BY <1>6 DEF Checks, Local, envVars, watchVars
  <1>7. ASSUME NEW f \in Own, Unchanged(b, f) \/ Hashes(b, f) \/ Parses(b, f) \/ Skips(b, f)
        PROVE  Local(b)
    BY <1>7 DEF Unchanged, Hashes, Parses, Skips, Local, envVars, watchVars, dbVars
  <1>8. CASE Writes(b)
    BY <1>8 DEF Writes, Local, envVars, watchVars
  <1> QED
    BY <1>1, <1>2, <1>3, <1>4, <1>5, <1>6, <1>7, <1>8 DEF Step

(* So it disturbs neither the rows nor what the others count on.           *)
LEMMA LocalKeeps ==
  ASSUME TypeOK, Silence, NEW b \in Builders, Local(b)
  PROVE  /\ RowsRight'
         /\ \A f \in Own : /\ RightNow(f) => RightNow(f)'
                           /\ Right(f) => Right(f)'
                           /\ f \in Told => f \in Told'
         /\ \A x \in Hands \ {b}, f \in Own : HandRight(x, f)'
         /\ b # Watcher => \A f \in Own : WatcherRight(f)'
  <1> USE Names DEF Builders
  <1>1. /\ UNCHANGED <<disk, langs, dirty, rows, built, batch, orphan>>
        /\ Told \subseteq Told' /\ lapsed \subseteq lapsed' /\ InHand' = InHand
    BY DEF Local, Told, InHand
  <1>2. \A f \in Own : /\ RightNow(f) => RightNow(f)'
                       /\ Right(f) => Right(f)'
    BY <1>1 DEF Believed, RightNow, Right
  <1>3. RowsRight'
    BY <1>1, <1>2 DEF Silence, RowsRight
  <1>4. ASSUME NEW x \in Hands \ {b}, NEW f \in Own PROVE HandRight(x, f)'
    <2>1. /\ pc'[x] = pc[x] /\ todo'[x] = todo[x] /\ prev'[x] = prev[x]
          /\ staged'[x] = staged[x] /\ (snap'[x] = "fresh" => snap[x] = "fresh")
      BY DEF Local
    <2>2. ~orphan[x] /\ snap'[x] = "fresh" => (f \in Awaited => f \in Awaited')
      <3>1. CASE pc[Watcher] = "stamp" /\ pc'[Watcher] # "stamp" /\ ~orphan[Watcher]
        BY <3>1 DEF Local
      <3>2. CASE ~(pc[Watcher] = "stamp" /\ pc'[Watcher] # "stamp" /\ ~orphan[Watcher])
        BY <3>2, <1>1 DEF Awaited, InHand
      <3> QED BY <3>1, <3>2
    <2> QED BY <1>1, <1>2, <2>1, <2>2 DEF Silence, BuildsRight, HandRight
  <1>5. ASSUME b # Watcher, NEW f \in Own PROVE WatcherRight(f)'
    <2>1. /\ pc'[Watcher] = pc[Watcher] /\ todo'[Watcher] = todo[Watcher]
          /\ prev'[Watcher] = prev[Watcher] /\ staged'[Watcher] = staged[Watcher]
          /\ full'[Watcher] = full[Watcher]
      BY <1>5 DEF Local
    <2> QED BY <1>1, <1>2, <2>1 DEF Silence, BuildsRight, WatcherRight
  <1> QED BY <1>1, <1>2, <1>3, <1>4, <1>5

LEMMA StepPlaces ==
  ASSUME TypeOK, Lock, Silence,
         NEW b \in Builders, Step(b), ~Commits(b), ~NoLastRoot(b)
  PROVE  Places'
  <1> USE Names DEF TypeOK, At, Go, Builders
  <1>0. Local(b)
    BY StepIsLocal
  <1>1. \A x \in Builders \ {b} : Place(x)'
    BY <1>0 DEF Local, Silence, Places, Place
  <1>2. b # Watcher => WatcherPlace'
    BY <1>0 DEF Local, Silence, Places, WatcherPlace
  <1>3. Place(b) /\ (b = Watcher => WatcherPlace)
    BY DEF Silence, Places
  <1>4. Place(b)' /\ (b = Watcher => WatcherPlace')
    <2> USE <1>3 DEF Place, WatcherPlace, Paths
    <2>1. CASE Stamps(b)
      BY <2>1 DEF Stamps
    <2>2. CASE Walks(b)
      BY <2>2 DEF Walks, Prunes
    <2>3. CASE ListsLangs(b)
      BY <2>3 DEF ListsLangs
    <2>4. CASE DropsLangs(b)
      BY <2>4, PathAssumption DEF DropsLangs
    <2>5. CASE LoadsPrev(b)
      BY <2>5 DEF LoadsPrev
    <2>6. CASE Checks(b)
      BY <2>6 DEF Checks
    <2>7. ASSUME NEW f \in Own, Unchanged(b, f) \/ Hashes(b, f) \/ Parses(b, f) \/ Skips(b, f)
          PROVE  Place(b)' /\ (b = Watcher => WatcherPlace')
      BY <2>7 DEF Unchanged, Hashes, Parses, Skips
    <2>8. CASE Writes(b)
      BY <2>8 DEF Writes
    <2> QED BY <2>1, <2>2, <2>3, <2>4, <2>5, <2>6, <2>7, <2>8 DEF Step
  <1> QED BY <1>1, <1>2, <1>4 DEF Places

(* A build by hand: a file it has passed over is right, because its rows   *)
(* are what was compared or somebody has put them right since.             *)
LEMMA StepHand ==
  ASSUME TypeOK, Lock, Silence, NEW b \in Hands, Step(b), ~Commits(b), ~NoLastRoot(b),
         NEW f \in Own
  PROVE  HandRight(b, f)'
  <1> USE Names DEF TypeOK, At, Go, Builders, Paths
  <1>1. /\ UNCHANGED <<disk, langs, rows, built, orphan>>
        /\ Right(f) => Right(f)'
    BY StepIsLocal, LocalKeeps DEF Local
  <1>2. HandRight(b, f) /\ Place(b) /\ (built \/ rows[f] # NoRow => Right(f))
    BY DEF Silence, BuildsRight, Places, RowsRight
  <1>3. pc[b] # "idle" => full[b] /\ pc[b] # "check"
    BY DEF Lock, HandsFresh
  <1>4. CASE Stamps(b)
    BY <1>3, <1>4 DEF Stamps, HandRight
  <1>5. CASE Walks(b)
    <2>1. disk[f] = Gone => Right(f)
      BY <1>2, SpecialRows DEF Right, Believed, RightNow
    <2>2. f \notin todo'[b] => Right(f)'
      BY <1>1, <1>5, <2>1 DEF Walks
    <2>3. pc'[b] = "prune"
      BY <1>5 DEF Walks, Prunes
    <2> QED BY <2>2, <2>3 DEF HandRight
  <1>6. CASE ListsLangs(b)
    BY <1>1, <1>2, <1>6 DEF ListsLangs, HandRight
  <1>7. CASE DropsLangs(b)
    BY <1>1, <1>2, <1>7 DEF DropsLangs, HandRight
  <1>8. CASE LoadsPrev(b)
    <2>1. /\ pc[b] = "prev" /\ pc'[b] = "read" /\ prev'[b] = rows
          /\ UNCHANGED <<todo, staged>>
      BY <1>3, <1>8 DEF LoadsPrev, Prunes
    <2> QED BY <1>1, <1>2, <2>1 DEF HandRight, Place
  <1>9. CASE Checks(b)
    BY <1>3, <1>9 DEF Checks
  <1>10. ASSUME NEW g \in Own, Unchanged(b, g) PROVE HandRight(b, f)'
    <2>1. /\ pc[b] = "read" /\ UNCHANGED <<pc, prev, staged, snap>>
          /\ todo'[b] = todo[b] \ {g} /\ prev[b][g].hash = disk[g]
          /\ Awaited' = Awaited
      BY <1>10 DEF Unchanged, dbVars, envVars, watchVars, Awaited, Told, InHand
    <2>2. f = g /\ ~orphan[b] => Right(f)
      BY <1>2, <2>1 DEF HandRight, Right, Believed, RightNow
    <2> QED BY <1>1, <1>2, <2>1, <2>2 DEF HandRight
  <1>11. ASSUME NEW g \in Own, Hashes(b, g) PROVE HandRight(b, f)'
    <2>1. UNCHANGED <<pc, todo, prev, staged, snap, Awaited>>
      BY <1>11 DEF Hashes, dbVars, envVars, watchVars, Awaited, Told, InHand
    <2> QED BY <1>1, <1>2, <2>1 DEF HandRight
  <1>12. ASSUME NEW g \in Own, Parses(b, g) PROVE HandRight(b, f)'
    <2>1. /\ pc[b] = "read" /\ UNCHANGED <<pc, prev, snap, Awaited>>
          /\ todo'[b] = todo[b] \ {g}
          /\ staged'[b][g] = [hash |-> hashed[b][g], text |-> disk[g]]
          /\ f # g => staged'[b][f] = staged[b][f]
      BY <1>12 DEF Parses, dbVars, envVars, watchVars, Awaited, Told, InHand
    <2>2. disk[g] # "keep"
      BY ValueAssumption DEF Gone
    <2>3. f = g => staged'[b][f] # Keep /\ staged'[b][f].text = disk[f]
      BY <2>1, <2>2, SpecialRows
    <2> QED BY <1>1, <1>2, <2>1, <2>3 DEF HandRight
  <1>13. ASSUME NEW g \in Own, Skips(b, g) PROVE HandRight(b, f)'
    <2>1. /\ pc[b] = "read" /\ UNCHANGED <<pc, prev, staged, snap>>
          /\ todo'[b] = todo[b] \ {g} /\ Awaited \subseteq Awaited'
          /\ built \/ g \in noted'
      BY <1>13 DEF Skips, dbVars, envVars, Awaited, Told, InHand
    <2>2. f = g => Right(f)'
      BY <1>1, <1>2, <2>1 DEF Right, Believed, RightNow, Told
    <2> QED BY <1>1, <1>2, <2>1, <2>2 DEF HandRight
  <1>14. CASE Writes(b)
    <2>1. /\ pc[b] = "read" /\ pc'[b] = "commit" /\ UNCHANGED <<todo, prev, staged, snap>>
          /\ Awaited' = Awaited
      BY <1>14 DEF Writes, envVars, watchVars, Awaited, Told, InHand
    <2> QED BY <1>1, <1>2, <2>1 DEF HandRight
  <1> QED
    BY <1>4, <1>5, <1>6, <1>7, <1>8, <1>9, <1>10, <1>11, <1>12, <1>13, <1>14 DEF Step

(* The watcher: the same, for the files of its batch or of the tree.       *)
LEMMA StepWatcher ==
  ASSUME TypeOK, Silence, Step(Watcher), ~Commits(Watcher),
         ~NoLastRoot(Watcher), NEW f \in Own
  PROVE  WatcherRight(f)'
  <1> USE DEF TypeOK, At, Go, Builders, Paths
  <1> DEFINE b == Watcher
  <1>1. /\ UNCHANGED <<disk, langs, dirty, rows, built, batch, orphan>>
        /\ RightNow(f) => RightNow(f)'
        /\ f \in Told => f \in Told'
    BY StepIsLocal, LocalKeeps DEF Local
  <1>2. WatcherRight(f) /\ Place(b) /\ WatcherPlace
    BY DEF Silence, BuildsRight, Places
  <1>3. built \/ rows[f] # NoRow => Right(f)
    BY DEF Silence, RowsRight
  <1>4. CASE Stamps(b)
    BY <1>4 DEF Stamps, WatcherRight
  <1>5. CASE Walks(b)
    <2>1. pc'[b] \in {"prune", "prev"} /\ UNCHANGED full
      BY <1>5 DEF Walks
    <2>2. f \notin todo'[b] => disk[f] = Gone
      BY <1>5 DEF Walks
    <2>3. langs /\ ~orphan[b] /\ disk[f] = Gone => RightNow(f)'
      <3>1. CASE f \in batch
        BY <1>5, <3>1 DEF Walks, Prunes, RightNow
      <3>2. CASE f \notin batch
        BY <1>1, <1>3, <3>2, SpecialRows DEF Right, InHand, Believed, RightNow
      <3> QED BY <3>1, <3>2
    <2> QED BY <1>1, <2>1, <2>2, <2>3 DEF WatcherRight
  <1>6. CASE ListsLangs(b) \/ DropsLangs(b)
    <2>1. /\ pc[b] \in {"prune", "drop"} /\ pc'[b] \in {"drop", "prev"}
          /\ UNCHANGED <<full, todo>>
      BY <1>6 DEF ListsLangs, DropsLangs
    <2> QED BY <1>1, <1>2, <2>1 DEF WatcherRight
  <1>7. CASE LoadsPrev(b)
    <2>1. /\ pc[b] = "prev" /\ prev'[b] = rows /\ UNCHANGED full
          /\ ~full[b] => pc'[b] = "check"
          /\ full[b] => /\ pc'[b] = "read" /\ UNCHANGED todo
                        /\ staged'[b][f] = IF ~langs /\ rows[f] # NoRow /\ f \notin todo[b]
                                           THEN NoRow ELSE staged[b][f]
      BY <1>7 DEF LoadsPrev, Prunes
    <2>2. full[b] /\ ~orphan[b] /\ f \notin todo[b]
            => IF langs THEN RightNow(f) ELSE disk[f] = Gone \/ f \in dirty
      BY <1>2, <2>1 DEF WatcherRight
    <2>3. full[b] /\ ~orphan[b] /\ f \notin todo[b] /\ (langs \/ rows[f] = NoRow) => RightNow(f)
      BY <2>2, SpecialRows DEF Believed, RightNow, Told
    <2>4. full[b] /\ ~orphan[b] /\ staged'[b][f] # Keep
            => staged'[b][f].text = disk[f] \/ f \in Told
      BY <1>2, <2>1, <2>2, SpecialRows DEF Place, Told
    <2> QED BY <1>1, <2>1, <2>3, <2>4, SpecialRows DEF WatcherRight
  <1>8. CASE Checks(b)
    <2>1. /\ pc[b] = "check" /\ pc'[b] = "read" /\ UNCHANGED <<full, prev>>
          /\ f \in todo[b] /\ disk[f] = Gone =>
               /\ prev[b][f] # NoRow => staged'[b][f] = NoRow
               /\ prev[b][f] = NoRow => staged'[b][f] = staged[b][f]
          /\ f \in todo[b] /\ disk[f] # Gone =>
               /\ staged'[b][f] = staged[b][f]
               /\ f \in todo'[b] \/ prev[b][f].hash = disk[f]
          /\ f \notin todo[b] => staged'[b][f] = staged[b][f]
      BY <1>8 DEF Checks
    <2>2. staged[b][f] = Keep /\ ~full[b] /\ (f \in batch => f \in todo[b])
      BY <1>2, <2>1 DEF Place, WatcherPlace
    <2>3. ~orphan[b] => rows[f] = prev[b][f] \/ RightNow(f)
      BY <1>2, <2>1 DEF WatcherRight
    <2>4. ~orphan[b] /\ f \in batch /\ f \notin todo'[b] /\ staged'[b][f] = Keep => RightNow(f)
      BY <2>1, <2>2, <2>3, SpecialRows DEF Believed, RightNow
    <2>5. staged'[b][f] # Keep => staged'[b][f].text = disk[f]
      BY <2>1, <2>2, SpecialRows
    <2> QED BY <1>1, <2>1, <2>2, <2>3, <2>4, <2>5 DEF WatcherRight
  <1>9. ASSUME NEW g \in Own, Unchanged(b, g) PROVE WatcherRight(f)'
    <2>1. /\ pc[b] = "read" /\ UNCHANGED <<pc, full, prev, staged>>
          /\ todo'[b] = todo[b] \ {g} /\ prev[b][g].hash = disk[g]
      BY <1>9 DEF Unchanged
    <2>2. f = g /\ ~orphan[b] => RightNow(f)
      BY <1>2, <2>1 DEF WatcherRight, Believed, RightNow
    <2> QED BY <1>1, <1>2, <2>1, <2>2 DEF WatcherRight
  <1>10. ASSUME NEW g \in Own, Hashes(b, g) PROVE WatcherRight(f)'
    BY <1>1, <1>2, <1>10 DEF Hashes, WatcherRight
  <1>11. ASSUME NEW g \in Own, Parses(b, g) PROVE WatcherRight(f)'
    <2>1. /\ pc[b] = "read" /\ UNCHANGED <<pc, full, prev>>
          /\ todo'[b] = todo[b] \ {g}
          /\ staged'[b][g] = [hash |-> hashed[b][g], text |-> disk[g]]
          /\ f # g => staged'[b][f] = staged[b][f]
      BY <1>11 DEF Parses
    <2>2. disk[g] # "keep"
      BY ValueAssumption DEF Gone
    <2>3. f = g => staged'[b][f] # Keep /\ staged'[b][f].text = disk[f]
      BY <2>1, <2>2, SpecialRows
    <2> QED BY <1>1, <1>2, <2>1, <2>3 DEF WatcherRight
  <1>12. ASSUME NEW g \in Own, Skips(b, g) PROVE WatcherRight(f)'
    <2>1. /\ pc[b] = "read" /\ UNCHANGED <<pc, full, prev, staged>>
          /\ todo'[b] = todo[b] \ {g} /\ g \in lapsed'
      BY <1>12 DEF Skips
    <2>2. f = g => RightNow(f)'
      BY <2>1 DEF Believed, RightNow, Told
    <2> QED BY <1>1, <1>2, <2>1, <2>2 DEF WatcherRight
  <1>13. CASE Writes(b)
    BY <1>1, <1>2, <1>13 DEF Writes, WatcherRight
  <1> QED
    BY <1>4, <1>5, <1>6, <1>7, <1>8, <1>9, <1>10, <1>11, <1>12, <1>13 DEF Step

LEMMA StepSilence ==
  ASSUME TypeOK, Lock, Silence,
         NEW b \in Builders, Step(b), ~Commits(b), ~NoLastRoot(b)
  PROVE  Silence'
  <1> USE Names DEF Builders
  <1>1. /\ RowsRight'
        /\ \A x \in Hands \ {b}, f \in Own : HandRight(x, f)'
        /\ b # Watcher => \A f \in Own : WatcherRight(f)'
    BY StepIsLocal, LocalKeeps
  <1>2. Places'
    BY StepPlaces
  <1>3. BuildsRight'
    BY <1>1, StepHand, StepWatcher DEF BuildsRight
  <1> QED BY <1>1, <1>2, <1>3 DEF Silence

(* A build that finds no last_root opens the database at the path.         *)
LEMMA NoLastRootSilence ==
  ASSUME TypeOK, Lock, Silence, NEW b \in Builders, NoLastRoot(b)
  PROVE  Silence'
  <1> USE Names DEF TypeOK, At, Builders
  <1>1. /\ UNCHANGED <<disk, langs, lapsed, dirty, noted, rows, built, batch, pc, prev,
                       todo, hashed, staged, snap>>
        /\ pc[b] = "stamp" /\ ~full[b]
        /\ \A x \in Builders : x # b => orphan'[x] = orphan[x] /\ full'[x] = full[x]
      BY DEF NoLastRoot, envVars, watchVars, dbVars
  <1>2. b = Watcher
    BY <1>1 DEF Lock, HandsFresh
  <1>3. ~orphan'[Watcher]
    BY <1>2 DEF NoLastRoot
  <1>4. \A f \in Own : /\ Right(f) => Right(f)'
                       /\ f \in Awaited => f \in Awaited'
    BY <1>1, <1>3 DEF Believed, RightNow, Right, InHand, Told, Awaited
  <1>5. RowsRight'
    BY <1>1, <1>4 DEF Silence, RowsRight
  <1>6. Places'
    BY <1>1, <1>2 DEF Silence, Places, Place, WatcherPlace
  <1>7. ASSUME NEW x \in Hands, NEW f \in Own PROVE HandRight(x, f)'
    BY <1>1, <1>2, <1>4 DEF Silence, BuildsRight, HandRight
  <1>8. ASSUME NEW f \in Own PROVE WatcherRight(f)'
    BY <1>1, <1>2 DEF WatcherRight
  <1> QED BY <1>5, <1>6, <1>7, <1>8 DEF Silence, BuildsRight

(* What a build leaves behind is in its place.                             *)
LEMMA EndsPlaces ==
  ASSUME TypeOK, Silence, NEW b \in Builders, Ends(b)
  PROVE  /\ Places'
         /\ pc'[b] = "idle"
         /\ \A x \in Builders \ {b} :
              /\ pc'[x] = pc[x] /\ full'[x] = full[x] /\ orphan'[x] = orphan[x]
              /\ prev'[x] = prev[x] /\ todo'[x] = todo[x] /\ staged'[x] = staged[x]
         /\ batch' = IF b = Watcher THEN {} ELSE batch
  <1> USE Names, SpecialRows DEF TypeOK, Builders
  <1>1. /\ pc'[b] = "idle" /\ ~orphan'[b] /\ prev'[b] = Nothing /\ staged'[b] = AsIs
        /\ \A f \in Own : hashed'[b][f] = Gone
        /\ batch' = IF b = Watcher THEN {} ELSE batch
    BY DEF Ends
  <1>2. \A x \in Builders \ {b} :
          /\ pc'[x] = pc[x] /\ full'[x] = full[x] /\ orphan'[x] = orphan[x]
          /\ prev'[x] = prev[x] /\ todo'[x] = todo[x] /\ staged'[x] = staged[x]
          /\ hashed'[x] = hashed[x]
    BY DEF Ends
  <1>4. Places'
    <2>1. \A f \in Own : AsIs[f] = Keep
      BY DEF AsIs, Paths
    <2>2. ASSUME NEW x \in Builders PROVE Place(x)'
      BY <1>1, <1>2, <2>1 DEF Silence, Places, Place
    <2>3. WatcherPlace'
      BY <1>1, <1>2 DEF Silence, Places, WatcherPlace
    <2> QED BY <2>2, <2>3 DEF Places
  <1> QED BY <1>1, <1>2, <1>4

(* The watcher logs its batch when it fails.                               *)
LEMMA FailsSilence ==
  ASSUME TypeOK, Silence, NEW b \in Builders, Fails(b)
  PROVE  Silence'
  <1> USE Names DEF TypeOK, Builders
  <1>1. /\ UNCHANGED <<disk, langs, lapsed, dirty, rows, built>> /\ Ends(b)
        /\ \A x \in Builders \ {b} : snap'[x] = snap[x]
        /\ noted \subseteq noted' /\ (b = Watcher => batch \cap Own \subseteq noted')
    BY DEF Fails, envVars
  <1>2. /\ Places'
        /\ pc'[b] = "idle"
        /\ \A x \in Builders \ {b} :
             /\ pc'[x] = pc[x] /\ full'[x] = full[x] /\ orphan'[x] = orphan[x]
             /\ prev'[x] = prev[x] /\ todo'[x] = todo[x] /\ staged'[x] = staged[x]
        /\ batch' = IF b = Watcher THEN {} ELSE batch
    BY <1>1, EndsPlaces
  <1>3. \A f \in Own : /\ RightNow(f) => RightNow(f)'
                       /\ Right(f) => Right(f)'
                       /\ f \in Awaited => f \in Awaited'
                       /\ f \in Told => f \in Told'
    BY <1>1, <1>2 DEF Believed, RightNow, Right, InHand, Told, Awaited
  <1>4. RowsRight'
    BY <1>1, <1>3 DEF Silence, RowsRight
  <1>5. ASSUME NEW x \in Hands, NEW f \in Own PROVE HandRight(x, f)'
    BY <1>1, <1>2, <1>3 DEF Silence, BuildsRight, HandRight
  <1>6. ASSUME NEW f \in Own PROVE WatcherRight(f)'
    BY <1>1, <1>2, <1>3 DEF Silence, BuildsRight, WatcherRight
  <1> QED BY <1>2, <1>4, <1>5, <1>6 DEF Silence, BuildsRight

(* A commit to an unlinked file changes nothing here.                      *)
LEMMA OrphanCommitsSilence ==
  ASSUME TypeOK, Silence, NEW b \in Builders, Commits(b), orphan[b]
  PROVE  Silence'
  <1> USE Names DEF TypeOK, Builders
  <1>1. /\ UNCHANGED <<disk, langs, lapsed, dirty, noted, rows, built>> /\ Ends(b)
        /\ \A x \in Builders \ {b} : snap'[x] = snap[x]
        /\ pc[b] = "commit"
    BY DEF Commits, envVars, watchVars, At
  <1>2. /\ Places'
        /\ pc'[b] = "idle"
        /\ \A x \in Builders \ {b} :
             /\ pc'[x] = pc[x] /\ full'[x] = full[x] /\ orphan'[x] = orphan[x]
             /\ prev'[x] = prev[x] /\ todo'[x] = todo[x] /\ staged'[x] = staged[x]
        /\ batch' = IF b = Watcher THEN {} ELSE batch
    BY <1>1, EndsPlaces
  <1>3. \A f \in Own : /\ RightNow(f) => RightNow(f)'
                       /\ Right(f) => Right(f)'
                       /\ f \in Awaited => f \in Awaited'
                       /\ f \in Told => f \in Told'
    BY <1>1, <1>2 DEF Believed, RightNow, Right, InHand, Told, Awaited
  <1>4. RowsRight'
    BY <1>1, <1>3 DEF Silence, RowsRight
  <1>5. ASSUME NEW x \in Hands, NEW f \in Own PROVE HandRight(x, f)'
    BY <1>1, <1>2, <1>3 DEF Silence, BuildsRight, HandRight
  <1>6. ASSUME NEW f \in Own PROVE WatcherRight(f)'
    BY <1>1, <1>2, <1>3 DEF Silence, BuildsRight, WatcherRight
  <1> QED BY <1>2, <1>4, <1>5, <1>6 DEF Silence, BuildsRight

(* What a commit writes is right; what it leaves alone, too, and then the  *)
(* watcher needs its batch no longer.                                      *)
LEMMA CommitsSilence ==
  ASSUME TypeOK, Lock, Silence, NEW b \in Builders, Commits(b), ~orphan[b]
  PROVE  Silence'
  <1> USE Names DEF TypeOK, Builders, Paths
  <1>0. PICK H \in SUBSET Own :
          /\ rows' = [p \in Paths |-> IF p \in H THEN NoRow
                                     ELSE IF staged[b][p] = Keep THEN rows[p]
                                     ELSE staged[b][p]]
          /\ lapsed' = lapsed \cup H
          /\ b \in Hands \/ staged[b] = AsIs => H = {}
    BY CommitWrites
  <1>1. /\ UNCHANGED <<disk, langs, dirty, noted>> /\ Ends(b) /\ pc[b] = "commit"
        /\ lapsed \subseteq lapsed'
        /\ \A p \in Paths :
             \/ p \in lapsed' /\ p \in Own /\ rows'[p] = NoRow
             \/ rows'[p] = IF staged[b][p] = Keep THEN rows[p] ELSE staged[b][p]
        /\ built' = (built \/ full[b])
    BY <1>0 DEF Commits, envVars, At
  <1>2. /\ Places'
        /\ pc'[b] = "idle"
        /\ \A x \in Builders \ {b} :
             /\ pc'[x] = pc[x] /\ full'[x] = full[x] /\ orphan'[x] = orphan[x]
             /\ prev'[x] = prev[x] /\ todo'[x] = todo[x] /\ staged'[x] = staged[x]
        /\ batch' = IF b = Watcher THEN {} ELSE batch
    BY <1>1, EndsPlaces
  <1>3. /\ Told' = Told /\ todo[b] = {}
        /\ b # Watcher => InHand' = InHand /\ Awaited' = Awaited
        /\ b = Watcher => InHand' = {} /\ Awaited' = Told /\ Awaited = Told
    BY <1>1, <1>2 DEF Told, InHand, Awaited, Silence, Places, Place
  <1>4. \A f \in Own : staged[b][f] # Keep => staged[b] # AsIs
    BY DEF AsIs
  <1>5. \A x \in Builders \ {b} : snap'[x] = "fresh" =>
          snap[x] = "fresh" /\ (orphan[x] \/ staged[b] = AsIs)
    BY DEF Commits, Behind
  <1>6. ASSUME NEW f \in Own, staged[b][f] # Keep
        PROVE  rows'[f].text = disk'[f] \/ f \in Awaited' \/ f \in lapsed'
    <2>1. CASE b = Watcher
      BY <1>1, <1>3, <1>6, <2>1 DEF Silence, BuildsRight, WatcherRight
    <2>2. CASE b # Watcher
      <3>1. snap[b] = "fresh"
        BY <1>1, <1>4, <1>6, <2>2 DEF Lock, CommitHasLock, HandsFresh
      <3> QED BY <1>1, <1>3, <1>6, <2>2, <3>1 DEF Silence, BuildsRight, HandRight
    <2> QED BY <2>1, <2>2
  <1>7. \A f \in Own : f \in Awaited' => f \in Told' \/ f \in InHand'
    BY DEF Awaited
  <1>8. ASSUME NEW f \in Own
        PROVE  /\ Right(f) => Right(f)'
               /\ rows'[f] = rows[f] \/ Right(f)'
               /\ full[b] => Right(f)'
    <2>1. CASE staged[b][f] # Keep \/ f \in lapsed'
      BY <1>6, <1>7, <2>1 DEF Right, Believed, RightNow
    <2>2. CASE staged[b][f] = Keep /\ f \notin lapsed' /\ b # Watcher
      <3>1. Right(f)' = Right(f) /\ rows'[f] = rows[f]
        BY <1>1, <1>3, <2>2 DEF Right, Believed, RightNow
      <3>2. Right(f)
        BY <1>1, <1>3, <2>2 DEF Silence, BuildsRight, HandRight
      <3> QED BY <3>1, <3>2
    <2>3. CASE staged[b][f] = Keep /\ f \notin lapsed' /\ b = Watcher
      <3>1. rows'[f] = rows[f] /\ RightNow(f)' = RightNow(f)
        BY <1>1, <1>3, <2>3 DEF Believed, RightNow
      <3>2. full[b] \/ f \in batch => RightNow(f)
        BY <1>1, <1>3, <2>3 DEF Silence, BuildsRight, WatcherRight
      <3> QED BY <3>1, <3>2 DEF Right, InHand
    <2> QED BY <2>1, <2>2, <2>3
  <1>9. RowsRight'
    BY <1>1, <1>8 DEF Silence, RowsRight
  <1>10. ASSUME NEW x \in Hands, NEW f \in Own PROVE HandRight(x, f)'
    <2>1. CASE x = b
      BY <1>2, <2>1 DEF HandRight
    <2>2. CASE x # b
      <3>1. f \in Awaited => f \in Awaited'
        BY <1>3
      <3>2. rows[f] = prev[x][f] \/ Right(f) => rows'[f] = prev[x][f] \/ Right(f)'
        BY <1>8
      <3> QED BY <1>1, <1>2, <1>5, <1>8, <2>2, <3>1, <3>2
              DEF Silence, BuildsRight, HandRight
    <2> QED BY <2>1, <2>2
  <1>11. ASSUME NEW f \in Own PROVE WatcherRight(f)'
    <2>1. CASE b = Watcher
      BY <1>2, <2>1 DEF WatcherRight
    <2>2. CASE b # Watcher
      <3>1. pc[Watcher] \in {"prune", "drop", "prev", "check", "read", "commit"} =>
              /\ rows'[f] = rows[f] \/ RightNow(f)'
              /\ RightNow(f) => RightNow(f)'
        <4>1. CASE staged[b][f] = Keep
          BY <1>1, <1>3, <4>1 DEF Believed, RightNow
        <4>2. CASE staged[b][f] # Keep
          BY <1>2, <1>6, <2>2, <4>2 DEF Believed, RightNow, Awaited
        <4> QED BY <4>1, <4>2
      <3> QED BY <1>1, <1>2, <1>3, <2>2, <3>1 DEF Silence, BuildsRight, WatcherRight
    <2> QED BY <2>1, <2>2
  <1> QED BY <1>2, <1>9, <1>10, <1>11 DEF Silence, BuildsRight

LEMMA NextSilence ==
  TypeOK /\ Lock /\ Silence /\ [Next]_vars => Silence'
  <1> SUFFICES ASSUME TypeOK, Lock, Silence, [Next]_vars PROVE Silence'
    OBVIOUS
  <1>1. CASE Tree
    BY <1>1, EditSilence, StructuralSilence DEF Tree
  <1>2. CASE TakesBatch
    BY <1>2, TakesBatchSilence
  <1>3. CASE \E b \in Hands : Begins(b)
    BY <1>3, BeginsSilence
  <1>4. ASSUME NEW b \in Builders, Step(b) PROVE Silence'
    <2>1. CASE Commits(b)
      BY <2>1, CommitsSilence, OrphanCommitsSilence
    <2>2. CASE NoLastRoot(b)
      BY <2>2, NoLastRootSilence
    <2> QED BY <1>4, <2>1, <2>2, StepSilence
  <1>5. CASE \E b \in Builders : Fails(b)
    BY <1>5, FailsSilence
  <1>6. CASE UNCHANGED vars
    <2>1. Places' /\ RowsRight'
      BY <1>6 DEF vars, envVars, watchVars, dbVars, jobVars, Silence, Places, Place,
                  WatcherPlace, RowsRight, Right, Believed, RightNow, InHand, Told
    <2>2. BuildsRight'
      BY <1>6 DEF vars, envVars, watchVars, dbVars, jobVars, Silence, BuildsRight, HandRight,
                  WatcherRight, Right, Believed, RightNow, InHand, Told, Awaited
    <2> QED BY <2>1, <2>2 DEF Silence
  <1> QED
    BY <1>1, <1>2, <1>3, <1>4, <1>5, <1>6 DEF Next

(* For every number of files, builds by hand and edits, whenever a file is *)
(* saved: builds that overlap, are refused, fail or have the database      *)
(* unlinked under them leave the index believing it holds what each file   *)
(* is, or the watcher knows or has logged better.  What is lost in silence *)
(* is lost in one of three ways, each of which the history names: a file   *)
(* skipped by the watcher, one that a full build with AllowedLangs finds   *)
(* gone, one whose rows a sweep takes for another's (Build,                *)
(* BuildIncremental, ingestFilesParallel, handleBatch).                    *)
THEOREM NothingGetsStaleSilently == Spec => []NoSilentStaleness
  <1>1. Silence => NoSilentStaleness
    BY DEF Silence, RowsRight, Right, Believed, RightNow, InHand, Told, NoSilentStaleness
  <1>2. TypeOK /\ Lock /\ Silence /\ [Next]_vars => Silence'
    BY NextSilence
  <1> QED
    BY InitType, NextType, InitLock, NextLock, InitSilence, <1>1, <1>2, PTL DEF Spec
====
