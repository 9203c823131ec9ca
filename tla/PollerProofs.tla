---- MODULE PollerProofs ----
(***************************************************************************)
(* What holds of PollerSource for every set of files, every assignment of  *)
(* stats to versions, every capacity and every number of failed looks.     *)
(*                                                                         *)
(* The inductive invariant IInv adds to the type and to NoSilentLoss that  *)
(* no row is ahead of the disk, that what has not been looked at yet       *)
(* counts as unseen, and that a walk begins with nothing left to emit.     *)
(***************************************************************************)
EXTENDS PollerSource, TLAPS, SequenceTheorems

(* What a queue holds after Append: the old elements and the new one.      *)
LEMMA AppendContains ==
  ASSUME NEW S, NEW s \in Seq(S), NEW x \in S, NEW e
  PROVE  Contains(Append(s, x), e) <=> Contains(s, e) \/ e = x
  <1>1. /\ Append(s, x) \in Seq(S)
        /\ Len(Append(s, x)) = Len(s) + 1
        /\ \A i \in 1..Len(s) : Append(s, x)[i] = s[i]
        /\ Append(s, x)[Len(s) + 1] = x
    BY AppendProperties
  <1>2. Len(s) \in Nat
    BY LenProperties
  <1> QED
    BY <1>1, <1>2 DEF Contains

(* What a queue loses by Tail: at most its head.                           *)
LEMMA TailContains ==
  ASSUME NEW S, NEW s \in Seq(S), s # <<>>, NEW e
  PROVE  Contains(s, e) <=> e = Head(s) \/ Contains(Tail(s), e)
  <1>1. /\ Len(s) \in Nat \ {0}
        /\ Tail(s) \in Seq(S)
        /\ Len(Tail(s)) = Len(s) - 1
        /\ \A i \in 1..Len(Tail(s)) : Tail(s)[i] = s[i + 1]
        /\ Head(s) = s[1]
    BY HeadTailProperties, LenProperties, EmptySeq
  <1>2. ASSUME Contains(s, e) PROVE e = Head(s) \/ Contains(Tail(s), e)
    <2>1. PICK i \in 1..Len(s) : s[i] = e
      BY <1>2 DEF Contains
    <2>2. CASE i = 1
      BY <2>1, <2>2, <1>1
    <2>3. CASE i # 1
      <3>1. i - 1 \in 1..Len(Tail(s)) /\ Tail(s)[i - 1] = e
        BY <2>1, <2>3, <1>1
      <3> QED BY <3>1 DEF Contains
    <2> QED BY <2>2, <2>3
  <1>3. ASSUME e = Head(s) \/ Contains(Tail(s), e) PROVE Contains(s, e)
    <2>1. CASE e = Head(s)
      BY <2>1, <1>1 DEF Contains
    <2>2. CASE Contains(Tail(s), e)
      <3>1. PICK i \in 1..Len(Tail(s)) : Tail(s)[i] = e
        BY <2>2 DEF Contains
      <3>2. i + 1 \in 1..Len(s) /\ s[i + 1] = e
        BY <3>1, <1>1
      <3> QED BY <3>2 DEF Contains
    <2> QED BY <1>3, <2>1, <2>2
  <1> QED BY <1>2, <1>3

-----------------------------------------------------------------------------

-----------------------------------------------------------------------------
(* Types.                                                                  *)

(* The stat of the version on disk is one a walk can take.                 *)
LEMMA StatOnDisk ==
  ASSUME disk \in Versions, NEW f \in Files
  PROVE  StatOf[f][disk[f]] \in Stats \cup {Gone}
  <1>1. disk[f] \in 0..MaxVersion[f]
    BY VersionAssumption DEF Versions
  <1> QED BY <1>1, StatOfAssumption

LEMMA MoveIsVersions ==
  ASSUME NEW h \in Versions, NEW f \in Files, NEW n \in Nat, n <= MaxVersion[f]
  PROVE  [h EXCEPT ![f] = n] \in Versions
  BY DEF Versions

LEMMA InitTypeOK == Init => TypeOK
  <1> SUFFICES ASSUME Init PROVE TypeOK
    OBVIOUS
  <1>1. [f \in Files |-> 0] \in Versions
    BY VersionAssumption DEF Versions
  <1>2. <<>> \in Seq(Files) /\ Len(<<>>) = 0
    BY EmptySeq
  <1>3. ChanCap >= 0 /\ 0 \in 0..MaxErrors
    BY VersionAssumption
  <1> QED
    BY <1>1, <1>2, <1>3 DEF Init, TypeOK, Looks

LEMMA StepTypeOK == TypeOK /\ [Next]_vars => TypeOK'
  <1> SUFFICES ASSUME TypeOK, [Next]_vars PROVE TypeOK'
    OBVIOUS
  <1> USE DEF TypeOK, fileVars, walkVars
  <1>1. ASSUME NEW f \in Files, Edit(f) PROVE TypeOK'
    <2>1. disk[f] \in Nat /\ MaxVersion[f] \in Nat /\ disk[f] + 1 <= MaxVersion[f]
      <3>1. disk \in [Files -> Nat] /\ MaxVersion \in [Files -> Nat]
        BY VersionAssumption DEF Versions
      <3>2. disk[f] < MaxVersion[f]
        BY <1>1 DEF Edit
      <3> QED BY <3>1, <3>2
    <2>2. ASSUME NEW h \in Versions PROVE [h EXCEPT ![f] = disk[f] + 1] \in Versions
      BY <2>1, <2>2, MoveIsVersions
    <2> QED
      BY <1>1, <2>2 DEF Edit
  <1>2. CASE Tick
    BY <1>2 DEF Tick
  <1>3. ASSUME NEW f \in Files, Look(f) PROVE TypeOK'
    <2>1. cur' \in [Files -> Stats \cup {Gone}]
      BY <1>3, StatOnDisk DEF Look
    <2> QED
      BY <1>3, <2>1 DEF Look
  <1>4. ASSUME NEW f \in Files, LookFails(f) PROVE TypeOK'
    BY <1>4, VersionAssumption DEF LookFails
  <1>5. CASE WalkEnds
    BY <1>5 DEF WalkEnds, Looks
  <1>6. ASSUME NEW f \in Files, Emit(f) PROVE TypeOK'
    <2>1. Len(out) \in Nat /\ Len(out') = Len(out) + 1 /\ out' \in Seq(Files)
      BY <1>6, AppendProperties, LenProperties DEF Emit
    <2> QED
      BY <1>6, <2>1, VersionAssumption DEF Emit, Emits
  <1>7. ASSUME NEW f \in Files, EmitDrops(f) PROVE TypeOK'
    <2>1. noted' \in Versions
      BY <1>7 DEF EmitDrops, Versions
    <2> QED
      BY <1>7, <2>1 DEF EmitDrops, Emits
  <1>8. ASSUME NEW f \in Files, EmitStops(f) PROVE TypeOK'
    BY <1>8 DEF EmitStops, Emits
  <1>9. CASE EmitDone \/ Exits
    BY <1>9 DEF EmitDone, Exits
  <1>10. CASE Consume
    <2>1. /\ Head(out) \in Files /\ Len(out) \in Nat
          /\ out' \in Seq(Files) /\ Len(out') = Len(out) - 1
      BY <1>10, HeadTailProperties, LenProperties DEF Consume
    <2>2. index' \in Versions
      BY <1>10, <2>1 DEF Consume, Versions
    <2> QED
      BY <1>10, <2>1, <2>2, VersionAssumption DEF Consume
  <1>11. CASE Stop
    BY <1>11 DEF Stop
  <1>12. CASE UNCHANGED vars
    BY <1>12 DEF vars
  <1> QED
    BY <1>1, <1>2, <1>3, <1>4, <1>5, <1>6, <1>7, <1>8, <1>9, <1>10, <1>11, <1>12
    DEF Next, Walk, Emission

(* Every variable keeps its type; the channel never holds more events than *)
(* it has room for.                                                        *)
THEOREM TypeCorrect == Spec => []TypeOK
  BY InitTypeOK, StepTypeOK, PTL DEF Spec

-----------------------------------------------------------------------------
(* The inductive invariant.                                                *)

(* No row is ahead of the disk.                                            *)
InOrder == \A f \in Files : index[f] <= disk[f]

(* What the poller has never looked at it cannot miss either.              *)
Blind == \A f \in Files : Looked(f) = Unknown => unseen[f] = disk[f]

(* A tick emits what its walk has found before the next one.               *)
Emitted == run # "emit" => todo = {}

(* NoSilentLoss for one file.                                              *)
Sound(f) == \/ disk[f] \in {index[f], noted[f], unseen[f]}
            \/ InFlight(f)
            \/ stop

IInv == TypeOK /\ InOrder /\ Blind /\ Emitted /\ NoSilentLoss

LEMMA InitIInv == Init => IInv
  <1> SUFFICES ASSUME Init PROVE IInv
    OBVIOUS
  <1>1. InOrder /\ Blind /\ Emitted /\ NoSilentLoss
    BY DEF Init, InOrder, Blind, Emitted, NoSilentLoss
  <1> QED
    BY <1>1, InitTypeOK DEF IInv

(* An edit moves one file forward and leaves the poller where it was.      *)
LEMMA EditMovesForward ==
  ASSUME TypeOK, NEW f \in Files, Edit(f)
  PROVE  /\ disk'[f] = disk[f] + 1
         /\ \A g \in Files : disk[g] \in Nat /\ (g # f => disk'[g] = disk[g])
         /\ \A g \in Files : g # f => unseen'[g] = unseen[g]
         /\ \A g \in Files : Looked(g)' = Looked(g)
         /\ Looked(f) \in {Unknown, StatOf[f][disk[f] + 1]} => unseen'[f] = disk'[f]
  BY DEF TypeOK, Versions, Edit, Looked, walkVars

(* What the poller's own steps do to what it has looked at last.           *)
LEMMA StepLooked ==
  ASSUME TypeOK, NEW g \in Files
  PROVE  /\ Tick => Looked(g)' = Looked(g)
         /\ \A f \in Files : Look(f) =>
              Looked(g)' = IF f = g THEN StatOf[g][disk[g]] ELSE Looked(g)
         /\ \A f \in Files : LookFails(f) =>
              Looked(g)' = IF f = g THEN cur[g] ELSE Looked(g)
         /\ WalkEnds => Looked(g)' = cur[g] /\ Looked(g) = cur[g]
         /\ EmitDone \/ Exits => Looked(g)' = Looked(g)
         /\ UNCHANGED walkVars => Looked(g)' = Looked(g)
  <1>1. ASSUME NEW f \in Files, Look(f)
        PROVE Looked(g)' = IF f = g THEN StatOf[g][disk[g]] ELSE Looked(g)
    BY <1>1 DEF TypeOK, Look, Looked
  <1>2. ASSUME NEW f \in Files, LookFails(f)
        PROVE Looked(g)' = IF f = g THEN cur[g] ELSE Looked(g)
    BY <1>2 DEF TypeOK, LookFails, Looked
  <1> QED
    BY <1>1, <1>2 DEF Tick, WalkEnds, EmitDone, Exits, Looked, walkVars

(* The steps that neither edit nor consume nor log.                        *)
LEMMA OtherSteps ==
  ASSUME \/ Tick \/ Walk \/ EmitDone \/ Exits \/ Stop
         \/ \E f \in Files : Emit(f) \/ EmitStops(f)
  PROVE  UNCHANGED <<fileVars, index>>
  BY DEF Tick, Walk, Look, LookFails, WalkEnds, EmitDone, Exits, Stop, Emit, EmitStops

LEMMA StepInOrder ==
  ASSUME TypeOK, InOrder, [Next]_vars
  PROVE  InOrder'
  <1> USE DEF InOrder
  <1>t. \A f \in Files : disk[f] \in Nat /\ index[f] \in Nat
    BY DEF TypeOK, Versions
  <1>1. ASSUME NEW f \in Files, Edit(f) PROVE InOrder'
    <2>1. \A g \in Files : disk[g] <= disk'[g] /\ disk'[g] \in Nat
      BY <1>1, EditMovesForward
    <2> QED BY <1>1, <2>1, <1>t DEF Edit
  <1>2. CASE Consume
    <2>1. \A g \in Files : index'[g] \in {index[g], disk[g]}
      BY <1>2 DEF Consume, TypeOK, Versions
    <2> QED BY <1>2, <2>1, <1>t DEF Consume, fileVars
  <1>3. CASE \E f \in Files : EmitDrops(f)
    BY <1>3 DEF EmitDrops
  <1>4. CASE UNCHANGED vars
    BY <1>4 DEF vars, fileVars
  <1>5. CASE UNCHANGED <<fileVars, index>>
    BY <1>5 DEF fileVars
  <1> QED
    BY <1>1, <1>2, <1>3, <1>4, <1>5, OtherSteps DEF Next, Emission

LEMMA StepBlind ==
  ASSUME TypeOK, Blind, [Next]_vars
  PROVE  Blind'
  <1> SUFFICES ASSUME NEW g \in Files, Looked(g)' = Unknown PROVE unseen'[g] = disk'[g]
    BY DEF Blind
  <1>b. Looked(g) = Unknown => unseen[g] = disk[g]
    BY DEF Blind
  <1>1. ASSUME NEW f \in Files, Edit(f) PROVE unseen'[g] = disk'[g]
    BY <1>1, <1>b, EditMovesForward
  <1>2. cur[g] # Unknown /\ StatOf[g][disk[g]] # Unknown
    BY StatOnDisk, StatAssumption DEF TypeOK
  <1>3. ASSUME UNCHANGED <<fileVars, index>>, Looked(g)' = Looked(g)
        PROVE  unseen'[g] = disk'[g]
    BY <1>3, <1>b DEF fileVars
  <1>4. CASE Tick \/ EmitDone \/ Exits
    BY <1>3, <1>4, OtherSteps, StepLooked
  <1>5. ASSUME NEW f \in Files, Look(f) \/ LookFails(f) PROVE unseen'[g] = disk'[g]
    <2>1. Looked(g)' = Looked(g)
      BY <1>2, <1>5, StepLooked
    <2> QED BY <1>3, <1>5, <2>1, OtherSteps DEF Walk
  <1>6. CASE WalkEnds
    BY <1>2, <1>6, StepLooked
  <1>7. ASSUME UNCHANGED <<walkVars, disk, unseen>> PROVE unseen'[g] = disk'[g]
    BY <1>7, <1>b, StepLooked
  <1>8. CASE \E f \in Files : Emit(f) \/ EmitDrops(f) \/ EmitStops(f)
    BY <1>7, <1>8 DEF Emit, EmitDrops, EmitStops, fileVars
  <1>9. CASE Consume \/ Stop \/ UNCHANGED vars
    BY <1>7, <1>9 DEF Consume, Stop, vars, fileVars
  <1> QED
    BY <1>1, <1>4, <1>5, <1>6, <1>8, <1>9 DEF Next, Walk, Emission

LEMMA StepEmitted ==
  ASSUME TypeOK, Emitted, [Next]_vars
  PROVE  Emitted'
  <1> USE DEF Emitted
  <1>1. CASE \E f \in Files : Edit(f)
    BY <1>1 DEF Edit, walkVars
  <1>2. CASE Tick \/ Walk
    BY <1>2 DEF Tick, Walk, Look, LookFails, WalkEnds
  <1>3. CASE Emission
    BY <1>3 DEF Emission, Emit, EmitDrops, EmitStops, EmitDone, Emits, walkVars
  <1>4. CASE Exits
    BY <1>4 DEF Exits
  <1>5. CASE Consume \/ Stop \/ UNCHANGED vars
    BY <1>5 DEF Consume, Stop, vars, walkVars
  <1> QED
    BY <1>1, <1>2, <1>3, <1>4, <1>5 DEF Next

(* Where a difference is found it is on its way: what each step does to    *)
(* InFlight.                                                               *)
LEMMA StepSound ==
  ASSUME TypeOK, Blind, Emitted, [Next]_vars, NEW g \in Files, Sound(g)
  PROVE  Sound(g)'
  <1> USE DEF Sound
  <1>1. ASSUME NEW f \in Files, Edit(f) PROVE Sound(g)'
    <2>1. UNCHANGED <<noted, index, walkVars, todo, out, stop>>
      BY <1>1 DEF Edit
    <2>2. CASE g = f
      <3>1. CASE Looked(g) \in {Unknown, StatOf[g][disk[g] + 1]}
        BY <1>1, <2>2, <3>1, EditMovesForward
      <3>2. CASE Looked(g) \notin {Unknown, StatOf[g][disk[g] + 1]}
        <4>1. StatOf[g][disk'[g]] # Looked(g)'
          BY <1>1, <2>2, <3>2, EditMovesForward
        <4> QED BY <4>1 DEF InFlight
      <3> QED BY <3>1, <3>2
    <2>3. CASE g # f
      <3>1. disk'[g] = disk[g] /\ unseen'[g] = unseen[g] /\ Looked(g)' = Looked(g)
        BY <1>1, <2>3, EditMovesForward
      <3> QED BY <2>1, <3>1 DEF InFlight, walkVars
    <2> QED BY <2>2, <2>3
  <1>2. CASE Tick
    <2>1. Looked(g)' = Looked(g)
      BY <1>2, StepLooked
    <2> QED
      BY <1>2, <2>1 DEF Tick, InFlight, fileVars
  <1>3. ASSUME NEW f \in Files, Look(f) \/ LookFails(f) PROVE Sound(g)'
    <2>1. UNCHANGED <<fileVars, index, todo, out, stop, seen, run>>
          /\ run = "walk" /\ f \in left /\ left' = left \ {f}
      BY <1>3 DEF Look, LookFails
    <2>2. CASE g # f
      <3>1. Looked(g)' = Looked(g)
        BY <1>3, <2>2, StepLooked
      <3>2. cur'[g] = cur[g]
        BY <1>3, <2>2 DEF Look, LookFails, TypeOK
      <3> QED
        BY <2>1, <2>2, <3>1, <3>2 DEF InFlight, fileVars
    <2>3. CASE g = f
      <3>1. Looked(g) = seen[g]
        BY <2>1, <2>3 DEF Looked
      <3>2. Looked(g)' = cur'[g]
        BY <2>1, <2>3 DEF Looked
      <3>3. CASE seen[g] = Unknown
        BY <2>1, <3>1, <3>3 DEF Blind, fileVars
      <3>4. CASE seen[g] # Unknown /\ cur'[g] # seen[g]
        <4>1. InFlight(g)'
          BY <2>1, <2>3, <3>4 DEF InFlight
        <4> QED BY <4>1
      <3>5. CASE cur'[g] = seen[g]
        BY <2>1, <2>3, <3>1, <3>2, <3>5 DEF InFlight, fileVars
      <3> QED BY <3>3, <3>4, <3>5
    <2> QED BY <2>2, <2>3
  <1>4. CASE WalkEnds
    <2>1. Looked(g)' = cur[g] /\ Looked(g) = cur[g]
      BY <1>4, StepLooked
    <2>2. seen[g] \notin {Unknown, cur[g]} => g \in todo'
      BY <1>4 DEF WalkEnds, First
    <2>3. g \notin todo
      BY <1>4 DEF WalkEnds, Emitted
    <2> QED
      BY <1>4, <2>1, <2>2, <2>3 DEF WalkEnds, InFlight, fileVars
  <1>5. ASSUME NEW f \in Files, Emit(f) PROVE Sound(g)'
    <2>1. Contains(out', g) <=> Contains(out, g) \/ g = f
      BY <1>5, AppendContains DEF Emit, TypeOK
    <2>2. Looked(g)' = Looked(g)
      BY <1>5, StepLooked DEF Emit
    <2> QED
      BY <1>5, <2>1, <2>2 DEF Emit, Emits, InFlight, fileVars, walkVars
  <1>6. ASSUME NEW f \in Files, EmitDrops(f) PROVE Sound(g)'
    <2>1. noted'[g] = IF g = f THEN disk[g] ELSE noted[g]
      BY <1>6 DEF EmitDrops, TypeOK, Versions
    <2>2. Looked(g)' = Looked(g)
      BY <1>6, StepLooked DEF EmitDrops
    <2> QED
      BY <1>6, <2>1, <2>2 DEF EmitDrops, Emits, InFlight, walkVars
  <1>7. CASE \E f \in Files : EmitStops(f)
    BY <1>7 DEF EmitStops
  <1>8. CASE EmitDone \/ Exits
    <2>1. Looked(g)' = Looked(g)
      BY <1>8, StepLooked
    <2> QED
      BY <1>8, <2>1 DEF EmitDone, Exits, InFlight, fileVars
  <1>9. CASE Consume
    <2>1. Contains(out, g) <=> g = Head(out) \/ Contains(out', g)
      BY <1>9, TailContains DEF Consume, TypeOK
    <2>2. index'[g] = IF g = Head(out) THEN disk[g] ELSE index[g]
      BY <1>9 DEF Consume, TypeOK, Versions
    <2>3. Looked(g)' = Looked(g)
      BY <1>9, StepLooked DEF Consume
    <2> QED
      BY <1>9, <2>1, <2>2, <2>3 DEF Consume, InFlight, fileVars, walkVars
  <1>10. CASE Stop
    BY <1>10 DEF Stop
  <1>11. CASE UNCHANGED vars
    <2>1. Looked(g)' = Looked(g)
      BY <1>11, StepLooked DEF vars
    <2> QED
      BY <1>11, <2>1 DEF vars, InFlight, fileVars, walkVars
  <1> QED
    BY <1>1, <1>2, <1>3, <1>4, <1>5, <1>6, <1>7, <1>8, <1>9, <1>10, <1>11
    DEF Next, Walk, Emission

LEMMA StepIInv == IInv /\ [Next]_vars => IInv'
  <1> SUFFICES ASSUME IInv, [Next]_vars PROVE IInv'
    OBVIOUS
  <1>1. TypeOK' /\ InOrder' /\ Blind' /\ Emitted'
    BY StepTypeOK, StepInOrder, StepBlind, StepEmitted DEF IInv
  <1>2. ASSUME NEW g \in Files PROVE Sound(g)'
    <2>1. Sound(g)
      BY DEF IInv, NoSilentLoss, Sound
    <2> QED BY <2>1, StepSound DEF IInv
  <1>3. NoSilentLoss'
    BY <1>2 DEF NoSilentLoss, Sound
  <1> QED
    BY <1>1, <1>3 DEF IInv

LEMMA Inductive == Spec => []IInv
  BY InitIInv, StepIInv, PTL DEF Spec

(* The snapshot is replaced before its differences are emitted, and files  *)
(* change while they are walked; still no visible change is lost without a *)
(* line in the log, whatever the stats, the capacity and the failed looks. *)
THEOREM NoChangeIsLostSilently == Spec => []NoSilentLoss
  <1>1. IInv => NoSilentLoss
    BY DEF IInv
  <1> QED BY Inductive, <1>1, PTL

-----------------------------------------------------------------------------
(* PollerSource implements IndexSync.                                      *)

LEMMA InitRefines == Init => IndexOf!Init
  BY DEF Init, IndexOf!Init

LEMMA StepRefines == IInv /\ [Next]_vars => [IndexOf!Next]_(IndexOf!vars)
  <1> SUFFICES ASSUME IInv, [Next]_vars, ~UNCHANGED IndexOf!vars PROVE IndexOf!Next
    OBVIOUS
  <1>t. TypeOK /\ InOrder
    BY DEF IInv
  <1>1. ASSUME NEW f \in Files, Edit(f) PROVE IndexOf!Next
    BY <1>1 DEF Edit, IndexOf!Edit, IndexOf!Next
  <1>2. ASSUME NEW f \in Files, EmitDrops(f) PROVE IndexOf!Next
    <2>1. noted' = [g \in Files |-> IF g \in {f} THEN disk[g] ELSE noted[g]]
      BY <1>2, <1>t DEF EmitDrops, TypeOK, Versions
    <2>2. IndexOf!Note({f})
      BY <1>2, <2>1 DEF EmitDrops, IndexOf!Note
    <2> QED BY <2>2 DEF IndexOf!Next
  <1>3. CASE Consume
    <2>1. index' \in IndexOf!Versions
      BY <1>3, <1>t, StepTypeOK DEF IInv, TypeOK, Versions, IndexOf!Versions
    <2>2. \A g \in Files : /\ index'[g] \in {index[g], disk[g]}
                           /\ index[g] \in Nat /\ disk[g] \in Nat /\ index[g] <= disk[g]
      BY <1>3, <1>t DEF Consume, TypeOK, Versions, InOrder
    <2>3. IndexOf!Sync
      BY <1>3, <2>1, <2>2 DEF Consume, IndexOf!Sync, fileVars
    <2> QED BY <2>3 DEF IndexOf!Next
  <1>4. CASE Stop
    BY <1>4 DEF Stop, IndexOf!Halt, IndexOf!Next, fileVars
  <1>5. ASSUME UNCHANGED <<fileVars, index, stop>> PROVE FALSE
    BY <1>5 DEF IndexOf!vars, fileVars
  <1>6. CASE Tick \/ Walk \/ EmitDone \/ Exits
    BY <1>5, <1>6 DEF Tick, Walk, Look, LookFails, WalkEnds, EmitDone, Exits
  <1>7. CASE \E f \in Files : Emit(f) \/ EmitStops(f)
    BY <1>5, <1>7 DEF Emit, EmitStops
  <1>8. CASE UNCHANGED vars
    BY <1>5, <1>8 DEF vars
  <1> QED
    BY <1>1, <1>2, <1>3, <1>4, <1>6, <1>7, <1>8 DEF Next, Emission

(* The poller, like the watcher on inotify, implements IndexSync: rows     *)
(* move forward only, never past the disk, and what is logged is a loss.   *)
THEOREM PollerRefinesIndexSync == Spec => RefinesIndexSync
  <1>1. Init /\ [][Next]_vars /\ []IInv => IndexOf!Spec
    BY InitRefines, StepRefines, PTL DEF IndexOf!Spec
  <1> QED
    BY <1>1, Inductive, PTL DEF Spec, RefinesIndexSync
====
