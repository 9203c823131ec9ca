---- MODULE WatchLoopProofs ----
(***************************************************************************)
(* What holds of WatchLoop for every set of files, every queue length and  *)
(* every number of saves.                                                  *)
(*                                                                         *)
(* The inductive invariant IInv adds two things to the type: how far the   *)
(* shutdown handshake (reader, stop, loop) has come, and that a build in   *)
(* progress never stages a row that is older than the index or newer than  *)
(* the disk.                                                               *)
(***************************************************************************)
EXTENDS WatchLoop, TLAPS, SequenceTheorems, FiniteSetTheorems

(* What a queue holds after Append: the old elements and the new one.      *)
LEMMA AppendContains ==
  ASSUME NEW S, NEW s \in Seq(S), NEW x \in S, NEW e
  PROVE  Contains(Append(s, x), e) <=> Contains(s, e) \/ e = x
  <1>1. /\ Append(s, x) \in Seq(S)
        /\ Len(Append(s, x)) = Len(s) + 1
        /\ \A i \in 1..Len(s) : Append(s, x)[i] = s[i]
        /\ Append(s, x)[Len(s) + 1] = x
    BY AppendProperties
  <1>2. Len(s) \in Nat
    BY LenProperties
  <1> QED
    BY <1>1, <1>2 DEF Contains

(* What a queue loses by Tail: at most its head.                           *)
LEMMA TailContains ==
  ASSUME NEW S, NEW s \in Seq(S), s # <<>>, NEW e
  PROVE  Contains(s, e) <=> e = Head(s) \/ Contains(Tail(s), e)
  <1>1. /\ Len(s) \in Nat \ {0}
        /\ Tail(s) \in Seq(S)
        /\ Len(Tail(s)) = Len(s) - 1
        /\ \A i \in 1..Len(Tail(s)) : Tail(s)[i] = s[i + 1]
        /\ Head(s) = s[1]
    BY HeadTailProperties, LenProperties, EmptySeq
  <1>2. ASSUME Contains(s, e) PROVE e = Head(s) \/ Contains(Tail(s), e)
    <2>1. PICK i \in 1..Len(s) : s[i] = e
      BY <1>2 DEF Contains
    <2>2. CASE i = 1
      BY <2>1, <2>2, <1>1
    <2>3. CASE i # 1
      <3>1. i - 1 \in 1..Len(Tail(s)) /\ Tail(s)[i - 1] = e
        BY <2>1, <2>3, <1>1
      <3> QED BY <3>1 DEF Contains
    <2> QED BY <2>2, <2>3
  <1>3. ASSUME e = Head(s) \/ Contains(Tail(s), e) PROVE Contains(s, e)
    <2>1. CASE e = Head(s)
      BY <2>1, <1>1 DEF Contains
    <2>2. CASE Contains(Tail(s), e)
      <3>1. PICK i \in 1..Len(Tail(s)) : Tail(s)[i] = e
        BY <2>2 DEF Contains
      <3>2. i + 1 \in 1..Len(s) /\ s[i + 1] = e
        BY <3>1, <1>1
      <3> QED BY <3>2 DEF Contains
    <2> QED BY <1>3, <2>1, <2>2
  <1> QED BY <1>2, <1>3

-----------------------------------------------------------------------------

-----------------------------------------------------------------------------
(* Types.                                                                  *)

(* The three ways a watcher starts are of the right type.                  *)
LEMMA InitTypeOK == Init => TypeOK
  <1> SUFFICES ASSUME Init PROVE TypeOK
    OBVIOUS
  <1>1. [f \in Files |-> 0] \in Versions
    BY BoundsAssumption DEF Versions
  <1>2. <<>> \in Seq(Paths) /\ Len(<<>>) = 0
    BY EmptySeq
  <1>3. Cardinality({}) = 0
    BY FS_EmptySet
  <1>4. KernelCap >= 0 /\ ChanCap >= 0 /\ Buffered >= 0
    BY BoundsAssumption
  <1> QED
    BY <1>1, <1>2, <1>3, <1>4 DEF Init, TypeOK

(* Recording one more event in a coalescer with room keeps it in bounds.   *)
LEMMA AddInBounds ==
  ASSUME NEW P \in SUBSET Files, NEW x, Cardinality(P) < Buffered
  PROVE  Cardinality(P \cup {x}) <= Buffered
  <1>1. IsFiniteSet(P)
    BY FilesAssumption, FS_Subset
  <1>2. Cardinality(P) \in Nat
    BY <1>1, FS_CardinalityType
  <1>3. Cardinality(P \cup {x}) = IF x \in P THEN Cardinality(P) ELSE Cardinality(P) + 1
    BY <1>1, FS_AddElement
  <1> QED
    BY <1>2, <1>3, BoundsAssumption

LEMMA NotedIsVersions ==
  ASSUME disk \in Versions, noted \in Versions, NEW F
  PROVE  NotedFor(F) \in Versions
  BY DEF NotedFor, Versions

LEMMA SaveIsVersions ==
  ASSUME disk \in Versions, NEW f \in Files, Save(f), NEW g \in Versions
  PROVE  /\ disk' \in Versions
         /\ [g EXCEPT ![f] = disk[f] + 1] \in Versions
  <1>1. disk[f] \in Nat /\ MaxVersion[f] \in Nat /\ disk[f] + 1 <= MaxVersion[f]
    <2>1. disk \in [Files -> Nat] /\ MaxVersion \in [Files -> Nat]
      BY BoundsAssumption DEF Versions
    <2>2. disk[f] < MaxVersion[f]
      BY DEF Save
    <2> QED BY <2>1, <2>2
  <1>2. ASSUME NEW h \in Versions PROVE [h EXCEPT ![f] = disk[f] + 1] \in Versions
    BY <1>1, <1>2 DEF Versions
  <1> QED
    BY <1>2 DEF Save

LEMMA StepTypeOK == TypeOK /\ [Next]_vars => TypeOK'
  <1> SUFFICES ASSUME TypeOK, [Next]_vars PROVE TypeOK'
    OBVIOUS
  <1> USE DEF TypeOK
  <1>1. ASSUME NEW f \in Files, EditSeen(f) PROVE TypeOK'
    <2>1. disk' \in Versions
      BY <1>1, SaveIsVersions DEF EditSeen
    <2>2. kernel' \in Seq(Paths) /\ Len(kernel') <= KernelCap
      <3>1. f \in Paths
        BY DEF Paths
      <3>2. Len(kernel) \in Nat /\ Len(kernel') = Len(kernel) + 1 /\ kernel' \in Seq(Paths)
        BY <1>1, <3>1, AppendProperties, LenProperties DEF EditSeen
      <3> QED BY <3>2, <1>1, BoundsAssumption DEF EditSeen
    <2> QED
      BY <2>1, <2>2, <1>1 DEF EditSeen, coalVars, loopVars
  <1>2. ASSUME NEW f \in Files, EditOverflows(f) PROVE TypeOK'
    BY <1>2, SaveIsVersions DEF EditOverflows, srcVars, coalVars, loopVars
  <1>3. ASSUME NEW f \in Files, EditUnseen(f) PROVE TypeOK'
    <2>1. Save(f) /\ unseen' = [unseen EXCEPT ![f] = disk[f] + 1]
      BY <1>3 DEF EditUnseen
    <2>2. disk' \in Versions /\ unseen' \in Versions
      BY <2>1, SaveIsVersions
    <2>3. UNCHANGED <<noted, kernel, out, watching>>
      BY <1>3 DEF EditUnseen, srcVars
    <2> QED BY <2>2, <1>3 DEF EditUnseen, srcVars, coalVars, loopVars
  <1>4. ASSUME NEW n \in Noise, EditNoise(n) PROVE TypeOK'
    <2>1. n \in Paths
      BY DEF Paths
    <2>2. Len(kernel) \in Nat /\ Len(kernel') = Len(kernel) + 1 /\ kernel' \in Seq(Paths)
      BY <1>4, <2>1, AppendProperties, LenProperties DEF EditNoise
    <2> QED
      BY <2>2, <1>4, BoundsAssumption DEF EditNoise, fileVars, coalVars, loopVars
  <1>5. CASE Pump
    <2>1. /\ Head(kernel) \in Paths
          /\ kernel' \in Seq(Paths) /\ Len(kernel') = Len(kernel) - 1
          /\ Len(kernel) \in Nat
      BY <1>5, HeadTailProperties, LenProperties DEF Pump
    <2>2. /\ out' \in Seq(Paths) /\ Len(out') = Len(out) + 1
          /\ Len(out) \in Nat
      BY <1>5, <2>1, AppendProperties, LenProperties DEF Pump
    <2> QED
      BY <2>1, <2>2, <1>5, BoundsAssumption DEF Pump, fileVars, coalVars, loopVars
  <1>6. CASE SourceCloses
    BY <1>6 DEF SourceCloses, fileVars, coalVars, loopVars
  <1>7. ASSUME ReaderReady, out' = Tail(out)
        PROVE  /\ Head(out) \in Paths
               /\ out' \in Seq(Paths) /\ Len(out') <= ChanCap
    <2>1. /\ Head(out) \in Paths
          /\ out' \in Seq(Paths) /\ Len(out') = Len(out) - 1
          /\ Len(out) \in Nat
      BY <1>7, HeadTailProperties, LenProperties DEF ReaderReady
    <2> QED BY <2>1, BoundsAssumption
  <1>8. CASE ReaderRejects
    BY <1>7, <1>8 DEF ReaderRejects, fileVars, coalVars, loopVars
  <1>9. CASE ReaderAdds
    <2>1. pending' \subseteq Files /\ Cardinality(pending') <= Buffered
      BY <1>9, AddInBounds DEF ReaderAdds
    <2> QED
      BY <2>1, <1>7, <1>9 DEF ReaderAdds, fileVars, loopVars
  <1>10. CASE ReaderDrops
    BY <1>7, <1>10, NotedIsVersions DEF ReaderDrops, coalVars, loopVars
  <1>11. CASE ReaderSignals
    BY <1>11 DEF ReaderSignals, fileVars, srcVars, loopVars
  <1>12. CASE ReaderExits
    BY <1>12 DEF ReaderExits, fileVars, srcVars, coalVars, loopVars
  <1>13. CASE StopCloses
    BY <1>13 DEF StopCloses, fileVars, srcVars, coalVars, loopVars
  <1>14. CASE TimerFires
    BY <1>14 DEF TimerFires, fileVars, srcVars, loopVars
  <1>15. CASE Cancel
    BY <1>15 DEF Cancel, fileVars, srcVars, coalVars, loopVars
  <1>16. Cardinality({}) <= Buffered
    BY FS_EmptySet, BoundsAssumption
  <1>17. CASE Attach
    BY <1>17 DEF Attach, fileVars, coalVars
  <1>18. CASE DrainWakes
    BY <1>18 DEF DrainWakes, fileVars, srcVars
  <1>19. CASE DrainStops
    BY <1>16, <1>19 DEF DrainStops, fileVars, srcVars
  <1>20. CASE Drained
    BY <1>16, <1>20 DEF Drained, fileVars, srcVars
  <1>21. CASE HandleBatch
    BY <1>21 DEF HandleBatch, fileVars, srcVars, coalVars
  <1>22. ASSUME NEW f \in Files, ReadFile(f) PROVE TypeOK'
    <2>1. staged' \in Versions
      BY <1>22 DEF ReadFile, Versions
    <2> QED
      BY <2>1, <1>22 DEF ReadFile, fileVars, srcVars, coalVars
  <1>23. ASSUME NEW f \in Files, SkipFile(f) PROVE TypeOK'
    BY <1>23, NotedIsVersions DEF SkipFile, srcVars, coalVars
  <1>24. CASE BuildCommits
    BY <1>24 DEF BuildCommits, AfterBuild, fileVars, srcVars, coalVars
  <1>25. CASE BuildFails
    BY <1>25, NotedIsVersions DEF BuildFails, AfterBuild, srcVars, coalVars
  <1>26. CASE FlushReturns
    BY <1>26 DEF FlushReturns, fileVars, coalVars
  <1>27. CASE UNCHANGED vars
    BY <1>27 DEF vars, fileVars, srcVars, coalVars, loopVars
  <1> QED
    BY <1>1, <1>2, <1>3, <1>4, <1>5, <1>6, <1>8, <1>9, <1>10, <1>11, <1>12, <1>13,
       <1>14, <1>15, <1>17, <1>18, <1>19, <1>20, <1>21, <1>22, <1>23, <1>24,
       <1>25, <1>26, <1>27
    DEF Next, Editing, Reader, Loop, Building

(* Every variable keeps its type; the coalescer never holds more than      *)
(* Buffered events and no channel more than its capacity.                  *)
THEOREM TypeCorrect == Spec => []TypeOK
  BY InitTypeOK, StepTypeOK, PTL DEF Spec
-----------------------------------------------------------------------------
(* The inductive invariant.                                                *)

(* The reader leaves only a halted watcher, stop is closed only after the  *)
(* reader has left, and a loop that has seen stop has emptied a coalescer  *)
(* nobody adds to.                                                         *)
Handshake ==
  /\ reader = "exited" => Halted
  /\ stop => reader = "exited"
  /\ loop \in {"flush", "returned"} => stop /\ pending = {}

(* No row is ahead of the disk, and a build stages no row older than the   *)
(* one it replaces.                                                        *)
InOrder ==
  \A f \in Files : /\ index[f] <= disk[f]
                   /\ loop = "build" => index[f] <= staged[f] /\ staged[f] <= disk[f]

(* NoSilentLoss for one file.                                              *)
Sound(f) == \/ disk[f] \in {index[f], noted[f], unseen[f]}
            \/ InFlight(f)
            \/ Halted

IInv == TypeOK /\ Handshake /\ InOrder /\ NoLostWakeup /\ NoSilentLoss

LEMMA InitIInv == Init => IInv
  <1> SUFFICES ASSUME Init PROVE IInv
    OBVIOUS
  <1>1. Handshake /\ NoLostWakeup
    BY DEF Init, Handshake, NoLostWakeup, Halted
  <1>2. InOrder /\ NoSilentLoss
    BY DEF Init, InOrder, NoSilentLoss
  <1> QED
    BY <1>1, <1>2, InitTypeOK DEF IInv

LEMMA StepHandshake ==
  ASSUME TypeOK, Handshake, [Next]_vars
  PROVE  Handshake'
  <1> USE DEF Handshake, Halted
  <1>1. CASE Editing
    BY <1>1 DEF Editing, EditSeen, EditOverflows, EditUnseen, EditNoise, coalVars,
         srcVars, loopVars
  <1>2. CASE Pump \/ SourceCloses
    BY <1>2 DEF Pump, SourceCloses, coalVars, loopVars
  <1>3. CASE ReaderRejects \/ ReaderDrops
    BY <1>3 DEF ReaderRejects, ReaderDrops, ReaderReady, coalVars, loopVars
  <1>4. CASE ReaderAdds
    BY <1>4 DEF ReaderAdds, ReaderReady, loopVars
  <1>5. CASE ReaderSignals
    BY <1>5 DEF ReaderSignals, srcVars, loopVars
  <1>6. CASE ReaderExits
    BY <1>6 DEF ReaderExits, srcVars, coalVars, loopVars
  <1>7. CASE StopCloses
    BY <1>7 DEF StopCloses, srcVars, coalVars, loopVars
  <1>8. CASE TimerFires
    BY <1>8 DEF TimerFires, srcVars, loopVars
  <1>9. CASE Cancel
    BY <1>9 DEF Cancel, srcVars, coalVars, loopVars
  <1>10. CASE Attach \/ DrainWakes
    BY <1>10 DEF Attach, DrainWakes, srcVars, coalVars
  <1>11. CASE DrainStops \/ Drained
    BY <1>11 DEF DrainStops, Drained, srcVars
  <1>12. CASE HandleBatch
    BY <1>12 DEF HandleBatch, srcVars, coalVars
  <1>13. CASE Building
    <2>1. loop' \in {"build", "drain", "attach"}
      BY <1>13 DEF Building, ReadFile, SkipFile, BuildCommits, BuildFails, AfterBuild
    <2>2. UNCHANGED <<reader, stop, pending, cancelled, srcClosed>>
      BY <1>13 DEF Building, ReadFile, SkipFile, BuildCommits, BuildFails, srcVars,
           coalVars
    <2> QED BY <2>1, <2>2
  <1>14. CASE FlushReturns
    BY <1>14 DEF FlushReturns, coalVars
  <1>15. CASE UNCHANGED vars
    BY <1>15 DEF vars, srcVars, coalVars, loopVars
  <1> QED
    BY <1>1, <1>2, <1>3, <1>4, <1>5, <1>6, <1>7, <1>8, <1>9, <1>10, <1>11, <1>12,
       <1>13, <1>14, <1>15 DEF Next, Reader, Loop

LEMMA StepNoLostWakeup ==
  ASSUME TypeOK, NoLostWakeup, [Next]_vars
  PROVE  NoLostWakeup'
  <1> USE DEF NoLostWakeup
  <1>1. CASE Editing
    BY <1>1 DEF Editing, EditSeen, EditOverflows, EditUnseen, EditNoise, coalVars,
         loopVars
  <1>2. CASE Pump \/ SourceCloses \/ Cancel
    BY <1>2 DEF Pump, SourceCloses, Cancel, coalVars, loopVars
  <1>3. CASE ReaderRejects \/ ReaderDrops
    BY <1>3 DEF ReaderRejects, ReaderDrops, coalVars, loopVars
  <1>4. CASE ReaderAdds
    BY <1>4 DEF ReaderAdds
  <1>5. CASE ReaderSignals
    BY <1>5 DEF ReaderSignals
  <1>6. CASE ReaderExits \/ StopCloses
    BY <1>6 DEF ReaderExits, StopCloses, coalVars, loopVars
  <1>7. CASE TimerFires
    <2>1. UNCHANGED <<pending, reader, loop>> /\ (pending # {} => wakeup')
      BY <1>7 DEF TimerFires, loopVars
    <2> QED BY <2>1
  <1>8. CASE DrainWakes
    BY <1>8 DEF DrainWakes
  <1>9. CASE DrainStops \/ Drained
    BY <1>9 DEF DrainStops, Drained
  <1>10. CASE Attach \/ HandleBatch
    BY <1>10 DEF Attach, HandleBatch, coalVars
  <1>11. CASE Building
    BY <1>11 DEF Building, ReadFile, SkipFile, BuildCommits, BuildFails, coalVars
  <1>12. CASE FlushReturns
    BY <1>12 DEF FlushReturns, coalVars
  <1>13. CASE UNCHANGED vars
    BY <1>13 DEF vars, coalVars, loopVars
  <1> QED
    BY <1>1, <1>2, <1>3, <1>4, <1>5, <1>6, <1>7, <1>8, <1>9, <1>10, <1>11, <1>12,
       <1>13 DEF Next, Reader, Loop

(* A save moves the disk of one file forward and of no other.              *)
LEMMA SaveMovesForward ==
  ASSUME TypeOK, NEW f \in Files, Save(f)
  PROVE  /\ disk'[f] = disk[f] + 1
         /\ \A g \in Files \ {f} : disk'[g] = disk[g]
         /\ \A g \in Files : disk[g] \in Nat /\ disk[g] <= disk'[g]
  BY DEF TypeOK, Versions, Save

LEMMA StepInOrder ==
  ASSUME TypeOK, InOrder, [Next]_vars
  PROVE  InOrder'
  <1> USE DEF InOrder
  <1>t. \A f \in Files : disk[f] \in Nat /\ index[f] \in Nat /\ staged[f] \in Nat
    BY DEF TypeOK, Versions
  <1>1. ASSUME NEW f \in Files, EditSeen(f) \/ EditOverflows(f) \/ EditUnseen(f)
        PROVE  InOrder'
    <2>1. Save(f) /\ UNCHANGED loopVars
      BY <1>1 DEF EditSeen, EditOverflows, EditUnseen
    <2>2. \A g \in Files : disk[g] <= disk'[g] /\ disk'[g] \in Nat
      BY <2>1, SaveMovesForward
    <2> QED BY <2>1, <2>2, <1>t DEF loopVars
  <1>2. CASE \E n \in Noise : EditNoise(n)
    BY <1>2 DEF EditNoise, fileVars, loopVars
  <1>3. CASE Pump \/ SourceCloses \/ Cancel \/ StopCloses \/ TimerFires
    BY <1>3 DEF Pump, SourceCloses, Cancel, StopCloses, TimerFires, fileVars, loopVars
  <1>4. CASE Reader
    BY <1>4 DEF Reader, ReaderRejects, ReaderAdds, ReaderDrops, ReaderSignals,
         ReaderExits, fileVars, loopVars
  <1>5. CASE Attach \/ DrainWakes \/ DrainStops \/ Drained \/ FlushReturns
    BY <1>5 DEF Attach, DrainWakes, DrainStops, Drained, FlushReturns, fileVars
  <1>6. CASE HandleBatch
    BY <1>6, <1>t DEF HandleBatch, fileVars
  <1>7. ASSUME NEW f \in Files, ReadFile(f) PROVE InOrder'
    <2>1. \A g \in Files : staged'[g] = IF g = f THEN disk[f] ELSE staged[g]
      BY <1>7 DEF ReadFile, TypeOK, Versions
    <2> QED BY <2>1, <1>7, <1>t DEF ReadFile, fileVars
  <1>8. CASE \E f \in Files : SkipFile(f)
    BY <1>8 DEF SkipFile
  <1>9. CASE BuildCommits
    BY <1>9, <1>t DEF BuildCommits, AfterBuild, fileVars
  <1>10. CASE BuildFails
    BY <1>10 DEF BuildFails, AfterBuild
  <1>11. CASE UNCHANGED vars
    BY <1>11 DEF vars, fileVars, loopVars
  <1> QED
    BY <1>1, <1>2, <1>3, <1>4, <1>5, <1>6, <1>7, <1>8, <1>9, <1>10, <1>11
    DEF Next, Editing, Building, Loop

(* The queues: what a step of a producer or a consumer does to InFlight.   *)
LEMMA StepSound ==
  ASSUME TypeOK, Handshake, InOrder, [Next]_vars, NEW g \in Files, Sound(g)
  PROVE  Sound(g)'
  <1> USE DEF Sound
  <1>1. ASSUME NEW f \in Files, EditSeen(f) PROVE Sound(g)'
    <2>1. Contains(kernel', g) <=> Contains(kernel, g) \/ g = f
      BY <1>1, AppendContains DEF EditSeen, TypeOK, Paths
    <2>2. g # f => disk'[g] = disk[g]
      BY <1>1, SaveMovesForward DEF EditSeen
    <2>3. CASE g = f
      BY <2>1, <2>3 DEF InFlight
    <2>4. CASE g # f
      BY <1>1, <2>1, <2>2, <2>4 DEF EditSeen, InFlight, Halted, coalVars, loopVars
    <2> QED BY <2>3, <2>4
  <1>2. ASSUME NEW f \in Files, EditOverflows(f) \/ EditUnseen(f) PROVE Sound(g)'
    <2>1. g # f => disk'[g] = disk[g]
      BY <1>2, SaveMovesForward DEF EditOverflows, EditUnseen
    <2>2. g # f => noted'[g] = noted[g] /\ unseen'[g] = unseen[g]
      BY <1>2 DEF EditOverflows, EditUnseen, TypeOK, Versions
    <2>3. CASE g = f
      <3>1. disk'[g] = disk[g] + 1
        BY <1>2, <2>3, SaveMovesForward DEF EditOverflows, EditUnseen
      <3>2. noted'[g] = disk[g] + 1 \/ unseen'[g] = disk[g] + 1
        BY <1>2, <2>3 DEF EditOverflows, EditUnseen, TypeOK, Versions
      <3> QED BY <3>1, <3>2
    <2>4. CASE g # f
      BY <1>2, <2>1, <2>2, <2>4
      DEF EditOverflows, EditUnseen, InFlight, Halted, srcVars, coalVars, loopVars
    <2> QED BY <2>3, <2>4
  <1>3. ASSUME NEW n \in Noise, EditNoise(n) PROVE Sound(g)'
    <2>1. Contains(kernel', g) <=> Contains(kernel, g) \/ g = n
      BY <1>3, AppendContains DEF EditNoise, TypeOK, Paths
    <2> QED
      BY <1>3, <2>1 DEF EditNoise, InFlight, Halted, fileVars, coalVars, loopVars
  <1>4. CASE Pump
    <2>1. Contains(kernel, g) <=> g = Head(kernel) \/ Contains(kernel', g)
      BY <1>4, TailContains DEF Pump, TypeOK
    <2>2. Head(kernel) \in Paths
      BY <1>4, HeadTailProperties DEF Pump, TypeOK
    <2>3. Contains(out', g) <=> Contains(out, g) \/ g = Head(kernel)
      BY <1>4, <2>2, AppendContains DEF Pump, TypeOK
    <2> QED
      BY <1>4, <2>1, <2>3 DEF Pump, InFlight, Halted, fileVars, coalVars, loopVars
  <1>5. CASE SourceCloses \/ Cancel
    BY <1>5 DEF SourceCloses, Cancel, Halted
  <1>6. ASSUME ReaderReady, out' = Tail(out)
        PROVE  Contains(out, g) <=> g = Head(out) \/ Contains(out', g)
    BY <1>6, TailContains DEF ReaderReady, TypeOK
  <1>7. CASE ReaderRejects
    <2>1. g # Head(out)
      BY <1>7, FilesAssumption DEF ReaderRejects
    <2> QED
      BY <1>6, <1>7, <2>1
      DEF ReaderRejects, InFlight, Halted, fileVars, coalVars, loopVars
  <1>8. CASE ReaderAdds
    BY <1>6, <1>8 DEF ReaderAdds, InFlight, Halted, fileVars, loopVars
  <1>9. CASE ReaderDrops
    <2>1. g = Head(out) => noted'[g] = disk[g]
      BY <1>9 DEF ReaderDrops, NotedFor
    <2>2. g # Head(out) => noted'[g] = noted[g]
      BY <1>9 DEF ReaderDrops, NotedFor
    <2> QED
      BY <1>6, <1>9, <2>1, <2>2 DEF ReaderDrops, InFlight, Halted, coalVars, loopVars
  <1>10. CASE ReaderSignals \/ ReaderExits \/ StopCloses \/ TimerFires
    BY <1>10 DEF ReaderSignals, ReaderExits, StopCloses, TimerFires, InFlight, Halted,
         fileVars, srcVars, coalVars, loopVars
  <1>11. CASE Attach \/ DrainWakes
    BY <1>11 DEF Attach, DrainWakes, InFlight, Halted, fileVars, srcVars, coalVars
  <1>12. CASE DrainStops
    BY <1>12 DEF DrainStops, Handshake, Halted, srcVars
  <1>13. CASE Drained
    <2>1. CASE stop
      BY <1>13, <2>1 DEF Drained, Handshake, Halted, srcVars
    <2>2. CASE ~stop
      BY <1>13, <2>2 DEF Drained, InFlight, Halted, fileVars, srcVars
    <2> QED BY <2>1, <2>2
  <1>14. CASE HandleBatch
    BY <1>14 DEF HandleBatch, InFlight, Halted, fileVars, srcVars, coalVars
  <1>15. ASSUME NEW f \in Files, ReadFile(f) PROVE Sound(g)'
    <2>1. staged'[g] = IF g = f THEN disk[g] ELSE staged[g]
      BY <1>15 DEF ReadFile, TypeOK, Versions
    <2> QED
      BY <1>15, <2>1 DEF ReadFile, InFlight, Halted, fileVars, srcVars, coalVars
  <1>16. ASSUME NEW f \in Files, SkipFile(f) PROVE Sound(g)'
    <2>1. noted'[g] = IF g = f THEN disk[g] ELSE noted[g]
      BY <1>16 DEF SkipFile, NotedFor
    <2> QED
      BY <1>16, <2>1 DEF SkipFile, InFlight, Halted, srcVars, coalVars
  <1>17. CASE BuildCommits
    <2>1. index[g] = disk[g] => staged[g] = disk[g]
      BY <1>17 DEF BuildCommits, InOrder, TypeOK, Versions
    <2> QED
      BY <1>17, <2>1 DEF BuildCommits, InFlight, Halted, fileVars, srcVars, coalVars
  <1>18. CASE BuildFails
    <2>1. g \in batch => noted'[g] = disk[g]
      BY <1>18 DEF BuildFails, NotedFor
    <2>2. noted'[g] \in {noted[g], disk[g]}
      BY <1>18 DEF BuildFails, NotedFor
    <2> QED
      BY <1>18, <2>1, <2>2 DEF BuildFails, InFlight, Halted, srcVars, coalVars
  <1>19. CASE FlushReturns
    BY <1>19 DEF FlushReturns, InFlight, Halted, fileVars, coalVars
  <1>20. CASE UNCHANGED vars
    BY <1>20 DEF vars, InFlight, Halted, fileVars, srcVars, coalVars, loopVars
  <1> QED
    BY <1>1, <1>2, <1>3, <1>4, <1>5, <1>7, <1>8, <1>9, <1>10, <1>11, <1>12, <1>13,
       <1>14, <1>15, <1>16, <1>17, <1>18, <1>19, <1>20
    DEF Next, Editing, Reader, Loop, Building

LEMMA StepIInv == IInv /\ [Next]_vars => IInv'
  <1> SUFFICES ASSUME IInv, [Next]_vars PROVE IInv'
    OBVIOUS
  <1>1. TypeOK' /\ Handshake' /\ InOrder' /\ NoLostWakeup'
    BY StepTypeOK, StepHandshake, StepInOrder, StepNoLostWakeup DEF IInv
  <1>2. ASSUME NEW g \in Files PROVE Sound(g)'
    <2>1. Sound(g)
      BY DEF IInv, NoSilentLoss, Sound
    <2> QED BY <2>1, StepSound DEF IInv
  <1>3. NoSilentLoss'
    BY <1>2 DEF NoSilentLoss, Sound
  <1> QED
    BY <1>1, <1>3 DEF IInv

LEMMA Inductive == Spec => []IInv
  BY InitIInv, StepIInv, PTL DEF Spec

(* An event recorded by the coalescer always has a wakeup on its way,      *)
(* although Add signals only after it has unlocked and Drain consumes the  *)
(* token before it locks.                                                  *)
THEOREM WakeupsAreNotLost == Spec => []NoLostWakeup
  <1>1. IInv => NoLostWakeup
    BY DEF IInv
  <1> QED BY Inductive, <1>1, PTL

(* No save is lost without a trace while the watcher runs, except that of  *)
(* a file a build skips: through both queues, the coalescer, a failing or a *)
(* running build, and for any sizes.                                        *)
THEOREM NoSaveIsLostSilently == Spec => []NoSilentLoss
  <1>1. IInv => NoSilentLoss
    BY DEF IInv
  <1> QED BY Inductive, <1>1, PTL

(* The FlushImmediately that follows Drain at shutdown never has anything  *)
(* to return: the handleBatch behind it is dead code.                      *)
THEOREM NothingIsLeftToFlush == Spec => []FlushFindsNothing
  <1>1. IInv => FlushFindsNothing
    BY DEF IInv, Handshake, FlushFindsNothing
  <1> QED BY Inductive, <1>1, PTL

-----------------------------------------------------------------------------
(* WatchLoop implements IndexSync.                                         *)

LEMMA InitRefines == Init => IndexOf!Init
  BY DEF Init, IndexOf!Init, Halted

LEMMA StepRefines == IInv /\ [Next]_vars => [IndexOf!Next]_(IndexOf!vars)
  <1> SUFFICES ASSUME IInv, [Next]_vars, ~UNCHANGED IndexOf!vars PROVE IndexOf!Next
    OBVIOUS
  <1> USE DEF Halted
  <1>t. TypeOK
    BY DEF IInv
  <1>1. ASSUME NEW f \in Files, EditSeen(f) \/ EditOverflows(f) \/ EditUnseen(f)
        PROVE  IndexOf!Edit(f)
    BY <1>1 DEF EditSeen, EditOverflows, EditUnseen, Save, IndexOf!Edit, srcVars, loopVars
  <1>2. CASE \/ SourceCloses \/ Cancel
    BY <1>2 DEF SourceCloses, Cancel, IndexOf!Halt, IndexOf!Next, fileVars, loopVars,
         srcVars
  <1>3. ASSUME NEW F \in SUBSET Files, noted' = NotedFor(F),
               UNCHANGED <<disk, unseen, index, cancelled, srcClosed>>
        PROVE  IndexOf!Next
    BY <1>3 DEF NotedFor, IndexOf!Note, IndexOf!Next
  <1>4. CASE ReaderDrops
    BY <1>3, <1>4 DEF ReaderDrops, loopVars
  <1>5. CASE \E f \in Files : SkipFile(f)
    BY <1>3, <1>5 DEF SkipFile, srcVars
  <1>6. CASE BuildFails
    <2>1. batch \subseteq Files
      BY <1>t DEF TypeOK
    <2>2. PICK F \in SUBSET Files : noted' = NotedFor(F)
      BY <1>6, <2>1 DEF BuildFails
    <2> QED BY <1>3, <1>6, <2>2 DEF BuildFails, srcVars
  <1>7. CASE BuildCommits
    <2>1. index' \in IndexOf!Versions
      BY <1>7, <1>t DEF BuildCommits, TypeOK, Versions, IndexOf!Versions
    <2>2. \A f \in Files : index[f] <= index'[f] /\ index'[f] <= disk[f]
      BY <1>7 DEF BuildCommits, IInv, InOrder
    <2> QED
      BY <1>7, <2>1, <2>2 DEF BuildCommits, IndexOf!Sync, IndexOf!Next, fileVars, srcVars
  <1>8. CASE FlushReturns
    <2>1. Halted
      BY <1>8 DEF FlushReturns, IInv, Handshake
    <2> QED
      BY <1>8, <2>1 DEF FlushReturns, IndexOf!Halt, IndexOf!Next, fileVars
  <1>9. ASSUME UNCHANGED <<fileVars, index, cancelled, srcClosed>> PROVE FALSE
    BY <1>9 DEF IndexOf!vars, fileVars
  <1>10. CASE (\E n \in Noise : EditNoise(n)) \/ Pump \/ StopCloses \/ TimerFires
    BY <1>9, <1>10 DEF EditNoise, Pump, StopCloses, TimerFires, srcVars, loopVars
  <1>11. CASE ReaderRejects \/ ReaderAdds \/ ReaderSignals \/ ReaderExits
    BY <1>9, <1>11 DEF ReaderRejects, ReaderAdds, ReaderSignals, ReaderExits, srcVars,
         loopVars
  <1>12. CASE Attach \/ DrainWakes \/ DrainStops \/ Drained \/ HandleBatch
    BY <1>9, <1>12 DEF Attach, DrainWakes, DrainStops, Drained, HandleBatch, srcVars
  <1>13. CASE \E f \in Files : ReadFile(f)
    BY <1>9, <1>13 DEF ReadFile, srcVars
  <1>14. CASE UNCHANGED vars
    BY <1>9, <1>14 DEF vars, srcVars, loopVars
  <1> QED
    BY <1>1, <1>2, <1>4, <1>5, <1>6, <1>7, <1>8, <1>10, <1>11, <1>12, <1>13, <1>14
    DEF Next, Editing, Reader, Loop, Building, IndexOf!Next

(* The watcher implements IndexSync: the index only moves forward, never   *)
(* past the disk, and what is written down is a loss.                      *)
THEOREM WatcherRefinesIndexSync == Spec => RefinesIndexSync
  <1>1. Init /\ [][Next]_vars /\ []IInv => IndexOf!Spec
    BY InitRefines, StepRefines, PTL DEF IndexOf!Spec
  <1> QED
    BY <1>1, Inductive, PTL DEF Spec, RefinesIndexSync
====
