---- MODULE DaemonProofs ----
(***************************************************************************)
(* What holds of Daemon for any number of connections, log lines and       *)
(* failing file operations, and for every size of lines and files.         *)
(*                                                                         *)
(* Two independent arguments: Footing says which files there are at each   *)
(* place of main, who still catches signals and what the two panics take;  *)
(* Chronicle says that the four log files are in order throughout and lack *)
(* nothing that is younger than their first line but what is lost.         *)
(***************************************************************************)
EXTENDS Daemon, TLAPS, SequenceTheorems, FiniteSetTheorems

-----------------------------------------------------------------------------
(* Types.                                                                  *)

Lines == 1..MaxLines

LifeTypes ==
  /\ main \in {"boot", "log", "arm", "bind", "started", "source", "beat", "loop", "wait",
               "shutdown", "cancel", "close", "remove", "gone", "dead"}
  /\ pidFile \in BOOLEAN /\ sock \in BOOLEAN /\ armed \in BOOLEAN
  /\ cancelled \in BOOLEAN /\ stopped \in BOOLEAN
  /\ end \in {"none", "returned", "kill", "signal", "close", "log"}

ConnTypes ==
  /\ conn \in [Conns -> {"none", "open", "cancel", "check", "close", "done", "closed"}]
  /\ overlapped \in BOOLEAN

BeatTypes == heart \in {"on", "off"} /\ fresh \in BOOLEAN

LogTypes ==
  /\ files \in [0..3 -> Seq(1..MaxLines)]
  /\ writer \in {"open", "failed", "closed"}
  /\ bytes \in 0..(MaxBytes + 1) /\ written \in 0..MaxLines
  /\ lost \subseteq 1..MaxLines /\ faults \in 0..MaxFaults

LEMMA TypeParts == TypeOK <=> LifeTypes /\ ConnTypes /\ BeatTypes /\ LogTypes
  BY DEF TypeOK, LifeTypes, ConnTypes, BeatTypes, LogTypes

LEMMA KeptParts ==
  /\ LifeTypes /\ UNCHANGED lifeVars => LifeTypes'
  /\ ConnTypes /\ UNCHANGED connVars => ConnTypes'
  /\ BeatTypes /\ UNCHANGED beatVars => BeatTypes'
  /\ LogTypes /\ UNCHANGED logVars => LogTypes'
  BY DEF LifeTypes, ConnTypes, BeatTypes, LogTypes, lifeVars, connVars, beatVars, logVars

LEMMA InitTypeOK == Init => TypeOK
  <1> SUFFICES ASSUME Init PROVE TypeOK
    OBVIOUS
  <1>1. written \in 0..MaxLines /\ MaxBytes \in Nat
    BY LogAssumption DEF Init
  <1>2. ASSUME NEW i \in 0..3
        PROVE  (IF i < written THEN <<written - i>> ELSE <<>>) \in Seq(1..MaxLines)
    <2>1. CASE i < written
      <3>1. written - i \in 1..MaxLines
        BY <1>1, <2>1, LogAssumption
      <3> QED BY <2>1, <3>1
    <2>2. CASE ~(i < written)
      BY <2>2
    <2> QED BY <2>1, <2>2
  <1>3. files \in [0..3 -> Seq(1..MaxLines)]
    BY <1>2 DEF Init
  <1>4. bytes \in 0..(MaxBytes + 1)
    <2>1. CASE written = 0
      BY <2>1, <1>1 DEF Init
    <2>2. CASE written # 0
      BY <2>2, <1>1, LogAssumption DEF Init
    <2> QED BY <2>1, <2>2
  <1>5. lost \subseteq 1..MaxLines /\ faults \in 0..MaxFaults
    BY LogAssumption DEF Init
  <1> QED
    BY <1>1, <1>3, <1>4, <1>5 DEF Init, TypeOK

LEMMA StepLifeTypes == LifeTypes /\ [Next]_vars => LifeTypes'
  <1> SUFFICES ASSUME LifeTypes, [Next]_vars PROVE LifeTypes'
    OBVIOUS
  <1>1. ASSUME UNCHANGED lifeVars PROVE LifeTypes'
    BY <1>1, KeptParts
  <1>2. CASE WritePID \/ OpenLog \/ Arm \/ Bind \/ StartLoop
    BY <1>2 DEF LifeTypes, WritePID, OpenLog, Arm, Bind, StartLoop
  <1>3. CASE BootFails \/ MainLogs \/ Leave
    BY <1>3 DEF LifeTypes, BootFails, MainLogs, Leave, LogsThen, WritesToNil
  <1>4. CASE LoopReturns \/ Defers \/ Signal \/ Killed
    BY <1>4 DEF LifeTypes, LoopReturns, Defers, Shutdown, Cancel, CloseLog, RemovePID,
         Signal, Killed
  <1>5. CASE \E c \in Conns : Connect(c) \/ HangUp(c) \/ HandleStop(c) \/ OnStopChecks(c)
    BY <1>1, <1>5 DEF Connect, HangUp, HandleStop, OnStopChecks
  <1>6. CASE \E c \in Conns : HandleReload(c) \/ OnStopCancels(c) \/ OnStopCloses(c)
    BY <1>6 DEF LifeTypes, HandleReload, WritesToNil, OnStopCancels, OnStopCloses
  <1>7. CASE Heartbeat \/ GoesStale
    BY <1>1, <1>7 DEF Heartbeat, Beat, HeartStops, GoesStale
  <1>8. CASE UNCHANGED vars
    BY <1>1, <1>8 DEF vars
  <1> QED
    BY <1>2, <1>3, <1>4, <1>5, <1>6, <1>7, <1>8 DEF Next, Boot, Handler

(* Main, signals and the heartbeat leave the connections alone.            *)
LEMMA ConnMoves ==
  ASSUME [Next]_vars
  PROVE  \/ UNCHANGED connVars
         \/ \E c \in Conns : Connect(c) \/ HangUp(c) \/ HandleStop(c) \/ Handler(c)
  <1>1. CASE Boot
    BY <1>1 DEF Boot, WritePID, OpenLog, Arm, Bind, BootFails, MainLogs, StartLoop
  <1>2. CASE LoopReturns \/ Leave \/ Defers \/ Signal \/ Killed
    BY <1>2 DEF LoopReturns, Leave, Defers, Shutdown, Cancel, CloseLog, RemovePID, Signal,
         Killed
  <1>3. CASE \E c \in Conns : HandleReload(c)
    BY <1>3 DEF HandleReload
  <1>4. CASE Heartbeat \/ GoesStale
    BY <1>4 DEF Heartbeat, Beat, HeartStops, GoesStale
  <1>5. CASE UNCHANGED vars
    BY <1>5 DEF vars
  <1> QED
    BY <1>1, <1>2, <1>3, <1>4, <1>5 DEF Next

LEMMA StepConnTypes == ConnTypes /\ [Next]_vars => ConnTypes'
  <1> SUFFICES ASSUME ConnTypes, [Next]_vars PROVE ConnTypes'
    OBVIOUS
  <1>1. CASE UNCHANGED connVars
    BY <1>1, KeptParts
  <1>2. CASE \E c \in Conns : Connect(c) \/ HangUp(c)
    BY <1>2 DEF ConnTypes, Connect, HangUp
  <1>3. ASSUME NEW c \in Conns, HandleStop(c) PROVE ConnTypes'
    <2>1. overlapped' \in BOOLEAN
      BY <1>3 DEF HandleStop, ConnTypes
    <2>2. conn' = [conn EXCEPT ![c] = "cancel"]
      BY <1>3 DEF HandleStop
    <2> QED BY <2>1, <2>2 DEF ConnTypes
  <1>4. CASE \E c \in Conns : Handler(c)
    BY <1>4 DEF ConnTypes, Handler, OnStopCancels, OnStopChecks, OnStopCloses
  <1> QED
    BY <1>1, <1>2, <1>3, <1>4, ConnMoves

LEMMA StepBeatTypes == BeatTypes /\ [Next]_vars => BeatTypes'
  <1> SUFFICES ASSUME BeatTypes, [Next]_vars PROVE BeatTypes'
    OBVIOUS
  <1>1. ASSUME UNCHANGED beatVars PROVE BeatTypes'
    BY <1>1, KeptParts
  <1>2. CASE WritePID \/ OpenLog \/ Arm \/ Bind \/ BootFails \/ MainLogs
    BY <1>1, <1>2 DEF WritePID, OpenLog, Arm, Bind, BootFails, MainLogs
  <1>3. CASE LoopReturns \/ Leave \/ Defers \/ Signal \/ Killed
    BY <1>1, <1>3 DEF LoopReturns, Leave, Defers, Shutdown, Cancel, CloseLog, RemovePID,
         Signal, Killed
  <1>4. CASE \E c \in Conns : Connect(c) \/ HangUp(c) \/ HandleReload(c) \/ HandleStop(c)
    BY <1>1, <1>4 DEF Connect, HangUp, HandleReload, HandleStop
  <1>5. CASE \E c \in Conns : Handler(c)
    BY <1>1, <1>5 DEF Handler, OnStopCancels, OnStopChecks, OnStopCloses
  <1>6. CASE StartLoop \/ Heartbeat \/ GoesStale
    BY <1>6 DEF BeatTypes, StartLoop, Heartbeat, Beat, HeartStops, GoesStale
  <1>7. CASE UNCHANGED vars
    BY <1>1, <1>7 DEF vars
  <1> QED
    BY <1>2, <1>3, <1>4, <1>5, <1>6, <1>7 DEF Next, Boot

-----------------------------------------------------------------------------
(* What a step does to the log.                                            *)

LEMMA LogMoves ==
  ASSUME [Next]_vars
  PROVE  \/ UNCHANGED logVars
         \/ PreRotates /\ UNCHANGED written /\ writer' \in {writer, "open"}
         \/ UNCHANGED <<files, bytes, written, lost, faults>> /\ writer' \in {"open", "closed"}
         \/ written < MaxLines /\ \E size \in LineSizes : WriteLine(size)
  <1>1. CASE WritePID \/ Arm \/ Bind \/ StartLoop \/ LoopReturns
    BY <1>1 DEF WritePID, Arm, Bind, StartLoop, LoopReturns
  <1>2. CASE OpenLog
    BY <1>2 DEF OpenLog
  <1>3. CASE BootFails
    BY <1>3 DEF BootFails, LogsThen, Logged, WritesToNil, logVars
  <1>4. CASE MainLogs \/ Leave
    BY <1>4 DEF MainLogs, Leave, LogsThen, Logged, WritesToNil
  <1>5. CASE Defers \/ Signal \/ Killed
    BY <1>5 DEF Defers, Shutdown, Cancel, CloseLog, RemovePID, Signal, Killed
  <1>6. CASE \E c \in Conns : Connect(c) \/ HangUp(c) \/ HandleStop(c)
    BY <1>6 DEF Connect, HangUp, HandleStop
  <1>7. CASE \E c \in Conns : HandleReload(c)
    BY <1>7 DEF HandleReload, Logged, WritesToNil
  <1>8. CASE \E c \in Conns : Handler(c)
    BY <1>8 DEF Handler, OnStopCancels, OnStopChecks, OnStopCloses
  <1>9. CASE Heartbeat \/ GoesStale
    BY <1>9 DEF Heartbeat, Beat, HeartStops, GoesStale
  <1>10. CASE UNCHANGED vars
    BY <1>10 DEF vars
  <1> QED
    BY <1>1, <1>2, <1>3, <1>4, <1>5, <1>6, <1>7, <1>8, <1>9, <1>10 DEF Next, Boot

FourFiles == [0..3 -> Seq(Lines)]

LEMMA RenamedType ==
  ASSUME NEW f \in FourFiles, NEW i \in 0..2, NEW ok
  PROVE  Renamed(f, i, ok) \in FourFiles
  <1>1. i + 1 \in 0..3 /\ i \in 0..3
    OBVIOUS
  <1>2. f[i] \in Seq(Lines) /\ <<>> \in Seq(Lines)
    BY <1>1 DEF FourFiles
  <1>3. [f EXCEPT ![i + 1] = f[i], ![i] = <<>>] \in FourFiles
    BY <1>1, <1>2 DEF FourFiles
  <1> QED BY <1>3 DEF Renamed

LEMMA RotatedType ==
  ASSUME files \in FourFiles, NEW ok
  PROVE  Rotated(ok) \in FourFiles
  <1>1. Renamed(files, 2, ok) \in FourFiles
    BY RenamedType
  <1>2. Renamed(Renamed(files, 2, ok), 1, ok) \in FourFiles
    BY <1>1, RenamedType
  <1> QED BY <1>2, RenamedType DEF Rotated

LEMMA OverwrittenType ==
  ASSUME files \in FourFiles, NEW ok
  PROVE  Overwritten(ok) \subseteq Lines
  <1>1. \A i \in {1, 2} : Range(files[i]) \subseteq Lines
    BY RangeOfSeq DEF FourFiles
  <1> QED BY <1>1 DEF Overwritten

LEMMA AppendedType ==
  ASSUME NEW f \in FourFiles, NEW n \in Lines
  PROVE  [f EXCEPT ![0] = Append(@, n)] \in FourFiles
  <1>1. Append(f[0], n) \in Seq(Lines)
    BY AppendProperties DEF FourFiles
  <1> QED BY <1>1 DEF FourFiles

LEMMA FaultsType ==
  /\ \A ok \in SUBSET (0..2) : Failed(ok) \in Nat
  /\ \A n \in Nat : faults \in 0..MaxFaults /\ Fails(n) => faults' \in 0..MaxFaults
  <1>1. IsFiniteSet(0..2)
    <2>1. 0 \in Int /\ 2 \in Int
      OBVIOUS
    <2> QED BY <2>1, FS_Interval, Zenon
  <1>2. \A ok \in SUBSET (0..2) : Failed(ok) \in Nat
    BY <1>1, FS_Difference, FS_CardinalityType DEF Failed
  <1>3. \A n \in Nat : faults \in 0..MaxFaults /\ Fails(n) => faults' \in 0..MaxFaults
    BY LogAssumption DEF Fails
  <1> QED BY <1>2, <1>3

(* A write into f, with what it costs: the line is at the end of the log,  *)
(* or it is lost, or both.                                                 *)
Wrote(f, gone) ==
  /\ written < MaxLines /\ written' = written + 1
  /\ \/ files' = [f EXCEPT ![0] = Append(@, written + 1)] /\ lost' = gone
     \/ files' = [f EXCEPT ![0] = Append(@, written + 1)] /\ lost' = gone \cup {written + 1}
     \/ files' = f /\ lost' = gone \cup {written + 1}

(* What a line does, whichever of the file operations fail.                *)
LEMMA LinesMove ==
  ASSUME LogTypes, written < MaxLines, NEW size \in LineSizes, WriteLine(size)
  PROVE  /\ \/ Wrote(files, lost)
            \/ \E ok \in SUBSET (0..2) : Wrote(Rotated(ok), lost \cup Overwritten(ok))
         /\ bytes' \in 0..(MaxBytes + 1) /\ faults' \in 0..MaxFaults
         /\ writer' \in {"open", "failed"}
  <1>1. size \in 1..MaxBytes /\ MaxBytes \in Nat /\ bytes \in 0..(MaxBytes + 1)
        /\ faults \in 0..MaxFaults
    BY LogAssumption DEF LogTypes
  <1>2. CASE Fits(size) /\ writer = "open" /\ Writes(files, size, bytes, lost, 0)
             /\ UNCHANGED writer
    <2>1. Wrote(files, lost)
      BY <1>2 DEF Writes, Wrote
    <2>2. bytes' \in 0..(MaxBytes + 1)
      BY <1>1, <1>2 DEF Writes, Fits
    <2>3. faults' \in 0..MaxFaults
      BY <1>1, <1>2, FaultsType DEF Writes
    <2> QED BY <1>2, <2>1, <2>2, <2>3
  <1>3. ASSUME NEW ok \in SUBSET (0..2), writer' = "open",
               Writes(Rotated(ok), size, 0, lost \cup Overwritten(ok), Failed(ok))
        PROVE  /\ Wrote(Rotated(ok), lost \cup Overwritten(ok))
               /\ bytes' \in 0..(MaxBytes + 1) /\ faults' \in 0..MaxFaults
    <2>1. Wrote(Rotated(ok), lost \cup Overwritten(ok))
      BY <1>3 DEF Writes, Wrote
    <2>2. bytes' \in 0..(MaxBytes + 1)
      BY <1>1, <1>3 DEF Writes
    <2>3. Failed(ok) \in Nat /\ Failed(ok) + 1 \in Nat
      BY FaultsType
    <2>4. Fails(Failed(ok)) \/ Fails(Failed(ok) + 1)
      BY <1>3 DEF Writes
    <2>5. faults' \in 0..MaxFaults
      BY <1>1, <2>3, <2>4, FaultsType
    <2> QED BY <2>1, <2>2, <2>5
  <1>4. ASSUME NEW ok \in SUBSET (0..2), Fails(Failed(ok) + 1), UNCHANGED bytes,
               written' = written + 1, files' = Rotated(ok),
               lost' = lost \cup Overwritten(ok) \cup {written + 1}
        PROVE  /\ Wrote(Rotated(ok), lost \cup Overwritten(ok))
               /\ bytes' \in 0..(MaxBytes + 1) /\ faults' \in 0..MaxFaults
    <2>1. Wrote(Rotated(ok), lost \cup Overwritten(ok))
      BY <1>4 DEF Wrote
    <2>2. Failed(ok) + 1 \in Nat
      BY FaultsType
    <2>3. faults' \in 0..MaxFaults
      BY <1>1, <1>4, <2>2, FaultsType
    <2> QED BY <1>1, <1>4, <2>1, <2>3
  <1> QED BY <1>2, <1>3, <1>4 DEF WriteLine

LEMMA WroteType ==
  ASSUME NEW f \in FourFiles, NEW gone \in SUBSET Lines, written \in 0..MaxLines,
         Wrote(f, gone)
  PROVE  files' \in FourFiles /\ lost' \subseteq Lines /\ written' \in 0..MaxLines
  <1>1. written + 1 \in Lines /\ written' \in 0..MaxLines
    BY LogAssumption DEF Wrote, Lines
  <1>2. [f EXCEPT ![0] = Append(@, written + 1)] \in FourFiles
    BY <1>1, AppendedType
  <1> QED BY <1>1, <1>2 DEF Wrote

LEMMA StepLogTypes == LogTypes /\ [Next]_vars => LogTypes'
  <1> SUFFICES ASSUME LogTypes, [Next]_vars PROVE LogTypes'
    OBVIOUS
  <1>1. files \in FourFiles /\ lost \subseteq Lines /\ written \in 0..MaxLines
    BY DEF LogTypes, FourFiles, Lines
  <1>2. CASE UNCHANGED logVars
    BY <1>2, KeptParts
  <1>3. CASE PreRotates /\ UNCHANGED written /\ writer' \in {writer, "open"}
    <2>1. PICK ok \in SUBSET (0..2) :
             /\ Fails(Failed(ok))
             /\ files' = Rotated(ok) /\ lost' = lost \cup Overwritten(ok)
             /\ bytes' = IF files'[0] = <<>> THEN 0 ELSE bytes
      BY <1>3 DEF PreRotates
    <2>2. Rotated(ok) \in FourFiles /\ Overwritten(ok) \subseteq Lines /\ Failed(ok) \in Nat
      BY <1>1, RotatedType, OverwrittenType, FaultsType
    <2>3. faults' \in 0..MaxFaults
      BY <2>1, <2>2, FaultsType DEF LogTypes
    <2>4. bytes' \in 0..(MaxBytes + 1)
      BY <2>1, LogAssumption DEF LogTypes
    <2> QED BY <1>1, <1>3, <2>1, <2>2, <2>3, <2>4 DEF LogTypes, FourFiles, Lines
  <1>4. CASE UNCHANGED <<files, bytes, written, lost, faults>> /\ writer' \in {"open", "closed"}
    BY <1>4 DEF LogTypes
  <1>5. ASSUME NEW size \in LineSizes, WriteLine(size), written < MaxLines PROVE LogTypes'
    <2>1. bytes' \in 0..(MaxBytes + 1) /\ faults' \in 0..MaxFaults /\ writer' \in {"open", "failed"}
      BY <1>5, LinesMove
    <2>2. files' \in FourFiles /\ lost' \subseteq Lines /\ written' \in 0..MaxLines
      <3>1. CASE Wrote(files, lost)
        BY <1>1, <3>1, WroteType
      <3>2. ASSUME NEW ok \in SUBSET (0..2), Wrote(Rotated(ok), lost \cup Overwritten(ok))
            PROVE  files' \in FourFiles /\ lost' \subseteq Lines /\ written' \in 0..MaxLines
        <4>1. Rotated(ok) \in FourFiles /\ Overwritten(ok) \subseteq Lines
          BY <1>1, RotatedType, OverwrittenType
        <4> QED BY <1>1, <3>2, <4>1, WroteType
      <3> QED BY <1>5, <3>1, <3>2, LinesMove
    <2> QED BY <2>1, <2>2 DEF LogTypes, FourFiles, Lines
  <1> QED
    BY <1>2, <1>3, <1>4, <1>5, LogMoves

LEMMA StepTypeOK == TypeOK /\ [Next]_vars => TypeOK'
  <1> SUFFICES ASSUME TypeOK, [Next]_vars PROVE TypeOK'
    OBVIOUS
  <1>1. LifeTypes' /\ ConnTypes' /\ BeatTypes' /\ LogTypes'
    BY TypeParts, StepLifeTypes, StepConnTypes, StepBeatTypes, StepLogTypes
  <1> QED BY <1>1 DEF TypeOK, LifeTypes, ConnTypes, BeatTypes, LogTypes

-----------------------------------------------------------------------------
(* Files, signals and panics.                                              *)

(* How the process ended, and which files there are at each place of main. *)
FilesByPlace ==
  /\ end = "none" <=> Alive
  /\ end = "returned" <=> main = "gone"
  /\ main \in {"boot", "log", "arm", "bind", "cancel", "close", "remove", "gone"} => ~sock
  /\ main \in {"boot", "gone"} => ~pidFile

BeforeBind == {"boot", "log", "arm", "bind"}

(* The stops that have called cancel.                                      *)
HasCancelled(c) == conn[c] \in {"check", "close", "done"}

(* Who catches signals: with the socket up, NotifyContext does until a     *)
(* stop cancels.                                                           *)
Caught ==
  /\ main \in BeforeBind => \A c \in Conns : conn[c] = "none"
  /\ main = "bind" => armed
  /\ sock /\ ~armed => \E c \in Conns : HasCancelled(c)

(* Two stops that overlap are remembered, and only they can both find      *)
(* stopped open.                                                           *)
StopsOverlap ==
  /\ \A c, d \in Conns : c # d /\ Stopping(c) /\ Stopping(d) => overlapped
  /\ \A c \in Conns : conn[c] = "close" /\ stopped => overlapped

(* While there is something to log, the file is open unless a rotation has *)
(* failed.                                                                 *)
NilIsNoted ==
  /\ writer = "failed" => lost # {}
  /\ writer = "closed" => main \in {"boot", "log", "remove", "gone", "dead"}

Footing ==
  TypeOK /\ FilesByPlace /\ Caught /\ StopsOverlap /\ NilIsNoted
         /\ SignalsAreCaught /\ PanicsAreKnown

LEMMA InitFooting == Init => Footing
  <1> SUFFICES ASSUME Init PROVE Footing
    OBVIOUS
  <1>1. FilesByPlace /\ StopsOverlap /\ NilIsNoted /\ PanicsAreKnown
    BY DEF Init, FilesByPlace, Ended, Alive, StopsOverlap, Stopping, NilIsNoted, PanicsAreKnown
  <1>2. Caught /\ SignalsAreCaught
    BY DEF Init, Caught, SignalsAreCaught
  <1> QED
    BY <1>1, <1>2, InitTypeOK DEF Footing

(* A process that has ended does nothing more.                             *)
LEMMA DeadStays ==
  ASSUME Ended, [Next]_vars
  PROVE  UNCHANGED <<lifeVars, connVars, logVars>>
  <1> USE DEF Ended, Alive
  <1>1. ~Boot
    BY DEF Boot, WritePID, OpenLog, Arm, Bind, BootFails, MainLogs, StartLoop
  <1>2. ~(LoopReturns \/ Leave \/ Defers \/ Signal \/ Killed)
    BY DEF LoopReturns, Leave, Defers, Shutdown, Cancel, CloseLog, RemovePID, Signal, Killed
  <1>3. \A c \in Conns : ~(Connect(c) \/ HangUp(c) \/ HandleReload(c) \/ HandleStop(c))
    BY DEF Connect, HangUp, HandleReload, HandleStop
  <1>4. \A c \in Conns : ~Handler(c)
    BY DEF Handler, OnStopCancels, OnStopChecks, OnStopCloses
  <1>5. ~Heartbeat
    BY DEF Heartbeat, Beat, HeartStops, BeatOK
  <1>6. CASE GoesStale
    BY <1>6 DEF GoesStale
  <1>7. CASE UNCHANGED vars
    BY <1>7 DEF vars
  <1> QED
    BY <1>1, <1>2, <1>3, <1>4, <1>5, <1>6, <1>7 DEF Next

LEMMA StepFiles ==
  ASSUME TypeOK, FilesByPlace, [Next]_vars
  PROVE  FilesByPlace'
  <1> USE DEF FilesByPlace, Ended, Alive
  <1>1. ASSUME UNCHANGED lifeVars PROVE FilesByPlace'
    BY <1>1 DEF lifeVars
  <1>2. CASE WritePID \/ OpenLog \/ Arm \/ Bind \/ StartLoop
    BY <1>2 DEF WritePID, OpenLog, Arm, Bind, StartLoop
  <1>3. CASE BootFails \/ MainLogs \/ Leave
    BY <1>3 DEF BootFails, MainLogs, Leave, LogsThen, WritesToNil
  <1>4. CASE LoopReturns \/ Defers
    BY <1>4 DEF LoopReturns, Defers, Shutdown, Cancel, CloseLog, RemovePID
  <1>5. CASE Signal \/ Killed
    BY <1>5 DEF Signal, Killed
  <1>6. CASE \E c \in Conns : Connect(c) \/ HangUp(c) \/ HandleStop(c) \/ OnStopChecks(c)
    BY <1>1, <1>6 DEF Connect, HangUp, HandleStop, OnStopChecks
  <1>7. CASE \E c \in Conns : HandleReload(c)
    BY <1>7 DEF HandleReload, WritesToNil
  <1>8. CASE \E c \in Conns : OnStopCancels(c) \/ OnStopCloses(c)
    BY <1>8 DEF OnStopCancels, OnStopCloses
  <1>9. CASE Heartbeat \/ GoesStale
    BY <1>1, <1>9 DEF Heartbeat, Beat, HeartStops, GoesStale
  <1>10. CASE UNCHANGED vars
    BY <1>1, <1>10 DEF vars
  <1> QED
    BY <1>2, <1>3, <1>4, <1>5, <1>6, <1>7, <1>8, <1>9, <1>10 DEF Next, Boot, Handler

(* A stop that has cancelled has cancelled for good, and a connection      *)
(* needs the socket.                                                       *)
LEMMA ConnSteps ==
  ASSUME TypeOK, FilesByPlace, [Next]_vars
  PROVE  /\ \A c \in Conns : HasCancelled(c) => HasCancelled(c)'
         /\ \A c \in Conns : conn[c] = "none" /\ main \in BeforeBind => conn'[c] = "none"
  <1> USE DEF HasCancelled
  <1>1. CASE UNCHANGED connVars
    BY <1>1 DEF connVars
  <1>2. ASSUME NEW c \in Conns, Connect(c) \/ HangUp(c) \/ HandleStop(c)
        PROVE  /\ \A d \in Conns : HasCancelled(d) => HasCancelled(d)'
               /\ \A d \in Conns : conn[d] = "none" /\ main \in BeforeBind => conn'[d] = "none"
    <2>1. /\ conn[c] \in {"none", "open"}
          /\ conn[c] = "none" => sock
          /\ \A d \in Conns : d # c => conn'[d] = conn[d]
      BY <1>2 DEF Connect, HangUp, HandleStop, TypeOK
    <2> QED BY <2>1 DEF FilesByPlace, BeforeBind
  <1>3. ASSUME NEW c \in Conns, Handler(c)
        PROVE  /\ \A d \in Conns : HasCancelled(d) => HasCancelled(d)'
               /\ \A d \in Conns : conn[d] = "none" /\ main \in BeforeBind => conn'[d] = "none"
    <2>1. /\ conn[c] # "none" /\ conn'[c] \in {"check", "close", "done"}
          /\ \A d \in Conns : d # c => conn'[d] = conn[d]
      BY <1>3 DEF Handler, OnStopCancels, OnStopChecks, OnStopCloses, TypeOK
    <2> QED BY <2>1
  <1> QED BY <1>1, <1>2, <1>3, ConnMoves

LEMMA StepCaught ==
  ASSUME TypeOK, FilesByPlace, Caught, [Next]_vars
  PROVE  Caught'
  <1>1. \A c \in Conns : HasCancelled(c) => HasCancelled(c)'
    BY ConnSteps
  <1>2. \A c \in Conns : conn[c] = "none" /\ main \in BeforeBind => conn'[c] = "none"
    BY ConnSteps
  <1>3. /\ main' \in BeforeBind => main \in BeforeBind
        /\ main' = "bind" => armed'
        /\ sock' /\ ~armed' => (sock /\ ~armed) \/ \E c \in Conns : HasCancelled(c)'
    <2> USE DEF Caught, BeforeBind
    <2>1. ASSUME UNCHANGED lifeVars PROVE <1>3!:
      BY <2>1 DEF lifeVars
    <2>2. CASE WritePID \/ OpenLog \/ Arm \/ Bind \/ StartLoop
      BY <2>2 DEF WritePID, OpenLog, Arm, Bind, StartLoop, FilesByPlace
    <2>3. CASE BootFails \/ MainLogs \/ Leave
      BY <2>3 DEF BootFails, MainLogs, Leave, LogsThen, WritesToNil
    <2>4. CASE LoopReturns \/ Defers
      BY <2>4 DEF LoopReturns, Defers, Shutdown, Cancel, CloseLog, RemovePID, FilesByPlace
    <2>5. CASE Signal \/ Killed
      BY <2>5 DEF Signal, Killed
    <2>6. CASE \E c \in Conns : Connect(c) \/ HangUp(c) \/ HandleStop(c) \/ OnStopChecks(c)
      BY <2>1, <2>6 DEF Connect, HangUp, HandleStop, OnStopChecks
    <2>7. CASE \E c \in Conns : HandleReload(c)
      BY <2>7 DEF HandleReload, WritesToNil
    <2>8. ASSUME NEW c \in Conns, OnStopCancels(c) PROVE <1>3!:
      <3>1. HasCancelled(c)'
        BY <2>8 DEF OnStopCancels, TypeOK, HasCancelled
      <3>2. UNCHANGED main /\ main # "bind"
        BY <2>8 DEF OnStopCancels
      <3> QED BY <3>1, <3>2
    <2>9. CASE \E c \in Conns : OnStopCloses(c)
      BY <2>9 DEF OnStopCloses
    <2>10. CASE Heartbeat \/ GoesStale
      BY <2>1, <2>10 DEF Heartbeat, Beat, HeartStops, GoesStale
    <2>11. CASE UNCHANGED vars
      BY <2>1, <2>11 DEF vars
    <2> QED
      BY <2>2, <2>3, <2>4, <2>5, <2>6, <2>7, <2>8, <2>9, <2>10, <2>11 DEF Next, Boot, Handler
  <1> QED
    BY <1>1, <1>2, <1>3 DEF Caught

LEMMA StepStops ==
  ASSUME TypeOK, StopsOverlap, [Next]_vars
  PROVE  StopsOverlap'
  <1> USE DEF StopsOverlap, Stopping
  <1>1. ASSUME ~\E c \in Conns : OnStopCloses(c) PROVE UNCHANGED stopped
    <2>1. CASE Boot
      BY <2>1 DEF Boot, WritePID, OpenLog, Arm, Bind, BootFails, MainLogs, StartLoop
    <2>2. CASE LoopReturns \/ Leave \/ Defers \/ Signal \/ Killed
      BY <2>2 DEF LoopReturns, Leave, Defers, Shutdown, Cancel, CloseLog, RemovePID, Signal,
           Killed
    <2>3. CASE \E c \in Conns : \/ Connect(c) \/ HangUp(c) \/ HandleReload(c)
                                \/ HandleStop(c) \/ OnStopChecks(c) \/ OnStopCancels(c)
      BY <2>3 DEF Connect, HangUp, HandleReload, HandleStop, OnStopChecks, OnStopCancels,
           lifeVars
    <2>4. CASE Heartbeat \/ GoesStale
      BY <2>4 DEF Heartbeat, Beat, HeartStops, GoesStale, lifeVars
    <2>5. CASE UNCHANGED vars
      BY <2>5 DEF vars, lifeVars
    <2> QED BY <1>1, <2>1, <2>2, <2>3, <2>4, <2>5 DEF Next, Handler
  <1>2. CASE UNCHANGED connVars
    <2>1. ~\E c \in Conns : OnStopCloses(c)
      BY <1>2 DEF OnStopCloses, connVars, TypeOK
    <2> QED BY <1>1, <1>2, <2>1 DEF connVars
  <1>3. ASSUME NEW c \in Conns, Connect(c) \/ HangUp(c) PROVE StopsOverlap'
    <2>1. /\ conn'[c] \in {"open", "closed"}
          /\ \A d \in Conns : d # c => conn'[d] = conn[d]
          /\ UNCHANGED <<overlapped, stopped>>
      BY <1>3 DEF Connect, HangUp, TypeOK, lifeVars
    <2> QED BY <2>1
  <1>4. ASSUME NEW c \in Conns, HandleStop(c) PROVE StopsOverlap'
    <2>1. /\ conn'[c] = "cancel" /\ conn[c] = "open"
          /\ \A d \in Conns : d # c => conn'[d] = conn[d]
          /\ UNCHANGED stopped
          /\ overlapped' = (overlapped \/ \E d \in Conns : Stopping(d))
      BY <1>4 DEF HandleStop, TypeOK, lifeVars
    <2> QED BY <2>1
  <1>5. ASSUME NEW c \in Conns, OnStopCancels(c) \/ OnStopChecks(c) PROVE StopsOverlap'
    <2>1. /\ conn[c] \in {"cancel", "check"}
          /\ conn'[c] \in {"check", "close", "done"}
          /\ conn'[c] = "close" => ~stopped
          /\ \A d \in Conns : d # c => conn'[d] = conn[d]
          /\ UNCHANGED <<overlapped, stopped>>
      BY <1>5 DEF OnStopCancels, OnStopChecks, TypeOK, lifeVars, connVars
    <2> QED BY <2>1
  <1>6. ASSUME NEW c \in Conns, OnStopCloses(c) PROVE StopsOverlap'
    <2>1. /\ conn[c] = "close" /\ conn'[c] = "done"
          /\ \A d \in Conns : d # c => conn'[d] = conn[d]
          /\ UNCHANGED overlapped
      BY <1>6 DEF OnStopCloses, TypeOK
    <2> QED BY <2>1
  <1> QED
    BY <1>2, <1>3, <1>4, <1>5, <1>6, ConnMoves DEF Handler

(* A line that is lost stays lost, and a failed rotation has cost one.     *)
LEMMA LossesStay ==
  ASSUME [Next]_vars
  PROVE  /\ lost \subseteq lost'
         /\ writer' = "failed" => writer = "failed" \/ lost' # {}
         /\ writer' = "closed" => writer = "closed" \/ main' = "remove"
  <1>1. \/ UNCHANGED logVars
        \/ PreRotates /\ UNCHANGED written /\ writer' \in {writer, "open"}
        \/ UNCHANGED <<files, bytes, written, lost, faults>> /\ writer' \in {"open", "closed"}
        \/ written < MaxLines /\ \E size \in LineSizes : WriteLine(size)
    BY LogMoves
  <1>2. CASE UNCHANGED logVars
    BY <1>2 DEF logVars
  <1>3. CASE PreRotates /\ UNCHANGED written /\ writer' \in {writer, "open"}
    BY <1>3 DEF PreRotates
  <1>4. CASE UNCHANGED <<files, bytes, written, lost, faults>> /\ writer' \in {"open", "closed"}
    <2>1. CASE writer' = "open"
      BY <1>4, <2>1
    <2>2. CASE CloseLog
      BY <1>4, <2>2 DEF CloseLog
    <2>3. CASE writer' = "closed" /\ ~CloseLog
      <3>1. writer = "closed"
        <4>1. CASE WritePID \/ Arm \/ Bind \/ StartLoop \/ LoopReturns \/ OpenLog
          BY <2>3, <4>1 DEF WritePID, Arm, Bind, StartLoop, LoopReturns, OpenLog, logVars
        <4>2. CASE BootFails \/ MainLogs \/ Leave
          BY <1>4, <2>3, <4>2 DEF BootFails, MainLogs, Leave, LogsThen, Logged, WritesToNil,
               WriteLine, logVars
        <4>3. CASE Shutdown \/ Cancel \/ RemovePID \/ Signal \/ Killed
          BY <2>3, <4>3 DEF Shutdown, Cancel, RemovePID, Signal, Killed, logVars
        <4>4. CASE \E c \in Conns : Connect(c) \/ HangUp(c) \/ HandleStop(c)
          BY <2>3, <4>4 DEF Connect, HangUp, HandleStop, logVars
        <4>5. CASE \E c \in Conns : HandleReload(c)
          BY <2>3, <4>5 DEF HandleReload, Logged, WritesToNil, WriteLine, logVars
        <4>6. CASE \E c \in Conns : Handler(c)
          BY <2>3, <4>6 DEF Handler, OnStopCancels, OnStopChecks, OnStopCloses, logVars
        <4>7. CASE Heartbeat \/ GoesStale
          BY <2>3, <4>7 DEF Heartbeat, Beat, HeartStops, GoesStale, logVars
        <4>8. CASE UNCHANGED vars
          BY <2>3, <4>8 DEF vars, logVars
        <4> QED
          BY <2>3, <4>1, <4>2, <4>3, <4>4, <4>5, <4>6, <4>7, <4>8 DEF Next, Boot, Defers
      <3> QED BY <1>4, <3>1
    <2> QED BY <1>4, <2>1, <2>2, <2>3
  <1>5. CASE \E size \in LineSizes : WriteLine(size)
    BY <1>5 DEF WriteLine, Writes
  <1> QED BY <1>1, <1>2, <1>3, <1>4, <1>5

LEMMA StepNil ==
  ASSUME TypeOK, NilIsNoted, [Next]_vars
  PROVE  NilIsNoted'
  <1>1. writer' = "failed" => lost' # {}
    BY LossesStay DEF NilIsNoted
  <1>2. ASSUME writer' = "closed", writer = "closed"
        PROVE  main' \in {"boot", "log", "remove", "gone", "dead"}
    <2>1. main \in {"boot", "log", "remove", "gone", "dead"}
      BY <1>2 DEF NilIsNoted
    <2>2. ASSUME UNCHANGED main PROVE main' \in {"boot", "log", "remove", "gone", "dead"}
      BY <2>1, <2>2
    <2>3. CASE Boot
      BY <1>2, <2>1, <2>3 DEF Boot, WritePID, OpenLog, Arm, Bind, BootFails, MainLogs, StartLoop
    <2>4. CASE LoopReturns \/ Leave \/ Defers \/ Signal \/ Killed
      BY <2>1, <2>4 DEF LoopReturns, Leave, Defers, Shutdown, Cancel, CloseLog, RemovePID,
           Signal, Killed
    <2>5. CASE \E c \in Conns : Connect(c) \/ HangUp(c) \/ HandleStop(c)
      BY <2>2, <2>5 DEF Connect, HangUp, HandleStop, lifeVars
    <2>6. CASE \E c \in Conns : HandleReload(c)
      BY <2>1, <2>6 DEF HandleReload, WritesToNil
    <2>7. CASE \E c \in Conns : Handler(c)
      BY <2>1, <2>7 DEF Handler, OnStopCancels, OnStopChecks, OnStopCloses, lifeVars
    <2>8. CASE Heartbeat \/ GoesStale
      BY <2>2, <2>8 DEF Heartbeat, Beat, HeartStops, GoesStale, lifeVars
    <2>9. CASE UNCHANGED vars
      BY <2>2, <2>9 DEF vars, lifeVars
    <2> QED
      BY <2>3, <2>4, <2>5, <2>6, <2>7, <2>8, <2>9 DEF Next
  <1> QED
    BY <1>1, <1>2, LossesStay DEF NilIsNoted

(* The step in which a process ends, and why it may.                       *)
LEMMA Endings ==
  ASSUME Footing, [Next]_vars, Alive
  PROVE  /\ end' = "signal" => ~armed /\ UNCHANGED <<sock, conn>>
         /\ end' = "close" => overlapped'
         /\ end' = "log" => writer # "open" /\ UNCHANGED <<writer, lost, sock>>
                            /\ (writer = "closed" => ~sock)
  <1> USE DEF Footing, FilesByPlace
  <1>1. end = "none"
    OBVIOUS
  <1>2. ASSUME UNCHANGED end PROVE end' = "none"
    BY <1>1, <1>2
  <1>3. CASE WritePID \/ OpenLog \/ Arm \/ Bind \/ StartLoop
    BY <1>2, <1>3 DEF WritePID, OpenLog, Arm, Bind, StartLoop
  <1>4. CASE BootFails
    BY <1>1, <1>4 DEF BootFails, LogsThen, WritesToNil, NilIsNoted, logVars
  <1>5. CASE MainLogs \/ Leave
    BY <1>1, <1>5 DEF MainLogs, Leave, LogsThen, WritesToNil, NilIsNoted, logVars
  <1>6. CASE LoopReturns \/ Defers \/ Killed
    BY <1>1, <1>6 DEF LoopReturns, Defers, Shutdown, Cancel, CloseLog, RemovePID, Killed
  <1>7. CASE Signal
    BY <1>1, <1>7 DEF Signal, connVars
  <1>8. CASE \E c \in Conns : Connect(c) \/ HangUp(c) \/ HandleStop(c)
    BY <1>2, <1>8 DEF Connect, HangUp, HandleStop, lifeVars
  <1>9. ASSUME NEW c \in Conns, HandleReload(c)
        PROVE  end' = "none" \/ (end' = "log" /\ writer # "open" /\ UNCHANGED <<writer, lost, sock>>
                                 /\ (writer = "closed" => ~sock))
    <2>1. main \notin BeforeBind
      BY <1>9 DEF HandleReload, Caught
    <2> QED BY <1>1, <1>9, <2>1 DEF HandleReload, WritesToNil, NilIsNoted, logVars, BeforeBind, Alive, Ended
  <1>10. ASSUME NEW c \in Conns, Handler(c)
         PROVE  end' = "none" \/ (end' = "close" /\ overlapped')
    BY <1>1, <1>10 DEF Handler, OnStopCancels, OnStopChecks, OnStopCloses, StopsOverlap, lifeVars
  <1>11. CASE Heartbeat \/ GoesStale
    BY <1>2, <1>11 DEF Heartbeat, Beat, HeartStops, GoesStale, lifeVars
  <1>12. CASE UNCHANGED vars
    BY <1>2, <1>12 DEF vars, lifeVars
  <1> QED
    BY <1>3, <1>4, <1>5, <1>6, <1>7, <1>8, <1>9, <1>10, <1>11, <1>12 DEF Next, Boot

LEMMA StepEndings ==
  ASSUME Footing, [Next]_vars
  PROVE  SignalsAreCaught' /\ PanicsAreKnown'
  <1>1. CASE Ended
    <2>1. UNCHANGED <<end, sock, conn, overlapped, lost, writer>>
      BY <1>1, DeadStays DEF lifeVars, connVars, logVars
    <2> QED BY <2>1 DEF Footing, SignalsAreCaught, PanicsAreKnown
  <1>2. CASE Alive
    <2>1. end' = "signal" /\ sock' => \E c \in Conns : HasCancelled(c)'
      <3> SUFFICES ASSUME end' = "signal", sock' PROVE \E c \in Conns : HasCancelled(c)'
        OBVIOUS
      <3>1. ~armed /\ sock /\ UNCHANGED conn
        BY <1>2, Endings
      <3> QED BY <3>1 DEF Footing, Caught, HasCancelled
    <2>2. end' = "log" => lost' # {} \/ (writer' = "closed" /\ ~sock')
      <3> SUFFICES ASSUME end' = "log" PROVE lost' # {} \/ (writer' = "closed" /\ ~sock')
        OBVIOUS
      <3>1. writer # "open" /\ UNCHANGED <<writer, lost, sock>> /\ (writer = "closed" => ~sock)
        BY <1>2, Endings
      <3> QED BY <3>1 DEF Footing, NilIsNoted, TypeOK
    <2>3. end' = "close" => overlapped'
      BY <1>2, Endings
    <2> QED BY <2>1, <2>2, <2>3 DEF SignalsAreCaught, PanicsAreKnown, HasCancelled
  <1> QED BY <1>1, <1>2 DEF Alive

(* However many stops arrive and however they overlap, a daemon that has   *)
(* returned has removed its pid file and its socket.  A signal that kills  *)
(* it with its socket up came after a stop's cancel; a panic takes two     *)
(* overlapping stops, a line lost by a rotation that failed, or a reload   *)
(* that outlives the log.                                                  *)
THEOREM DaemonLeavesCleanly == Spec => []LeavesCleanly
  <1>1. Footing /\ [Next]_vars => Footing'
    <2> SUFFICES ASSUME Footing, [Next]_vars PROVE Footing'
      OBVIOUS
    <2>1. TypeOK' /\ FilesByPlace' /\ Caught'
      BY StepTypeOK, StepFiles, StepCaught DEF Footing
    <2>2. StopsOverlap' /\ NilIsNoted'
      BY StepStops, StepNil DEF Footing
    <2> QED BY <2>1, <2>2, StepEndings DEF Footing
  <1>2. Footing => LeavesCleanly
    BY DEF Footing, LeavesCleanly, FilesByPlace, ReturnsLeaveNothing
  <1> QED BY InitFooting, <1>1, <1>2, PTL DEF Spec

-----------------------------------------------------------------------------
(* The log.                                                                *)

Contents(f) == UNION {Range(f[i]) : i \in 0..3}

(* The files f, of lines up to w, are in order throughout, each file older *)
(* than the one before it, and every line since their first is there or in *)
(* gone.                                                                   *)
InOrder(f) ==
  /\ \A i \in 0..3 : \A j, k \in 1..Len(f[i]) : j < k => f[i][j] < f[i][k]
  /\ \A i, j \in 0..3 : j < i => \A m \in Range(f[i]), n \in Range(f[j]) : m < n

Tells(f, w, gone) ==
  /\ InOrder(f)
  /\ \A m \in Contents(f) : m <= w
  /\ \A m \in Contents(f) : \A n \in m..w : n \in gone \cup Contents(f)

Chronicle == Tells(files, written, lost)

LEMMA ContentsAre ==
  ASSUME NEW f \in FourFiles
  PROVE  /\ \A i \in 0..3 : Range(f[i]) \subseteq Lines
         /\ Contents(f) \subseteq Lines
         /\ \A n : n \in Contents(f) <=> \E i \in 0..3 : n \in Range(f[i])
  <1>1. \A i \in 0..3 : Range(f[i]) \subseteq Lines
    BY RangeOfSeq DEF FourFiles
  <1> QED BY <1>1 DEF Contents

(* One more line at the end.                                               *)
LEMMA AppendTells ==
  ASSUME NEW f \in FourFiles, NEW w \in Nat, w + 1 \in Lines, NEW gone, Tells(f, w, gone)
  PROVE  Tells([f EXCEPT ![0] = Append(@, w + 1)], w + 1, gone)
  <1> DEFINE s == f[0]
             t == Append(s, w + 1)
             g == [f EXCEPT ![0] = t]
  <1>1. s \in Seq(Lines) /\ g \in FourFiles
    BY AppendedType DEF FourFiles
  <1>2. /\ t \in Seq(Lines) /\ Len(t) = Len(s) + 1 /\ Len(s) \in Nat
        /\ \A i \in 1..Len(s) : t[i] = s[i]
        /\ t[Len(s) + 1] = w + 1
    BY <1>1, AppendProperties, LenProperties
  <1>3. g[0] = t /\ \A i \in 1..3 : g[i] = f[i]
    BY DEF FourFiles
  <1>4. Range(s) = {s[i] : i \in 1..Len(s)} /\ Range(t) = {t[i] : i \in 1..Len(t)}
    BY <1>1, <1>2, RangeEquality
  <1> HIDE DEF t, s
  <1>5. Range(t) = Range(s) \cup {w + 1}
    <2>1. 1..Len(t) = (1..Len(s)) \cup {Len(s) + 1}
      BY <1>2
    <2> QED BY <1>2, <1>4, <2>1
  <1>6. /\ \A i \in 1..3 : Range(g[i]) = Range(f[i])
        /\ Range(g[0]) = Range(f[0]) \cup {w + 1}
    BY <1>3, <1>5 DEF s
  <1> HIDE DEF g
  <1>7. Contents(g) = Contents(f) \cup {w + 1}
    <2>1. 0..3 = {0} \cup 1..3
      OBVIOUS
    <2>2. \A n : n \in Contents(g) <=> n \in Range(g[0]) \/ \E i \in 1..3 : n \in Range(g[i])
      BY <1>1, <2>1, ContentsAre
    <2>3. \A n : n \in Contents(f) <=> n \in Range(f[0]) \/ \E i \in 1..3 : n \in Range(f[i])
      BY <2>1, ContentsAre
    <2> QED BY <1>6, <2>2, <2>3
  <1>8. Contents(f) \subseteq Lines /\ \A m \in Contents(f) : m <= w
    BY ContentsAre DEF Tells
  <1>9. \A i \in 0..3 : \A j, k \in 1..Len(g[i]) : j < k => g[i][j] < g[i][k]
    <2>1. \A j, k \in 1..Len(s) : j < k => s[j] < s[k]
      BY DEF Tells, InOrder, s
    <2>2. \A j \in 1..Len(s) : s[j] \in Contents(f)
      <3>1. Range(s) \subseteq Contents(f)
        BY ContentsAre DEF s
      <3> QED BY <1>4, <3>1
    <2>3. \A j \in 1..Len(s) : s[j] <= w /\ s[j] \in Nat
      BY <1>8, <2>2 DEF Lines
    <2>4. ASSUME NEW j \in 1..Len(t), NEW k \in 1..Len(t), j < k PROVE t[j] < t[k]
      <3>1. j \in 1..Len(s) /\ t[j] = s[j]
        BY <1>2, <2>4
      <3>2. CASE k \in 1..Len(s)
        BY <1>2, <2>1, <2>4, <3>1, <3>2
      <3>3. CASE k \notin 1..Len(s)
        <4>1. k = Len(s) + 1
          BY <1>2, <3>3
        <4>2. t[k] = w + 1 /\ s[j] <= w /\ s[j] \in Nat
          BY <1>2, <2>3, <3>1, <4>1
        <4> QED BY <3>1, <4>2
      <3> QED BY <3>2, <3>3
    <2>5. \A i \in 1..3 : \A j, k \in 1..Len(g[i]) : j < k => g[i][j] < g[i][k]
      BY <1>3 DEF Tells, InOrder, g
    <2>6. \A j, k \in 1..Len(g[0]) : j < k => g[0][j] < g[0][k]
      BY <1>3, <2>4 DEF g
    <2>7. \A i \in 0..3 : i = 0 \/ i \in 1..3
      OBVIOUS
    <2> QED BY <2>5, <2>6, <2>7
  <1>10. \A i, j \in 0..3 : j < i => \A m \in Range(g[i]), n \in Range(g[j]) : m < n
    <2> SUFFICES ASSUME NEW i \in 0..3, NEW j \in 0..3, j < i,
                        NEW m \in Range(g[i]), NEW n \in Range(g[j])
                 PROVE  m < n
      OBVIOUS
    <2>1. i \in 1..3 /\ m \in Range(f[i])
      BY <1>6
    <2>2. CASE n = w + 1
      <3>1. m \in Contents(f)
        BY <2>1, ContentsAre
      <3>2. m <= w /\ m \in Nat
        BY <1>8, <3>1 DEF Lines
      <3> QED BY <2>2, <3>2
    <2>3. CASE n # w + 1
      <3>1. n \in Range(f[j])
        <4>1. j = 0 \/ j \in 1..3
          OBVIOUS
        <4> QED BY <1>6, <2>3, <4>1
      <3> QED BY <2>1, <3>1 DEF Tells, InOrder
    <2> QED BY <2>2, <2>3
  <1>11. \A m \in Contents(g) : m <= w + 1 /\ m \in Nat
    BY <1>7, <1>8 DEF Lines
  <1>12. ASSUME NEW m \in Contents(g), NEW n \in m..(w + 1) PROVE n \in gone \cup Contents(g)
    <2>1. CASE n = w + 1
      BY <1>7, <2>1
    <2>2. CASE n # w + 1
      <3>1. m \in Nat /\ n \in m..w
        BY <1>11, <1>12, <2>2
      <3>2. m \in Contents(f)
        BY <1>7, <3>1
      <3> QED BY <1>7, <3>1, <3>2 DEF Tells
    <2> QED BY <2>1, <2>2
  <1>13. Tells(g, w + 1, gone)
    BY <1>9, <1>10, <1>11, <1>12 DEF Tells, InOrder
  <1> QED BY <1>13 DEF g, t, s

(* A line that is lost, and losing more.                                   *)
LEMMA NoteTells ==
  ASSUME NEW f \in FourFiles, NEW w \in Nat, NEW gone, Tells(f, w, gone)
  PROVE  Tells(f, w + 1, gone \cup {w + 1})
  <1>1. \A m \in Contents(f) : m \in Nat /\ m <= w
    BY ContentsAre DEF Tells, Lines
  <1>2. \A m \in Contents(f) : \A n \in m..(w + 1) : n = w + 1 \/ n \in m..w
    BY <1>1
  <1> QED BY <1>1, <1>2 DEF Tells

LEMMA LoseTells ==
  ASSUME NEW f, NEW w, NEW gone, NEW more, Tells(f, w, gone), gone \subseteq more
  PROVE  Tells(f, w, more)
  BY DEF Tells

(* A rename loses nothing but the file it overwrites, and nothing at all   *)
(* when that is the oldest.                                                *)
LEMMA RenameTells ==
  ASSUME NEW f \in FourFiles, NEW w \in Nat, NEW gone, Tells(f, w, gone),
         NEW i \in 0..2, NEW ok, NEW cost,
         i \in ok /\ f[i] # <<>> /\ i < 2 => Range(f[i + 1]) \subseteq cost
  PROVE  Tells(Renamed(f, i, ok), w, gone \cup cost)
  <1>1. CASE ~(i \in ok /\ f[i] # <<>>)
    BY <1>1, LoseTells DEF Renamed
  <1>2. CASE i \in ok /\ f[i] # <<>>
    <2> DEFINE g == [f EXCEPT ![i + 1] = f[i], ![i] = <<>>]
    <2>1. Renamed(f, i, ok) = g
      BY <1>2 DEF Renamed
    <2>2. g \in FourFiles
      BY <2>1, RenamedType
    <2>3. /\ i + 1 \in 0..3 /\ i \in 0..3 /\ i # i + 1
          /\ g[i + 1] = f[i] /\ g[i] = <<>>
          /\ \A j \in 0..3 : j # i /\ j # i + 1 => g[j] = f[j]
      BY DEF FourFiles
    <2>4. Range(g[i]) = {} /\ Len(g[i]) = 0
      <3>1. <<>> \in Seq(Lines) /\ Len(<<>>) = 0
        OBVIOUS
      <3>2. Range(<<>>) = {<<>>[j] : j \in 1..Len(<<>>)}
        BY <3>1, RangeEquality
      <3> QED BY <2>3, <3>1, <3>2
    <2> HIDE DEF g
    <2>5. InOrder(f) /\ (\A m \in Contents(f) : m <= w)
          /\ (\A m \in Contents(f) : \A n \in m..w : n \in gone \cup Contents(f))
      BY DEF Tells
    <2>6. \A j \in 0..3 : \A k, l \in 1..Len(g[j]) : k < l => g[j][k] < g[j][l]
      <3> SUFFICES ASSUME NEW j \in 0..3, NEW k \in 1..Len(g[j]), NEW l \in 1..Len(g[j]), k < l
                   PROVE  g[j][k] < g[j][l]
        OBVIOUS
      <3>1. CASE j = i
        BY <2>4, <3>1
      <3>2. CASE j = i + 1
        BY <2>3, <2>5, <3>2 DEF InOrder
      <3>3. CASE j # i /\ j # i + 1
        BY <2>3, <2>5, <3>3 DEF InOrder
      <3> QED BY <3>1, <3>2, <3>3
    <2>7. \A j, k \in 0..3 : k < j => \A m \in Range(g[j]), n \in Range(g[k]) : m < n
      <3> SUFFICES ASSUME NEW j \in 0..3, NEW k \in 0..3, k < j,
                          NEW m \in Range(g[j]), NEW n \in Range(g[k])
                   PROVE  m < n
        OBVIOUS
      <3> DEFINE from(x) == IF x = i + 1 THEN i ELSE x
      <3>1. j # i /\ k # i
        BY <2>4
      <3>2. m \in Range(f[from(j)]) /\ n \in Range(f[from(k)])
        BY <2>3, <3>1
      <3>3. from(j) \in 0..3 /\ from(k) \in 0..3 /\ from(k) < from(j)
        BY <3>1
      <3> HIDE DEF from
      <3> QED BY <2>5, <3>2, <3>3 DEF InOrder
    <2>8. \A j \in 0..3 : j # i + 1 => Range(f[j]) \subseteq Contents(g)
      <3> SUFFICES ASSUME NEW j \in 0..3, j # i + 1, NEW n \in Range(f[j]) PROVE n \in Contents(g)
        OBVIOUS
      <3>1. CASE j = i
        <4>1. n \in Range(g[i + 1])
          BY <2>3, <3>1
        <4> QED BY <2>2, <2>3, <4>1, ContentsAre
      <3>2. CASE j # i
        <4>1. n \in Range(g[j])
          BY <2>3, <3>2
        <4> QED BY <2>2, <4>1, ContentsAre
      <3> QED BY <3>1, <3>2
    <2>9. ASSUME NEW m \in Contents(g)
          PROVE  m \in Nat /\ \E j \in 0..3 : j # i + 1 /\ m \in Range(f[j])
      <3>1. PICK j \in 0..3 : m \in Range(g[j])
        BY <2>2, ContentsAre
      <3>2. m \in Nat
        BY <2>2, <2>9, ContentsAre DEF Lines
      <3>3. CASE j = i + 1
        BY <2>3, <3>1, <3>2, <3>3
      <3>4. CASE j # i + 1
        <4>1. j # i
          BY <2>4, <3>1
        <4> QED BY <2>3, <3>1, <3>2, <3>4, <4>1
      <3> QED BY <3>3, <3>4
    <2>10. Contents(g) \subseteq Contents(f)
      BY <2>9, ContentsAre
    <2>11. ASSUME NEW m \in Contents(g), NEW n \in m..w
           PROVE  n \in gone \cup cost \cup Contents(g)
      <3>1. n \in gone \cup Contents(f)
        BY <2>5, <2>10, <2>11
      <3>2. ASSUME n \in Contents(f) PROVE n \in cost \cup Contents(g)
        <4>1. PICK j \in 0..3 : n \in Range(f[j])
          BY <3>2, ContentsAre
        <4>2. CASE j # i + 1
          BY <2>8, <4>1, <4>2
        <4>3. CASE j = i + 1 /\ i < 2
          BY <1>2, <4>1, <4>3
        <4>4. CASE j = 3 /\ i = 2
          <5>1. PICK k \in 0..3 : k # 3 /\ m \in Range(f[k])
            BY <2>9, <4>4
          <5>2. n < m
            <6>1. k < j
              BY <4>4, <5>1
            <6> QED BY <2>5, <4>1, <5>1, <6>1 DEF InOrder
          <5>3. m \in Nat
            BY <2>9, <2>11
          <5>4. n \in Lines
            BY <3>2, ContentsAre
          <5> QED BY <2>11, <5>2, <5>3, <5>4 DEF Lines
        <4> QED BY <4>2, <4>3, <4>4
      <3> QED BY <3>1, <3>2
    <2>12. Tells(g, w, gone \cup cost)
      BY <2>5, <2>6, <2>7, <2>10, <2>11 DEF Tells, InOrder
    <2> QED BY <2>1, <2>12
  <1> QED BY <1>1, <1>2

(* A rotation, with whichever of its renames failing.                      *)
LEMMA RotateTells ==
  ASSUME files \in FourFiles, NEW w \in Nat, Tells(files, w, lost), NEW ok
  PROVE  Tells(Rotated(ok), w, lost \cup Overwritten(ok))
  <1> DEFINE f1 == Renamed(files, 2, ok)
             f2 == Renamed(f1, 1, ok)
             cost == Overwritten(ok)
  <1>1. f1 \in FourFiles /\ f2 \in FourFiles
    BY RenamedType
  <1>2. Tells(f1, w, lost \cup cost)
    <2>1. 2 \in 0..2 /\ (2 \in ok /\ files[2] # <<>> /\ 2 < 2 => Range(files[2 + 1]) \subseteq cost)
      OBVIOUS
    <2> HIDE DEF cost
    <2> QED BY <2>1, RenameTells, Zenon DEF f1
  <1>3. /\ f1[0] = files[0] /\ f1[1] = files[1]
        /\ f1[2] = files[2] \/ f1[2] = <<>>
        /\ 2 \in ok => f1[2] = <<>>
    BY DEF Renamed, FourFiles
  <1>4. /\ f2[0] = f1[0]
        /\ f2[1] = f1[1] \/ f2[1] = <<>>
        /\ 1 \in ok => f2[1] = <<>>
    BY <1>1 DEF Renamed, FourFiles
  <1>5. Range(<<>>) = {}
    <2>1. <<>> \in Seq(Lines) /\ Len(<<>>) = 0
      OBVIOUS
    <2>2. Range(<<>>) = {<<>>[j] : j \in 1..Len(<<>>)}
      BY <2>1, RangeEquality
    <2> QED BY <2>1, <2>2
  <1>6. \A i \in {1, 2} : i \notin ok /\ i - 1 \in ok /\ files[i - 1] # <<>>
                         => Range(files[i]) \subseteq cost
    <2> SUFFICES ASSUME NEW i \in {1, 2}, i \notin ok, i - 1 \in ok, files[i - 1] # <<>>
                 PROVE  Range(files[i]) \subseteq cost
      OBVIOUS
    <2>1. i \in {j \in {1, 2} \ ok : j - 1 \in ok /\ files[j - 1] # <<>>}
      OBVIOUS
    <2> QED BY <2>1, Zenon DEF Overwritten
  <1> HIDE DEF cost, f1, f2
  <1>7. Tells(f2, w, lost \cup cost)
    <2>1. 1 \in 0..2 /\ (1 \in ok /\ f1[1] # <<>> /\ 1 < 2 => Range(f1[1 + 1]) \subseteq cost)
      BY <1>3, <1>5, <1>6
    <2>2. Tells(f2, w, lost \cup cost \cup cost)
      BY <1>1, <1>2, <2>1, RenameTells, Zenon DEF f2
    <2>3. lost \cup cost \cup cost = lost \cup cost
      OBVIOUS
    <2> QED BY <2>2, <2>3
  <1>8. Tells(Renamed(f2, 0, ok), w, lost \cup cost)
    <2>1. 0 \in 0..2 /\ (0 \in ok /\ f2[0] # <<>> /\ 0 < 2 => Range(f2[0 + 1]) \subseteq cost)
      BY <1>3, <1>4, <1>5, <1>6
    <2>2. Tells(Renamed(f2, 0, ok), w, lost \cup cost \cup cost)
      BY <1>1, <1>7, <2>1, RenameTells, Zenon
    <2>3. lost \cup cost \cup cost = lost \cup cost
      OBVIOUS
    <2> QED BY <2>2, <2>3
  <1> QED BY <1>8 DEF Rotated, f1, f2, cost

LEMMA WroteTells ==
  ASSUME NEW f \in FourFiles, NEW gone, written \in 0..MaxLines, Wrote(f, gone),
         Tells(f, written, gone)
  PROVE  Chronicle'
  <1> DEFINE w == written
  <1>1. w \in Nat /\ w + 1 \in Lines /\ written' = w + 1
    BY LogAssumption DEF Wrote, Lines
  <1>2. Tells([f EXCEPT ![0] = Append(@, w + 1)], w + 1, gone)
    BY <1>1, AppendTells
  <1>3. Tells([f EXCEPT ![0] = Append(@, w + 1)], w + 1, gone \cup {w + 1})
    BY <1>2, LoseTells
  <1>4. Tells(f, w + 1, gone \cup {w + 1})
    BY <1>1, NoteTells
  <1> QED BY <1>1, <1>2, <1>3, <1>4 DEF Wrote, Chronicle

LEMMA InitChronicle == Init => Chronicle
  <1> SUFFICES ASSUME Init PROVE Chronicle
    OBVIOUS
  <1>1. files \in FourFiles /\ written \in Nat
    BY InitTypeOK DEF TypeOK, FourFiles, Lines
  <1>2. \A i \in 0..3 : files[i] = IF i < written THEN <<written - i>> ELSE <<>>
    BY DEF Init
  <1>3. \A i \in 0..3 : Range(files[i]) = {files[i][j] : j \in 1..Len(files[i])}
    BY <1>1, RangeEquality DEF FourFiles
  <1>4. \A i \in 0..3 : Range(files[i]) = IF i < written THEN {written - i} ELSE {}
    <2> TAKE i \in 0..3
    <2>1. CASE i < written
      <3>1. files[i] = <<written - i>> /\ Len(files[i]) = 1 /\ files[i][1] = written - i
        BY <1>1, <1>2, <2>1
      <3>2. 1..1 = {1}
        OBVIOUS
      <3>3. {files[i][j] : j \in {1}} = {written - i}
        BY <3>1
      <3> QED BY <1>3, <2>1, <3>1, <3>2, <3>3
    <2>2. CASE ~(i < written)
      BY <1>2, <1>3, <2>2
    <2> QED BY <2>1, <2>2
  <1>5. \A m \in Contents(files) : m \in Nat /\ m <= written
    BY <1>1, <1>4, ContentsAre
  <1>6. \A i \in 0..3 : \A j, k \in 1..Len(files[i]) : j < k => files[i][j] < files[i][k]
    BY <1>1, <1>2
  <1>7. \A i, j \in 0..3 : j < i => \A m \in Range(files[i]), n \in Range(files[j]) : m < n
    BY <1>1, <1>4
  <1>8. \A m \in Contents(files) : \A n \in m..written : n \in Contents(files)
    <2> SUFFICES ASSUME NEW m \in Contents(files), NEW n \in m..written
                 PROVE  n \in Contents(files)
      OBVIOUS
    <2>1. PICK i \in 0..3 : i < written /\ m = written - i
      BY <1>1, <1>4, ContentsAre
    <2>2. written - n \in 0..3 /\ written - n < written /\ n = written - (written - n)
      BY <1>1, <2>1
    <2>3. n \in Range(files[written - n])
      BY <1>4, <2>2
    <2> QED BY <1>1, <2>2, <2>3, ContentsAre
  <1> QED BY <1>5, <1>6, <1>7, <1>8 DEF Chronicle, Tells, InOrder

LEMMA StepChronicle == TypeOK /\ Chronicle /\ [Next]_vars => Chronicle'
  <1> SUFFICES ASSUME TypeOK, Chronicle, [Next]_vars PROVE Chronicle'
    OBVIOUS
  <1>1. /\ files \in FourFiles /\ written \in 0..MaxLines /\ written \in Nat
        /\ LogTypes /\ Tells(files, written, lost)
    BY TypeParts, LogAssumption DEF TypeOK, FourFiles, Lines, Chronicle
  <1>2. CASE UNCHANGED <<files, written, lost>>
    BY <1>1, <1>2 DEF Chronicle
  <1>3. CASE PreRotates /\ UNCHANGED written
    <2>1. PICK ok \in SUBSET (0..2) : files' = Rotated(ok) /\ lost' = lost \cup Overwritten(ok)
      BY <1>3 DEF PreRotates
    <2>2. Tells(Rotated(ok), written, lost \cup Overwritten(ok))
      BY <1>1, RotateTells
    <2> QED BY <1>3, <2>1, <2>2 DEF Chronicle
  <1>4. ASSUME NEW size \in LineSizes, written < MaxLines, WriteLine(size) PROVE Chronicle'
    <2>1. CASE Wrote(files, lost)
      BY <1>1, <2>1, WroteTells
    <2>2. ASSUME NEW ok \in SUBSET (0..2), Wrote(Rotated(ok), lost \cup Overwritten(ok))
          PROVE  Chronicle'
      <3>1. Rotated(ok) \in FourFiles
        BY <1>1, RotatedType
      <3>2. Tells(Rotated(ok), written, lost \cup Overwritten(ok))
        BY <1>1, RotateTells
      <3> QED BY <1>1, <2>2, <3>1, <3>2, WroteTells
    <2> QED BY <1>1, <1>4, <2>1, <2>2, LinesMove
  <1> QED BY <1>2, <1>3, <1>4, LogMoves DEF logVars

(* Whichever writes, renames and opens fail, in every state: the four      *)
(* files tell the lines in order, and a line that is missing is older than *)
(* all of them or one of those failures has cost it.                       *)
THEOREM LogTellsAll == Spec => []LogIsASuffix
  <1>1. TypeOK /\ Chronicle /\ [Next]_vars => TypeOK' /\ Chronicle'
    BY StepTypeOK, StepChronicle
  <1>2. Chronicle => LogIsASuffix
    BY DEF Chronicle, Tells, InOrder, Contents, LogIsASuffix, Kept
  <1> QED BY InitTypeOK, InitChronicle, <1>1, <1>2, PTL DEF Spec
====
