---- MODULE Daemon ----
(***************************************************************************)
(* One watcher daemon from the inside (mekami-cli/internal/watch,          *)
(* daemon.go, ipc_server.go, log.go): how it boots, serves its socket,     *)
(* beats, writes its log and leaves, or is made to.  Supervisor models the *)
(* same process from the outside, with its successors; here there is one   *)
(* process and all of its goroutines: main, one handler per connection,    *)
(* and the heartbeat.  The heartbeat's watch over the supervisor is left   *)
(* out: it needs _MEKAMI_SUPERVISOR_PID, which nobody sets.                *)
(***************************************************************************)
EXTENDS Naturals, Sequences, FiniteSets, Functions

CONSTANTS
  Conns,        \* connections clients may open, each once
  LineSizes,    \* sizes of log lines
  MaxBytes,     \* size of a log file (1 MiB in the code)
  MaxLines,     \* bound on the lines followed
  MaxFaults     \* bound on the file operations of the log that fail

ASSUME LogAssumption == /\ MaxBytes \in Nat \ {0} /\ MaxLines \in Nat /\ MaxFaults \in Nat
                        /\ LineSizes \subseteq 1..MaxBytes

VARIABLES
  main,        \* where the main goroutine is
  pidFile,     \* watcher.pid names this process
  sock,        \* watcher.sock is there and leads to this process
  armed,       \* SIGTERM and SIGINT go to NotifyContext
  cancelled,   \* sigCtx is done
  stopped,     \* the stopped channel is closed
  end,         \* how the process ended
  conn,        \* where the handler of each connection is
  overlapped,  \* two stops have been under way at the same time
  heart,       \* the heartbeat goroutine
  fresh,       \* the heartbeat file is younger than HeartbeatStale
  files,       \* lines in watcher.log (0) and in .1, .2 and .3
  writer,      \* fileLogger.w: "open", nil ("failed" rotation) or "closed"
  bytes,       \* fileLogger.bytes; before newFileLogger the file's size
  written,     \* lines handed to the log
  lost,        \* history: lines a failing write, rename or open has cost
  faults       \* how many of these have failed

lifeVars == <<main, pidFile, sock, armed, cancelled, stopped, end>>
connVars == <<conn, overlapped>>
beatVars == <<heart, fresh>>
logVars  == <<files, writer, bytes, written, lost, faults>>
vars == <<lifeVars, connVars, beatVars, logVars>>

Ended == main \in {"gone", "dead"}
Alive == ~Ended

(* Earlier daemons may have written: the last lines of theirs are there,   *)
(* one in each file, and the log may have outgrown MaxBytes.               *)
Init ==
  /\ main = "boot" /\ pidFile = FALSE /\ sock = FALSE
  /\ armed = FALSE /\ cancelled = FALSE /\ stopped = FALSE /\ end = "none"
  /\ conn = [c \in Conns |-> "none"] /\ overlapped = FALSE
  /\ heart = "off" /\ fresh = FALSE
  /\ written \in 0..MaxLines
  /\ files = [i \in 0..3 |-> IF i < written THEN <<written - i>> ELSE <<>>]
  /\ bytes \in IF written = 0 THEN {0} ELSE LineSizes \cup {MaxBytes + 1}
  /\ writer = "closed" /\ lost = {} /\ faults = 0

-----------------------------------------------------------------------------
(* fileLogger.                                                             *)

Fails(n) == faults + n <= MaxFaults /\ faults' = faults + n

(* os.Rename of file i to i + 1 in f, if it is there and the call works.   *)
Renamed(f, i, ok) ==
  IF i \in ok /\ f[i] # <<>> THEN [f EXCEPT ![i + 1] = f[i], ![i] = <<>>] ELSE f

(* Mutant: the log is opened with O_TRUNC, not O_APPEND.                   *)
RotatedTruncates(ok) ==
  [Renamed(Renamed(Renamed(files, 2, ok), 1, ok), 0, ok) EXCEPT ![0] = <<>>]

(* rotateLocked: .2 -> .3, .1 -> .2, .log -> .1; errors are ignored.       *)
Rotated(ok) == Renamed(Renamed(Renamed(files, 2, ok), 1, ok), 0, ok)

(* A file whose own rename failed is overwritten by its successor.         *)
Overwritten(ok) ==
  UNION {Range(files[i]) : i \in {j \in {1, 2} \ ok : j - 1 \in ok /\ files[j - 1] # <<>>}}

(* io.WriteString into f: the whole line, or a part of it and an error.    *)
(* A line is in its file as soon as a byte of it is.  n renames failed.    *)
Writes(f, size, filled, gone, n) ==
  /\ written' = written + 1
  /\ \/ /\ Fails(n)
        /\ files' = [f EXCEPT ![0] = Append(@, written + 1)]
        /\ bytes' = filled + size
        /\ lost' = gone
     \/ \E part \in 0..(size - 1) :
          /\ Fails(n + 1)
          /\ files' = IF part = 0 THEN f ELSE [f EXCEPT ![0] = Append(@, written + 1)]
          /\ bytes' = filled + part
          /\ lost' = gone \cup {written + 1}

Failed(ok) == Cardinality((0..2) \ ok)

Fits(size) == bytes + size <= MaxBytes

(* writeLine.  A rotation that cannot open the new file drops the line,    *)
(* leaves w nil and bytes as it was; the note goes to stderr, which        *)
(* detachStdio has made /dev/null.                                         *)
WriteLine(size) ==
  \/ /\ Fits(size) /\ writer = "open"
     /\ Writes(files, size, bytes, lost, 0)
     /\ UNCHANGED writer
  \/ /\ ~Fits(size)
     /\ \E ok \in SUBSET (0..2) :
          \/ /\ Writes(Rotated(ok), size, 0, lost \cup Overwritten(ok), Failed(ok))
             /\ writer' = "open"
          \/ /\ written' = written + 1
             /\ Fails(Failed(ok) + 1)
             /\ files' = Rotated(ok)
             /\ lost' = lost \cup Overwritten(ok) \cup {written + 1}
             /\ writer' = "failed"
             /\ UNCHANGED bytes

(* Some line is logged (lines beyond MaxLines are not followed).           *)
Logged ==
  \/ written < MaxLines /\ \E size \in LineSizes : WriteLine(size)
  \/ written = MaxLines /\ UNCHANGED logVars

(* A line that fits into a file that is not open: io.WriteString(nil).     *)
WritesToNil ==
  /\ written < MaxLines /\ writer # "open" /\ \E size \in LineSizes : Fits(size)
  /\ main' = "dead" /\ end' = "log"
  /\ UNCHANGED logVars

(* Main logs a line and goes on to the next place.                         *)
LogsThen(next) ==
  \/ Logged /\ main' = next /\ UNCHANGED end
  \/ WritesToNil

-----------------------------------------------------------------------------
(* DaemonEntryPoint.                                                       *)

WritePID ==
  /\ main = "boot"
  /\ pidFile' = TRUE /\ main' = "log"
  /\ UNCHANGED <<sock, armed, cancelled, stopped, end, connVars, beatVars, logVars>>

(* newFileLogger's rotation of a log that is too big.                      *)
PreRotates ==
  \E ok \in SUBSET (0..2) :
    /\ Fails(Failed(ok))
    /\ files' = Rotated(ok) /\ lost' = lost \cup Overwritten(ok)
    /\ bytes' = IF files'[0] = <<>> THEN 0 ELSE bytes

(* newFileLogger.                                                          *)
OpenLog ==
  /\ main = "log"
  /\ IF bytes > MaxBytes THEN PreRotates ELSE UNCHANGED <<files, lost, bytes, faults>>
  /\ writer' = "open" /\ main' = "arm"
  /\ UNCHANGED <<pidFile, sock, armed, cancelled, stopped, end, connVars, beatVars, written>>

(* signal.NotifyContext.                                                   *)
Arm ==
  /\ main = "arm"
  /\ armed' = TRUE /\ main' = "bind"
  /\ UNCHANGED <<pidFile, sock, cancelled, stopped, end, connVars, beatVars, logVars>>

(* startIPCServer: the socket of a predecessor goes, then listen.          *)
Bind ==
  /\ main = "bind"
  /\ sock' = TRUE /\ main' = "started"
  /\ UNCHANGED <<pidFile, armed, cancelled, stopped, end, connVars, beatVars, logVars>>

(* An error in any of the three: the defers in place so far are next.      *)
BootFails ==
  /\ \/ /\ main = "boot" /\ main' = "gone" /\ end' = "returned"
        /\ UNCHANGED logVars
     \/ /\ main = "log" /\ main' = "remove" /\ UNCHANGED end
        /\ \/ bytes > MaxBytes /\ PreRotates
           \/ UNCHANGED <<files, lost, bytes, faults>>
        /\ UNCHANGED <<writer, written>>
     \/ main = "bind" /\ LogsThen("cancel")
  /\ UNCHANGED <<pidFile, sock, armed, cancelled, stopped, connVars, beatVars>>

(* The lines "started", then "source=", and the batches' in RunLoop.       *)
MainLogs ==
  /\ \/ main = "started" /\ LogsThen("source")
     \/ main = "source" /\ LogsThen("beat")
     \/ main = "loop" /\ LogsThen("loop")
  /\ UNCHANGED <<pidFile, sock, armed, cancelled, stopped, connVars, beatVars>>

(* The first heartbeat, its goroutine, then RunLoop.                       *)
StartLoop ==
  /\ main = "beat"
  /\ main' = "loop" /\ heart' = "on" /\ fresh' = TRUE
  /\ UNCHANGED <<pidFile, sock, armed, cancelled, stopped, end, connVars, logVars>>

(* RunLoop returns on a done ctx; so it does when its Source has closed.   *)
LoopReturns ==
  /\ main = "loop"
  /\ main' = "wait"
  /\ UNCHANGED <<pidFile, sock, armed, cancelled, stopped, end, connVars, beatVars, logVars>>

(* Mutant: main leaves only while sigCtx is not done.                      *)
LeaveNeverWaits ==
  /\ main = "wait" /\ stopped /\ ~cancelled
  /\ LogsThen("shutdown")
  /\ UNCHANGED <<pidFile, sock, armed, cancelled, stopped, connVars, beatVars>>

(* <-stopped and the last line.                                            *)
Leave ==
  /\ main = "wait" /\ stopped
  /\ LogsThen("shutdown")
  /\ UNCHANGED <<pidFile, sock, armed, cancelled, stopped, connVars, beatVars>>

(* The defers, last first: ipc.Shutdown, which leaves open connections to  *)
(* their handlers, cancel, logFile.Close and RemovePID.                    *)
Shutdown ==
  /\ main = "shutdown" /\ main' = "cancel" /\ sock' = FALSE
  /\ UNCHANGED <<pidFile, armed, cancelled, stopped, end, connVars, beatVars, logVars>>

Cancel ==
  /\ main = "cancel" /\ main' = "close" /\ cancelled' = TRUE /\ armed' = FALSE
  /\ UNCHANGED <<pidFile, sock, stopped, end, connVars, beatVars, logVars>>

CloseLog ==
  /\ main = "close" /\ main' = "remove" /\ writer' = "closed"
  /\ UNCHANGED <<pidFile, sock, armed, cancelled, stopped, end, connVars, beatVars,
                 files, bytes, written, lost, faults>>

RemovePID ==
  /\ main = "remove" /\ main' = "gone" /\ pidFile' = FALSE /\ end' = "returned"
  /\ UNCHANGED <<sock, armed, cancelled, stopped, connVars, beatVars, logVars>>

Defers == Shutdown \/ Cancel \/ CloseLog \/ RemovePID

(* SIGTERM or SIGINT: what NotifyContext catches cancels, and that is all; *)
(* before it is called and once cancel was, a signal kills.                *)
Signal ==
  /\ Alive
  /\ IF armed THEN cancelled' = TRUE /\ UNCHANGED <<main, end>>
              ELSE main' = "dead" /\ end' = "signal" /\ UNCHANGED cancelled
  /\ UNCHANGED <<pidFile, sock, armed, stopped, connVars, beatVars, logVars>>

(* SIGKILL, or the machine.                                                *)
Killed ==
  /\ Alive
  /\ main' = "dead" /\ end' = "kill"
  /\ UNCHANGED <<pidFile, sock, armed, cancelled, stopped, connVars, beatVars, logVars>>

-----------------------------------------------------------------------------
(* ipcServer.handle, one goroutine per connection; nobody waits for them.  *)

Connect(c) ==
  /\ sock /\ Alive /\ conn[c] = "none"
  /\ conn' = [conn EXCEPT ![c] = "open"]
  /\ UNCHANGED <<lifeVars, overlapped, beatVars, logVars>>

(* ping, status, metrics and bad requests leave the state as it was; the   *)
(* client hangs up, or the read deadline of five seconds passes.           *)
HangUp(c) ==
  /\ conn[c] = "open" /\ Alive
  /\ conn' = [conn EXCEPT ![c] = "closed"]
  /\ UNCHANGED <<lifeVars, overlapped, beatVars, logVars>>

(* reload logs a line, whatever main is doing.                             *)
HandleReload(c) ==
  /\ conn[c] = "open" /\ Alive
  /\ \/ Logged /\ UNCHANGED <<main, end>>
     \/ WritesToNil
  /\ UNCHANGED <<pidFile, sock, armed, cancelled, stopped, connVars, beatVars>>

Stopping(c) == conn[c] \in {"cancel", "check", "close"}

(* stop: the reply, then onStop in a goroutine of its own.                 *)
HandleStop(c) ==
  /\ conn[c] = "open" /\ Alive
  /\ conn' = [conn EXCEPT ![c] = "cancel"]
  /\ overlapped' = (overlapped \/ \E d \in Conns : Stopping(d))
  /\ UNCHANGED <<lifeVars, beatVars, logVars>>

(* cancel() also takes NotifyContext's hands off the signals.              *)
OnStopCancels(c) ==
  /\ conn[c] = "cancel" /\ Alive
  /\ cancelled' = TRUE /\ armed' = FALSE
  /\ conn' = [conn EXCEPT ![c] = "check"]
  /\ UNCHANGED <<main, pidFile, sock, stopped, end, overlapped, beatVars, logVars>>

(* Mutant: close(stopped) without the select.                              *)
OnStopDoesNotCheck(c) ==
  /\ conn[c] = "check" /\ Alive
  /\ conn' = [conn EXCEPT ![c] = "close"]
  /\ UNCHANGED <<lifeVars, overlapped, beatVars, logVars>>

(* The select with a default: is stopped closed already?                   *)
OnStopChecks(c) ==
  /\ conn[c] = "check" /\ Alive
  /\ conn' = [conn EXCEPT ![c] = IF stopped THEN "done" ELSE "close"]
  /\ UNCHANGED <<lifeVars, overlapped, beatVars, logVars>>

(* close(stopped): a second close is a panic, and the process dies.        *)
OnStopCloses(c) ==
  /\ conn[c] = "close" /\ Alive
  /\ conn' = [conn EXCEPT ![c] = "done"]
  /\ IF stopped THEN main' = "dead" /\ end' = "close" /\ UNCHANGED stopped
                ELSE stopped' = TRUE /\ UNCHANGED <<main, end>>
  /\ UNCHANGED <<pidFile, sock, armed, cancelled, overlapped, beatVars, logVars>>

Handler(c) == OnStopCancels(c) \/ OnStopChecks(c) \/ OnStopCloses(c)

-----------------------------------------------------------------------------
(* The heartbeat goroutine.                                                *)

BeatOK == heart = "on" /\ Alive

Beat ==
  /\ BeatOK
  /\ fresh' = TRUE
  /\ UNCHANGED <<lifeVars, connVars, heart, logVars>>

(* Mutant: the goroutine ends with the process only.                       *)
HeartStopsWithMain ==
  /\ BeatOK /\ cancelled /\ stopped
  /\ heart' = "off"
  /\ UNCHANGED <<lifeVars, connVars, fresh, logVars>>

(* The select takes sigCtx.Done.                                           *)
HeartStops ==
  /\ BeatOK /\ cancelled
  /\ heart' = "off"
  /\ UNCHANGED <<lifeVars, connVars, fresh, logVars>>

(* Thirty seconds without a beat.                                          *)
GoesStale ==
  /\ fresh /\ (heart = "off" \/ Ended)
  /\ fresh' = FALSE
  /\ UNCHANGED <<lifeVars, connVars, heart, logVars>>

-----------------------------------------------------------------------------
Boot == WritePID \/ OpenLog \/ Arm \/ Bind \/ BootFails \/ MainLogs \/ StartLoop
Down == (cancelled /\ LoopReturns) \/ Leave \/ Defers

Heartbeat == Beat \/ HeartStops

Next ==
  \/ Boot
  \/ LoopReturns \/ Leave \/ Defers
  \/ Signal \/ Killed
  \/ \E c \in Conns : \/ Connect(c) \/ HangUp(c) \/ HandleReload(c)
                      \/ HandleStop(c) \/ Handler(c)
  \/ Heartbeat \/ GoesStale

(* Goroutines run when they can, and time passes.  RunLoop returns once    *)
(* its ctx is done (WatchLoop), however many lines it has logged before.   *)
(* No client is obliged to call, and nobody to send a signal.              *)
Fairness ==
  /\ WF_vars(Boot /\ main # "loop")
  /\ WF_vars(Down)
  /\ WF_vars(\E c \in Conns : Handler(c))
  /\ WF_vars(Heartbeat)
  /\ SF_vars(HeartStops)
  /\ WF_vars(GoesStale)

Spec == Init /\ [][Next]_vars /\ Fairness

-----------------------------------------------------------------------------
TypeOK ==
  /\ main \in {"boot", "log", "arm", "bind", "started", "source", "beat", "loop", "wait",
               "shutdown", "cancel", "close", "remove", "gone", "dead"}
  /\ pidFile \in BOOLEAN /\ sock \in BOOLEAN /\ armed \in BOOLEAN
  /\ cancelled \in BOOLEAN /\ stopped \in BOOLEAN
  /\ end \in {"none", "returned", "kill", "signal", "close", "log"}
  /\ conn \in [Conns -> {"none", "open", "cancel", "check", "close", "done", "closed"}]
  /\ overlapped \in BOOLEAN
  /\ heart \in {"on", "off"} /\ fresh \in BOOLEAN
  /\ files \in [0..3 -> Seq(1..MaxLines)]
  /\ writer \in {"open", "failed", "closed"}
  /\ bytes \in 0..(MaxBytes + 1) /\ written \in 0..MaxLines
  /\ lost \subseteq 1..MaxLines /\ faults \in 0..MaxFaults

(* A daemon that returns, from wherever it does, has removed its pid file  *)
(* and its socket.                                                         *)
ReturnsLeaveNothing == end = "returned" => ~pidFile /\ ~sock

(* A SIGTERM that kills a daemon whose socket is up came after a stop that *)
(* had called cancel: before the socket is there nobody talks to it, and   *)
(* from then on signals are caught until a stop.                           *)
SignalsAreCaught ==
  end = "signal" /\ sock => \E c \in Conns : conn[c] \in {"check", "close", "done"}

(* However many stops arrive, one after the other, stopped is closed once: *)
(* the panic takes two that are under way together.  The log's panic takes *)
(* a rotation that failed and cost a line, or a reload that outlives the   *)
(* log's Close, when the socket is gone.                                   *)
PanicsAreKnown ==
  /\ end = "close" => overlapped
  /\ end = "log" => lost # {} \/ (writer = "closed" /\ ~sock)

(* What holds of a daemon's life at all times.  Its files outlive it only  *)
(* after a SIGKILL, a SIGTERM outside NotifyContext's reach, or one of two *)
(* panics.                                                                 *)
LeavesCleanly ==
  /\ TypeOK
  /\ ReturnsLeaveNothing
  /\ SignalsAreCaught
  /\ PanicsAreKnown

Kept == UNION {Range(files[i]) : i \in 0..3}

(* Read from the oldest backup on, the log tells the lines in the order    *)
(* they were written; a line that is missing is older than all of these,   *)
(* or a write, a rename or an open that failed has cost it.  Rotations     *)
(* whose renames fail, in any combination, break nothing else.             *)
LogIsASuffix ==
  /\ \A i \in 0..3 : \A j, k \in 1..Len(files[i]) : j < k => files[i][j] < files[i][k]
  /\ \A i, j \in 0..3 : j < i => \A m \in Range(files[i]), n \in Range(files[j]) : m < n
  /\ \A m \in Kept : \A n \in m..written : n \in lost \cup Kept

(* A stop over IPC that was acknowledged ends the process.                 *)
StopEndsTheDaemon == \A c \in Conns : (conn[c] = "cancel") ~> Ended

(* A daemon that is only signalled stays, and does not watch any more;     *)
(* its heartbeat tells: it goes stale.                                     *)
DeafGoesStale == (main = "wait" /\ cancelled) ~> (~fresh \/ Ended)
====
