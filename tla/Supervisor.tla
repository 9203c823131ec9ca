---- MODULE Supervisor ----
(***************************************************************************)
(* The per-user supervisor and the watcher daemons of one project root     *)
(* (mekami-cli/internal/supervisor, with the daemon of internal/watch seen *)
(* from outside).                                                          *)
(*                                                                         *)
(* The supervisor's goroutines share one Daemon record under s.mu, which   *)
(* they release around everything that blocks: adoption, fork, probe, IPC, *)
(* waiting for a process to die.  Each step below is what happens between  *)
(* two such points.  A daemon owns two files of the project, watcher.pid   *)
(* and watcher.sock; they outlive it when it is killed.                    *)
(***************************************************************************)
EXTENDS Naturals, FiniteSets

CONSTANTS
  Clients,        \* concurrent IPC requests to the supervisor
  Backoffs,       \* concurrent restart goroutines of checkOne
  MaxStarts,      \* bound on how often a daemon is started or adopted
  MaxRuns,        \* bound on how often a supervisor is started
  Policy,         \* the restart policy clients ask for
  Serial,         \* TRUE: only runs in which commands and restarts do not overlap
  Unreaped        \* whether a dead child goes on being reported alive: {TRUE} on
                  \* Unix, {FALSE} on Windows, BOOLEAN for either, child by child

ASSUME BoundsAssumption == /\ MaxStarts \in Nat \ {0}
                           /\ MaxRuns \in Nat \ {0}
ASSUME EnvAssumption == /\ Policy \in {"on-crash", "always", "never"}
                        /\ Serial \in BOOLEAN
                        /\ Unreaped \subseteq BOOLEAN /\ Unreaped # {}
                        /\ Clients \cap Backoffs = {}
                        /\ "run" \notin Clients \cup Backoffs

Pids    == 1..MaxStarts     \* daemon processes, in the order they are forked
Tokens  == 1..MaxStarts     \* done channels, in the order they are made
Threads == Clients \cup Backoffs \cup {"run"}

VARIABLES
  ps,        \* state of each daemon process
  child,     \* a child of the running supervisor whose death nobody reaps
  pidfile,   \* what watcher.pid says (0: no file)
  sock,      \* the process whose listener watcher.sock leads to (0: no file)
  sup,       \* the supervisor is up or down
  runs,      \* supervisors started so far
  panicked,  \* the last supervisor died of a double close
  d,         \* the in-memory Daemon of the root
  made,      \* done channels made so far
  reg,       \* LastState of the root's record in daemons.json (none: no record)
  policy,    \* the record's RestartPolicy; on-crash, the default, without one
  shutdown,  \* s.shutdown is closed
  trouble,   \* the first thing to happen that the code is no match for (history)
  waiters,   \* waitProcess goroutines: <<pid, done>>
  closed,    \* the done channels that are closed
  pc,        \* where each goroutine is
  op,        \* the command it carries out; a Start is named by its restart policy
  lpid,      \* its local pid
  ltok       \* its local done

osVars  == <<ps, child, pidfile, sock>>
lifeVars == <<sup, runs, panicked>>
regVars == <<reg, policy>>
locVars == <<op, lpid, ltok>>
chanVars == <<made, waiters, closed>>
ctlVars == <<shutdown, trouble>>
vars == <<osVars, lifeVars, d, regVars, ctlVars, chanVars, pc, locVars>>

(* What trouble remembers:                                                 *)
(*   overlap  a command or a restart began while another was under way     *)
(*   timeout  Start gave up on a daemon that was still booting             *)
(*   stale    cleanStaleDaemonState left a socket nobody listens on        *)
(*   unseen   a supervisor came up while a daemon booted or left           *)
Troubles == {"overlap", "timeout", "stale", "unseen"}

Note(what, happens) ==
  trouble' = IF happens /\ trouble = "none" THEN what ELSE trouble

NoDaemon == [known |-> FALSE, state |-> "stopped", pid |-> 0, done |-> 0]

-----------------------------------------------------------------------------
(* Processes and the two files.                                            *)

(* What processAlive (signal 0) says: a child nobody waits for counts.     *)
Alive(p) == p # 0 /\ ps[p] \notin {"none", "gone"}

(* The process accepts connections on its listener.                        *)
Answers(p) == p # 0 /\ ps[p] \in {"serving", "deaf", "closing"}

Watching == {p \in Pids : ps[p] = "serving"}
Booting  == {p \in Pids : ps[p] \in {"forked", "named", "doomed"}}
Leaving  == {p \in Pids : ps[p] = "unbound"}

(* How p ends: SpawnDaemon releases the child and nothing ever waits for   *)
(* it, so on Unix it stays a zombie for as long as its supervisor lives.   *)
Dead(p) == IF child[p] THEN "zombie" ELSE "gone"

(* What SIGTERM makes of p.  The default action until NotifyContext, which *)
(* comes between the pid file and the socket; from then on the ctx is      *)
(* done, RunLoop returns, and DaemonEntryPoint waits for a stopped channel *)
(* that only a stop over IPC closes: a daemon that answers and is deaf.  The    *)
(* cancel of that stop restores the default action.                        *)
AfterTerm(p) == CASE ps[p] = "forked"  -> {Dead(p)}
                  [] ps[p] = "named"   -> {Dead(p), "doomed"}
                  [] ps[p] = "serving" -> {"deaf"}
                  [] ps[p] \in {"closing", "unbound"} -> {ps[p], Dead(p)}
                  [] OTHER             -> {ps[p]}

Terminate(p) == \E s \in AfterTerm(p) : ps' = [ps EXCEPT ![p] = s]

AfterKill(p) == IF ps[p] \in {"none", "gone", "zombie"} THEN ps[p] ELSE Dead(p)

(* The four checks of adoptDaemon.                                         *)
Adoptable == Alive(pidfile) /\ sock # 0 /\ Answers(sock)

-----------------------------------------------------------------------------
Init ==
  /\ ps = [p \in Pids |-> "none"] /\ child = [p \in Pids |-> FALSE]
  /\ pidfile = 0 /\ sock = 0
  /\ sup = "up" /\ runs = 1 /\ panicked = FALSE
  /\ d = NoDaemon /\ reg = "none" /\ policy = "on-crash"
  /\ shutdown = FALSE /\ trouble = "none" /\ made = 0 /\ waiters = {} /\ closed = {}
  /\ pc = [t \in Threads |-> "idle"]
  /\ op = [t \in Threads |-> "none"]
  /\ lpid = [t \in Threads |-> 0]
  /\ ltok = [t \in Threads |-> 0]

Go(t, l) == pc' = [pc EXCEPT ![t] = l]

(* A thread is done with its command.                                      *)
Return(t) == /\ pc' = [pc EXCEPT ![t] = "idle"]
             /\ op' = [op EXCEPT ![t] = "none"]
             /\ lpid' = [lpid EXCEPT ![t] = 0]
             /\ ltok' = [ltok EXCEPT ![t] = 0]

Up(t, l) == sup = "up" /\ pc[t] = l

(* make(chan struct{}).                                                    *)
Make(tok) == tok = made + 1 /\ made' = tok

(* close(tok), when tok is open.                                           *)
Close(tok) == closed' = closed \cup {tok}

(* The supervisor process is gone, with everything it had in memory; its   *)
(* children are adopted by init, which reaps the dead ones.                *)
SupervisorEnds ==
  /\ sup' = "down"
  /\ d' = NoDaemon /\ shutdown' = FALSE /\ waiters' = {} /\ closed' = {}
  /\ pc' = [t \in Threads |-> "idle"]
  /\ op' = [t \in Threads |-> "none"]
  /\ lpid' = [t \in Threads |-> 0]
  /\ ltok' = [t \in Threads |-> 0]
  /\ child' = [p \in Pids |-> FALSE]
  /\ ps' = [p \in Pids |-> IF ps[p] = "zombie" THEN "gone" ELSE ps[p]]
  /\ UNCHANGED <<pidfile, sock, runs, regVars, trouble, made>>

-----------------------------------------------------------------------------
(* The daemon, seen from outside.                                          *)

WritesPid(p) ==
  /\ ps[p] = "forked"
  /\ ps' = [ps EXCEPT ![p] = "named"]
  /\ pidfile' = p
  /\ UNCHANGED <<child, sock, lifeVars, d, regVars, ctlVars, chanVars, pc, locVars>>

(* startIPCServer removes whatever socket it finds and binds its own.      *)
Binds(p) ==
  /\ ps[p] \in {"named", "doomed"}
  /\ ps' = [ps EXCEPT ![p] = IF @ = "named" THEN "serving" ELSE "deaf"]
  /\ sock' = p
  /\ UNCHANGED <<child, pidfile, lifeVars, d, regVars, ctlVars, chanVars, pc, locVars>>

(* DaemonEntryPoint fails after WritePID (log, socket) and removes the     *)
(* pid file again, by name.                                                *)
BootFails(p) ==
  /\ ps[p] \in {"named", "doomed"}
  /\ ps' = [ps EXCEPT ![p] = Dead(p)]
  /\ pidfile' = 0
  /\ UNCHANGED <<child, sock, lifeVars, d, regVars, ctlVars, chanVars, pc, locVars>>

(* The Source breaks, RunLoop returns, and the daemon waits to be stopped. *)
LosesSource(p) ==
  /\ ps[p] = "serving"
  /\ ps' = [ps EXCEPT ![p] = "deaf"]
  /\ UNCHANGED <<child, pidfile, sock, lifeVars, d, regVars, ctlVars, chanVars, pc,
                 locVars>>

(* The way out after a stop over IPC: the deferred Shutdown and RemovePID  *)
(* remove the two files by name, whoever they belong to.                   *)
Unbinds(p) ==
  /\ ps[p] = "closing"
  /\ ps' = [ps EXCEPT ![p] = "unbound"]
  /\ sock' = 0
  /\ UNCHANGED <<child, pidfile, lifeVars, d, regVars, ctlVars, chanVars, pc, locVars>>

Exits(p) ==
  /\ ps[p] = "unbound"
  /\ ps' = [ps EXCEPT ![p] = Dead(p)]
  /\ pidfile' = 0
  /\ UNCHANGED <<child, sock, lifeVars, d, regVars, ctlVars, chanVars, pc, locVars>>

(* A crash, an OOM kill, a kill -9: both files stay.                       *)
DaemonCrashes(p) ==
  /\ ps[p] \notin {"none", "zombie", "gone"}
  /\ ps' = [ps EXCEPT ![p] = Dead(p)]
  /\ UNCHANGED <<child, pidfile, sock, lifeVars, d, regVars, ctlVars, chanVars, pc, locVars>>

-----------------------------------------------------------------------------
(* Start: one step per stretch between two blocking calls.                 *)

(* The check under the lock; nothing keeps it true once s.mu is released.  *)
StartChecks(t) ==
  /\ Up(t, "check")
  /\ IF d.state \in {"running", "starting"}
     THEN Return(t) /\ UNCHANGED d
     ELSE /\ d' = [d EXCEPT !.known = TRUE]
          /\ Go(t, "adopt")
          /\ UNCHANGED locVars
  /\ UNCHANGED <<osVars, lifeVars, regVars, ctlVars, chanVars>>

(* Mutant: no adoption before the fork.                                    *)
StartForgetsOrphan(t) ==
  /\ Up(t, "adopt")
  /\ Go(t, "clean")
  /\ UNCHANGED <<osVars, lifeVars, d, regVars, ctlVars, chanVars, locVars>>

(* adoptDaemon: read watcher.pid, signal 0, stat and ping the socket.  The *)
(* process that answers need not be the one watcher.pid names.             *)
StartLooksForOrphan(t) ==
  /\ Up(t, "adopt")
  /\ lpid' = [lpid EXCEPT ![t] = IF Adoptable THEN pidfile ELSE 0]
  /\ Go(t, IF Adoptable THEN "adopted" ELSE "clean")
  /\ UNCHANGED <<osVars, lifeVars, d, regVars, ctlVars, chanVars, op, ltok>>

(* tryAdoptAtStart after its ping: record, registry, waitProcess.          *)
StartAdopts(t) ==
  /\ Up(t, "adopted")
  /\ \E tok \in Tokens :
       /\ Make(tok)
       /\ d' = [known |-> TRUE, state |-> "running", pid |-> lpid[t], done |-> tok]
       /\ waiters' = waiters \cup {<<lpid[t], tok>>}
  /\ reg' = "running" /\ policy' = op[t]
  /\ Return(t)
  /\ UNCHANGED <<osVars, lifeVars, ctlVars, closed>>

(* cleanStaleDaemonState: nothing while the recorded process is alive,     *)
(* otherwise both files.                                                   *)
StartCleans(t) ==
  /\ Up(t, "clean")
  /\ IF Alive(pidfile) THEN UNCHANGED <<pidfile, sock>>
                       ELSE pidfile' = 0 /\ sock' = 0
  /\ Note("stale", sock' # 0 /\ ~Answers(sock))
  /\ Go(t, "mark")
  /\ UNCHANGED <<ps, child, lifeVars, d, regVars, shutdown, chanVars, locVars>>

(* Mutant: the done channel of the last run is used again.                 *)
StartKeepsDone(t) ==
  /\ Up(t, "mark")
  /\ d' = [d EXCEPT !.state = "starting"]
  /\ ltok' = [ltok EXCEPT ![t] = d.done]
  /\ Go(t, "spawn")
  /\ UNCHANGED <<osVars, lifeVars, regVars, ctlVars, chanVars, op, lpid>>

(* The state is set without looking at it again.                           *)
StartMarks(t) ==
  /\ Up(t, "mark")
  /\ \E tok \in Tokens :
       /\ Make(tok)
       /\ d' = [d EXCEPT !.state = "starting", !.done = tok]
       /\ ltok' = [ltok EXCEPT ![t] = tok]
  /\ Go(t, "spawn")
  /\ UNCHANGED <<osVars, lifeVars, regVars, ctlVars, waiters, closed, op, lpid>>

(* The fork gives the next unused pid.                                     *)
StartSpawns(t) ==
  /\ Up(t, "spawn")
  /\ \E p \in Pids :
       /\ ps[p] = "none" /\ \A q \in 1..(p - 1) : ps[q] # "none"
       /\ ps' = [ps EXCEPT ![p] = "forked"]
       /\ \E u \in Unreaped : child' = [child EXCEPT ![p] = u]
       /\ lpid' = [lpid EXCEPT ![t] = p]
  /\ Go(t, "setpid")
  /\ UNCHANGED <<pidfile, sock, lifeVars, d, regVars, ctlVars, chanVars, op, ltok>>

(* SpawnDaemon cannot make its directory, open its log or fork.            *)
StartCannotSpawn(t) ==
  /\ Up(t, "spawn")
  /\ d' = [d EXCEPT !.state = "crashed"]
  /\ Return(t)
  /\ UNCHANGED <<osVars, lifeVars, regVars, ctlVars, chanVars>>

StartSetsPid(t) ==
  /\ Up(t, "setpid")
  /\ d' = [d EXCEPT !.pid = lpid[t]]
  /\ Go(t, "probe")
  /\ UNCHANGED <<osVars, lifeVars, regVars, ctlVars, chanVars, locVars>>

(* ProbeDaemonReady: some socket file exists.                              *)
StartProbes(t) ==
  /\ Up(t, "probe") /\ sock # 0
  /\ Go(t, "persist")
  /\ UNCHANGED <<osVars, lifeVars, d, regVars, ctlVars, chanVars, locVars>>

(* Mutant: the probe has no deadline.                                      *)
StartProbesForEver(t) ==
  /\ Up(t, "probe") /\ sock = 0
  /\ UNCHANGED vars

(* No socket within StartProbeTimeout: the daemon died, or it is slow.     *)
StartTimesOut(t) ==
  /\ Up(t, "probe") /\ sock = 0
  /\ Note("timeout", lpid[t] \in Booting)
  /\ d' = [d EXCEPT !.state = "crashed"]
  /\ Go(t, "giveup")
  /\ UNCHANGED <<osVars, lifeVars, regVars, shutdown, chanVars, locVars>>

StartGivesUp(t) ==
  /\ Up(t, "giveup")
  /\ Terminate(lpid[t])
  /\ Return(t)
  /\ UNCHANGED <<child, pidfile, sock, lifeVars, d, regVars, ctlVars, chanVars>>

StartPersists(t) ==
  /\ Up(t, "persist")
  /\ reg' = "running" /\ policy' = op[t]
  /\ Go(t, "finish")
  /\ UNCHANGED <<osVars, lifeVars, d, ctlVars, chanVars, locVars>>

(* Again unconditional: a Stop or a crash noted meanwhile is overwritten.  *)
StartFinishes(t) ==
  /\ Up(t, "finish")
  /\ d' = [d EXCEPT !.state = "running"]
  /\ waiters' = waiters \cup {<<lpid[t], ltok[t]>>}
  /\ Return(t)
  /\ UNCHANGED <<osVars, lifeVars, regVars, ctlVars, made, closed>>

-----------------------------------------------------------------------------
(* Stop.                                                                   *)

(* Where a thread goes when its Stop is over: on to the Start of a         *)
(* restart, out of the process for shutdownAll, back to the client.        *)
StopReturns(t) ==
  CASE op[t] = "restart" -> Go(t, "check") /\ lpid' = [lpid EXCEPT ![t] = 0]
                            /\ op' = [op EXCEPT ![t] = policy]
                            /\ UNCHANGED ltok
    [] op[t] = "quit"    -> Go(t, "exit") /\ UNCHANGED locVars
    [] OTHER             -> Return(t)

(* Mutant: the pid is read after it has been reset.                        *)
StopReadsPidLate(t) ==
  /\ Up(t, "stop")
  /\ IF ~d.known \/ d.state = "stopped"
     THEN StopReturns(t) /\ UNCHANGED d
     ELSE /\ d' = [d EXCEPT !.state = "stopping", !.pid = 0]
          /\ lpid' = [lpid EXCEPT ![t] = 0]
          /\ Go(t, IF op[t] = "force" THEN "term" ELSE "ipc")
          /\ UNCHANGED <<op, ltok>>
  /\ UNCHANGED <<osVars, lifeVars, regVars, ctlVars, chanVars>>

(* Stop up to its first unlock.                                            *)
StopBegins(t) ==
  /\ Up(t, "stop")
  /\ IF ~d.known \/ d.state = "stopped"
     THEN StopReturns(t) /\ UNCHANGED d
     ELSE /\ d' = [d EXCEPT !.state = "stopping"]
          /\ lpid' = [lpid EXCEPT ![t] = d.pid]
          /\ Go(t, IF op[t] = "force" THEN "term" ELSE "ipc")
          /\ UNCHANGED <<op, ltok>>
  /\ UNCHANGED <<osVars, lifeVars, regVars, ctlVars, chanVars>>

(* The polite stop goes to whoever owns the socket.                        *)
StopAsks(t) ==
  /\ Up(t, "ipc")
  /\ ps' = IF Answers(sock) THEN [ps EXCEPT ![sock] = "closing"] ELSE ps
  /\ Go(t, "term")
  /\ UNCHANGED <<child, pidfile, sock, lifeVars, d, regVars, ctlVars, chanVars, locVars>>

StopTerminates(t) ==
  /\ Up(t, "term")
  /\ IF Alive(lpid[t]) THEN Terminate(lpid[t]) ELSE UNCHANGED ps
  /\ Go(t, "wait")
  /\ UNCHANGED <<child, pidfile, sock, lifeVars, d, regVars, ctlVars, chanVars, locVars>>

(* Mutant: neither the wait nor the kill.                                  *)
StopDoesNotWait(t) ==
  /\ Up(t, "wait")
  /\ d' = [d EXCEPT !.state = "stopped", !.pid = 0]
  /\ Go(t, "unlist")
  /\ UNCHANGED <<osVars, lifeVars, regVars, ctlVars, chanVars, locVars>>

(* The process is gone, or StopTimeout passes and SIGKILL makes it so.     *)
StopWaits(t) ==
  /\ Up(t, "wait")
  /\ ps' = IF Alive(lpid[t]) THEN [ps EXCEPT ![lpid[t]] = AfterKill(lpid[t])] ELSE ps
  /\ d' = [d EXCEPT !.state = "stopped", !.pid = 0]
  /\ Go(t, "unlist")
  /\ UNCHANGED <<child, pidfile, sock, lifeVars, regVars, ctlVars, chanVars, locVars>>

StopPersists(t) ==
  /\ Up(t, "unlist")
  /\ reg' = IF reg = "none" THEN reg ELSE "stopped"
  /\ StopReturns(t)
  /\ UNCHANGED <<osVars, lifeVars, d, policy, ctlVars, chanVars>>

-----------------------------------------------------------------------------
(* Commands of the IPC clients.                                            *)

(* No command or restart is under way, and the supervisor has not been     *)
(* told to quit.  The code does not ask for it: what begins all the same   *)
(* overlaps, unless Serial bounds the run to behaviours without overlaps.  *)
Alone == /\ ~shutdown
         /\ \A t \in Clients \cup Backoffs : pc[t] \in {"idle", "sleep"}

Begins == /\ Serial => Alone
          /\ Note("overlap", ~Alone)

(* The starts that may still make a channel; they count towards MaxStarts. *)
Due == {t \in Threads : \/ pc[t] \in {"check", "adopt", "adopted", "clean", "mark",
                                     "sleep"}
                        \/ op[t] = "restart"}
MayStart == made + Cardinality(Due) < MaxStarts

Request(c, cmd, l) ==
  /\ Up(c, "idle")
  /\ Begins
  /\ op' = [op EXCEPT ![c] = cmd]
  /\ Go(c, l)
  /\ UNCHANGED <<osVars, lifeVars, d, regVars, shutdown, chanVars, lpid, ltok>>

AsksStart(c)   == MayStart /\ Request(c, Policy, "check")
AsksStop(c)    == \E cmd \in {"stop", "force"} : Request(c, cmd, "stop")

(* Also a Reload of a running daemon whose on_start has changed.           *)
AsksRestart(c) == MayStart /\ d.known /\ Request(c, "restart", "stop")

(* A Reload of a daemon that is not running only records its state (and a  *)
(* hot one of a running daemon changes nothing here).                      *)
AsksReload(c) ==
  /\ Up(c, "idle")
  /\ Begins
  /\ d.known /\ d.state # "running"
  /\ reg' = d.state
  /\ UNCHANGED <<osVars, lifeVars, d, policy, shutdown, chanVars, pc, locVars>>

(* HandleQuit closes s.shutdown; Run sees it on its next turn.             *)
AsksQuit(c) ==
  /\ Up(c, "idle") /\ ~shutdown
  /\ Begins
  /\ shutdown' = TRUE
  /\ UNCHANGED <<osVars, lifeVars, d, regVars, chanVars, pc, locVars>>

-----------------------------------------------------------------------------
(* The Run goroutine: checkOne on every health tick, shutdownAll.          *)

(* Due: RestartAt has passed, which it has when no restart goroutine is    *)
(* still asleep.                                                           *)
RestartDue == \A b \in Backoffs : pc[b] # "sleep"

(* The snapshot of a crashed daemon: schedule a restart.                   *)
HealthSchedules ==
  /\ Up("run", "idle") /\ ~shutdown
  /\ d.known /\ d.state = "crashed" /\ policy # "never"
  /\ RestartDue /\ MayStart
  /\ \E b \in Backoffs : /\ pc[b] = "idle" /\ Go(b, "sleep")
                        /\ op' = [op EXCEPT ![b] = policy]
  /\ UNCHANGED <<osVars, lifeVars, d, regVars, ctlVars, chanVars, lpid, ltok>>

(* The goroutine wakes, looks at the state once and calls Start.           *)
BackoffWakes(b) ==
  /\ Up(b, "sleep")
  /\ Begins
  /\ IF d.state = "crashed" THEN Go(b, "check") /\ UNCHANGED locVars
                            ELSE Return(b)
  /\ UNCHANGED <<osVars, lifeVars, d, regVars, shutdown, chanVars>>

(* Mutant: only a daemon that is coming up is watched.                     *)
HealthWatchesBoot ==
  /\ Up("run", "idle") /\ ~shutdown
  /\ d.known /\ d.state = "starting"
  /\ lpid' = [lpid EXCEPT !["run"] = d.pid]
  /\ ltok' = [ltok EXCEPT !["run"] = d.done]
  /\ Go("run", "look")
  /\ UNCHANGED <<osVars, lifeVars, d, regVars, ctlVars, chanVars, op>>

(* The snapshot of a daemon that should be alive: its pid and its done.    *)
HealthSnapshots ==
  /\ Up("run", "idle") /\ ~shutdown
  /\ d.known /\ d.state \in {"starting", "running"}
  /\ lpid' = [lpid EXCEPT !["run"] = d.pid]
  /\ ltok' = [ltok EXCEPT !["run"] = d.done]
  /\ Go("run", "look")
  /\ UNCHANGED <<osVars, lifeVars, d, regVars, ctlVars, chanVars, op>>

HealthSeesLife ==
  /\ Up("run", "look") /\ Alive(lpid["run"])
  /\ Return("run")
  /\ UNCHANGED <<osVars, lifeVars, d, regVars, ctlVars, chanVars>>

(* Not alive (a pid of 0 is not, either): close done unless it is closed.  *)
HealthSeesDeath ==
  /\ Up("run", "look") /\ ~Alive(lpid["run"])
  /\ Close(ltok["run"])
  /\ Go("run", "dead")
  /\ UNCHANGED <<osVars, lifeVars, d, regVars, ctlVars, made, waiters, locVars>>

HealthMarks ==
  /\ Up("run", "dead")
  /\ d' = [d EXCEPT !.state = "crashed"]
  /\ Go("run", "record")
  /\ UNCHANGED <<osVars, lifeVars, regVars, ctlVars, chanVars, locVars>>

HealthPersists ==
  /\ Up("run", "record")
  /\ reg' = IF reg = "none" THEN reg ELSE "crashed"
  /\ Return("run")
  /\ UNCHANGED <<osVars, lifeVars, d, policy, ctlVars, chanVars>>

RunShutsDown ==
  /\ Up("run", "idle") /\ shutdown
  /\ op' = [op EXCEPT !["run"] = "quit"]
  /\ Go("run", "stop")
  /\ UNCHANGED <<osVars, lifeVars, d, regVars, ctlVars, chanVars, lpid, ltok>>

RunReturns ==
  /\ Up("run", "exit")
  /\ SupervisorEnds
  /\ UNCHANGED panicked

(* waitProcess: the process is gone or the supervisor shuts down, and the  *)
(* deferred close runs.  Closing a closed channel panics.                  *)
WaiterReturns(w) ==
  /\ sup = "up" /\ w \in waiters
  /\ shutdown \/ ~Alive(w[1])
  /\ IF w[2] \in closed
     THEN panicked' = TRUE /\ SupervisorEnds
     ELSE /\ waiters' = waiters \ {w}
          /\ Close(w[2])
          /\ UNCHANGED <<osVars, lifeVars, d, regVars, ctlVars, made, pc, locVars>>

-----------------------------------------------------------------------------
(* The supervisor process.                                                 *)

SupervisorCrashes ==
  /\ sup = "up" /\ runs < MaxRuns
  /\ SupervisorEnds
  /\ UNCHANGED panicked

(* The watchdog, the service manager or the next command starts a new one: *)
(* LoadFromRegistry adopts what answers, before anyone is served; a daemon *)
(* that boots or leaves at that moment does not.                           *)
SupervisorStarts ==
  /\ sup = "down" /\ runs < MaxRuns /\ made < MaxStarts
  /\ Note("unseen", Booting \cup Leaving # {})
  /\ sup' = "up" /\ runs' = runs + 1 /\ panicked' = FALSE
  /\ LET active == reg \in {"running", "starting", "reloading", "crashed"}
     IN  IF active /\ Adoptable
         THEN \E tok \in Tokens :
                /\ Make(tok)
                /\ d' = [known |-> TRUE, state |-> "running", pid |-> pidfile,
                         done |-> tok]
                /\ waiters' = {<<pidfile, tok>>}
                /\ reg' = "running"
         ELSE /\ d' = [NoDaemon EXCEPT !.known = (reg # "none"),
                                       !.state = IF active THEN "crashed" ELSE "stopped"]
              /\ UNCHANGED <<made, waiters, reg>>
  /\ UNCHANGED <<osVars, policy, shutdown, closed, pc, locVars>>

-----------------------------------------------------------------------------
Daemons ==
  \E p \in Pids :
    \/ WritesPid(p) \/ Binds(p) \/ BootFails(p) \/ LosesSource(p)
    \/ Unbinds(p) \/ Exits(p) \/ DaemonCrashes(p)

Start(t) ==
  \/ StartChecks(t) \/ StartLooksForOrphan(t) \/ StartAdopts(t) \/ StartCleans(t)
  \/ StartMarks(t) \/ StartSpawns(t) \/ StartCannotSpawn(t) \/ StartSetsPid(t) \/ StartProbes(t)
  \/ StartTimesOut(t) \/ StartGivesUp(t) \/ StartPersists(t) \/ StartFinishes(t)

Stop(t) ==
  \/ StopBegins(t) \/ StopAsks(t) \/ StopTerminates(t) \/ StopWaits(t)
  \/ StopPersists(t)

Command(c) ==
  AsksStart(c) \/ AsksStop(c) \/ AsksRestart(c) \/ AsksReload(c) \/ AsksQuit(c)

Health ==
  \/ HealthSnapshots \/ HealthSeesLife \/ HealthSeesDeath \/ HealthMarks
  \/ HealthPersists \/ HealthSchedules \/ RunShutsDown \/ RunReturns

Next ==
  \/ Daemons
  \/ \E c \in Clients : Command(c)
  \/ \E t \in Threads : Start(t) \/ Stop(t)
  \/ \E b \in Backoffs : BackoffWakes(b)
  \/ Health
  \/ \E w \in waiters : WaiterReturns(w)
  \/ SupervisorCrashes \/ SupervisorStarts

(* Goroutines run, daemons boot and leave; no two of these steps of one    *)
(* goroutine or daemon are ever possible together.  No one has to issue a  *)
(* command, to crash, or to start a supervisor.                            *)
Fairness ==
  /\ \A p \in Pids : WF_vars(WritesPid(p) \/ Binds(p) \/ Unbinds(p) \/ Exits(p))
  /\ \A t \in Threads : WF_vars(Start(t) \/ Stop(t))
  /\ \A b \in Backoffs : WF_vars(BackoffWakes(b))
  /\ WF_vars(Health)
  /\ WF_vars(\E w \in waiters : WaiterReturns(w))

Spec == Init /\ [][Next]_vars /\ Fairness

-----------------------------------------------------------------------------
(* Each variable has its type.  In particular every channel closed or      *)
(* waited on is one that was made: no goroutine closes a nil channel.      *)
TypeOK ==
  /\ ps \in [Pids -> {"none", "forked", "named", "doomed", "serving", "deaf",
                      "closing", "unbound", "zombie", "gone"}]
  /\ child \in [Pids -> BOOLEAN]
  /\ pidfile \in Pids \cup {0} /\ sock \in Pids \cup {0}
  /\ sup \in {"up", "down"} /\ runs \in 1..MaxRuns /\ panicked \in BOOLEAN
  /\ d \in [known : BOOLEAN,
            state : {"stopped", "starting", "running", "stopping", "crashed"},
            pid : Pids \cup {0}, done : Tokens \cup {0}]
  /\ reg \in {"none", "stopped", "starting", "running", "stopping", "crashed"}
  /\ policy \in {"on-crash", "always", "never"}
  /\ shutdown \in BOOLEAN /\ trouble \in Troubles \cup {"none"}
  /\ made \in 0..MaxStarts
  /\ waiters \subseteq (Pids \X Tokens) /\ closed \subseteq Tokens
  /\ lpid \in [Threads -> Pids \cup {0}]
  /\ ltok \in [Threads -> Tokens \cup {0}]
  /\ op \in [Threads -> {"none", "on-crash", "always", "never", "stop", "force",
                         "restart", "quit"}]
  /\ pc \in [Threads -> {"idle", "check", "adopt", "adopted", "clean", "mark",
                         "spawn", "setpid", "probe", "persist", "finish", "giveup",
                         "stop", "ipc", "term", "wait", "unlist", "exit",
                         "sleep", "look", "dead", "record"}]

(* Whatever crashes and restarts, two daemons never watch one project as   *)
(* long as none of the four troubles has come up: Start adopts or stops    *)
(* the old one before it forks (Start, adoptDaemon, cleanStaleDaemonState).*)
OneWatcherPerRoot == trouble = "none" => Cardinality(Watching) <= 1

(* Until then a daemon that watches can be found again by the next         *)
(* supervisor: the pid file and the socket are its own, no exit or cleanup *)
(* of an earlier daemon has removed or replaced them.                      *)
WatcherIsAdoptable ==
  trouble = "none" => \A p \in Watching : sock = p /\ pidfile = p

(* And until then, when Stop has set the state to stopped nothing watches  *)
(* the project any more, whichever process the record named.               *)
StopLeavesNoWatcher ==
  [][\A t \in Threads : /\ pc[t] = "wait" /\ pc'[t] = "unlist"
                        /\ trouble' = "none"
                        => Watching' = {}]_vars

(* What docs/watch-mode.md says without a condition (adoption never forks  *)
(* a second daemon, concurrent starts do not collide): never two watchers. *)
NeverTwo == Cardinality(Watching) <= 1

(* watch-mode.md has Start clean up when the recorded process is gone and  *)
(* the socket is still there: no two watchers come of a stale socket.      *)
StaleIsCleaned == trouble \in {"none", "stale"} => NeverTwo

(* Every command of a client is answered, whatever dies meanwhile.         *)
CommandsReturn == \A c \in Clients : []<>(pc[c] = "idle")

(* The record says running, of a process that is gone; of one that nobody  *)
(* reaps it will say so until the supervisor ends.                         *)
Lost == sup = "up" /\ d.state = "running" /\ d.pid # 0 /\ ps[d.pid] = "gone"

(* The health check notices that a daemon is gone (checkOne).              *)
CrashIsNoticed == []<>~Lost
====
