---- MODULE Watchdog ----
(***************************************************************************)
(* The supervisor and its watchdog as processes of one machine             *)
(* (mekami-cli/internal/supervisor, watchdog.go, sentinel.go, ipc.go;      *)
(* cmd/mekami, commands.go, util.go, service_common.go).  They share four  *)
(* files of the state directory: supervisor.pid, supervisor.sock,          *)
(* watchdog.pid and the stop sentinel.  Each is written without a look at  *)
(* who wrote it before, and removed by name.                               *)
(***************************************************************************)
EXTENDS Naturals, FiniteSets

CONSTANTS
  MaxProcs,   \* bound on the processes ever forked
  MaxMisses,  \* WatchdogMisses
  MaxStarts,  \* bound on the supervisors clients start
  MaxFaults   \* bound on wedges, crashes and calls that fail

ASSUME WatchdogAssumption ==
  /\ MaxProcs \in Nat /\ MaxMisses \in Nat \ {0, 1}
  /\ MaxStarts \in Nat /\ MaxFaults \in Nat

Procs  == 1..MaxProcs
Nobody == 0

SupBoots == {"clear", "write", "fork", "unlink", "listen"}
SupEnds  == {"closing", "sentinel", "signal", "leave"}
SupPCs   == SupBoots \cup {"run"} \cup SupEnds
WdPCs    == {"announce", "look", "tick", "probe", "kill", "sweep", "respawn", "retire"}

VARIABLES
  pc,        \* where each process is
  born,      \* processes forked so far
  misses,    \* a watchdog's misses in a row
  wedged,    \* supervisors that live and do not answer
  all,       \* the quit that ends this supervisor is a quit-all
  supPid,    \* supervisor.pid
  wdPid,     \* watchdog.pid
  sock,      \* the process supervisor.sock leads to
  sentinel,  \* the file stop
  cleaning,  \* an uninstall has yet to remove the files
  stopped,   \* clients want no supervisor, and the last has not crashed leaving
  starts, faults,
  trouble    \* history: what has happened that the code takes no care of

files  == <<supPid, wdPid, sock, sentinel>>
client == <<cleaning, stopped, starts>>
vars   == <<pc, born, misses, wedged, all, files, client, faults, trouble>>

Sup(p)   == pc[p] \in SupPCs
Wd(p)    == pc[p] \in WdPCs
Alive(p) == Sup(p) \/ Wd(p)

(* A watchdog that may still probe, kill or respawn.                       *)
Active(w) == pc[w] \in WdPCs \ {"retire"}

(* From the least to the worst:                                            *)
(* "unwatched": a supervisor runs, or is to run, that no watchdog can look *)
(*   after: a call that only warns has failed, or the watchdog is gone;    *)
(* "slow": a supervisor that boots or leaves misses all but one probe;     *)
(* "second": a client starts a supervisor beside what is left of another.  *)
Rank == [none |-> 0, unwatched |-> 1, slow |-> 2, second |-> 3]
AtWorst(what) == Rank[trouble] <= Rank[what]
Note(what, happens) == trouble' = IF happens /\ AtWorst(what) THEN what ELSE trouble

Init ==
  /\ pc = [p \in Procs |-> "unborn"] /\ born = 0
  /\ misses = [p \in Procs |-> 0] /\ wedged = {} /\ all = {}
  /\ supPid = Nobody /\ wdPid = Nobody /\ sock = Nobody
  /\ sentinel \in BOOLEAN
  /\ cleaning = FALSE /\ stopped = TRUE /\ starts = 0 /\ faults = 0
  /\ trouble = "none"

Goto(p, next) == pc' = [pc EXCEPT ![p] = next]

(* cmd.Start of a detached child; the parent goes on.                      *)
Forks(p, next, child) ==
  /\ born < MaxProcs
  /\ born' = born + 1
  /\ pc' = [pc EXCEPT ![p] = next, ![born + 1] = child]

(* Whoever the socket leads to replies to a ping.                          *)
Answers == sock # Nobody /\ pc[sock] = "run" /\ sock \notin wedged

-----------------------------------------------------------------------------
(* runSupervisorMain.                                                      *)

(* Mutant: the sentinel of an earlier stop stays.                          *)
LeaveSentinel(p) ==
  /\ pc[p] = "clear" /\ Goto(p, "write")
  /\ UNCHANGED <<born, misses, wedged, all, files, client, faults, trouble>>

ClearSentinel(p) ==
  /\ pc[p] = "clear" /\ Goto(p, "write")
  /\ sentinel' = FALSE
  /\ UNCHANGED <<born, misses, wedged, all, supPid, wdPid, sock, client, faults, trouble>>

WritePID(p) ==
  /\ pc[p] = "write" /\ Goto(p, "fork")
  /\ supPid' = p
  /\ UNCHANGED <<born, misses, wedged, all, wdPid, sock, sentinel, client, faults, trouble>>

StartWatchdog(p) ==
  /\ pc[p] = "fork" /\ Forks(p, "unlink", "announce")
  /\ UNCHANGED <<misses, wedged, all, files, client, faults, trouble>>

(* NewSupervisor, LoadFromRegistry, then startIPCServerAt: first the stale *)
(* socket goes, whoever listens on it.                                     *)
Unlink(p) ==
  /\ pc[p] = "unlink" /\ Goto(p, "listen")
  /\ sock' = Nobody
  /\ UNCHANGED <<born, misses, wedged, all, supPid, wdPid, sentinel, client, faults, trouble>>

Listen(p) ==
  /\ pc[p] = "listen" /\ sock = Nobody /\ Goto(p, "run")
  /\ sock' = p
  /\ UNCHANGED <<born, misses, wedged, all, supPid, wdPid, sentinel, client, faults, trouble>>

(* No state, or no socket: another one may have been bound meanwhile.      *)
BootFails(p) ==
  /\ pc[p] = "listen" /\ Goto(p, "leave")
  /\ IF sock = Nobody THEN faults < MaxFaults /\ faults' = faults + 1
                      ELSE UNCHANGED faults
  /\ UNCHANGED <<born, misses, wedged, all, files, client, trouble>>

(* handle: quit and quit-all close the listener and remove the socket      *)
(* before they are dispatched.  Both then stop the daemons, one after the  *)
(* other (shutdownAll, HandleQuitAll).                                     *)
Quit(p, hard) ==
  /\ sock = p /\ Answers /\ Goto(p, "closing")
  /\ sock' = Nobody
  /\ all' = IF hard THEN all \cup {p} ELSE all
  /\ cleaning' = (cleaning \/ hard) /\ stopped' = TRUE
  /\ UNCHANGED <<born, misses, wedged, supPid, wdPid, sentinel, starts, faults, trouble>>

DaemonsStopped(p) ==
  /\ pc[p] = "closing" /\ Goto(p, IF p \in all THEN "sentinel" ELSE "leave")
  /\ UNCHANGED <<born, misses, wedged, all, files, client, faults, trouble>>

SetSentinel(p) ==
  /\ pc[p] = "sentinel" /\ Goto(p, "signal")
  /\ sentinel' = TRUE
  /\ UNCHANGED <<born, misses, wedged, all, supPid, wdPid, sock, client, faults, trouble>>

Killed(p, by, next) ==
  pc' = [q \in Procs |-> IF q = by THEN next
                         ELSE IF q = p /\ Alive(q) THEN "dead" ELSE pc[q]]

(* SignalWatchdog sends os.Kill to the process watchdog.pid names.         *)
SignalWatchdog(p) ==
  /\ pc[p] = "signal" /\ Killed(wdPid, p, "leave")
  /\ UNCHANGED <<born, misses, wedged, all, files, client, faults, trouble>>

(* The deferred os.Remove of supervisor.pid.                               *)
Leave(p) ==
  /\ pc[p] = "leave" /\ Goto(p, "dead")
  /\ supPid' = Nobody
  /\ UNCHANGED <<born, misses, wedged, all, wdPid, sock, sentinel, client, faults, trouble>>

(* Clearing or setting the sentinel, writing a pid file, forking the       *)
(* watchdog or, in the watchdog, the supervisor may fail: a line is logged *)
(* or goes to a stderr nobody reads, and the caller goes on.  A file that  *)
(* cannot be written may have been emptied.                                *)
Fails(p, at, next) ==
  /\ pc[p] = at /\ Goto(p, next)
  /\ IF at \in {"fork", "respawn"} /\ born = MaxProcs THEN UNCHANGED faults
     ELSE faults < MaxFaults /\ faults' = faults + 1
  /\ Note("unwatched", (at = "clear" /\ sentinel) \/ at \in {"write", "fork", "respawn"})
  /\ supPid' \in IF at = "write" THEN {supPid, Nobody} ELSE {supPid}
  /\ wdPid' \in IF at = "announce" THEN {wdPid, Nobody} ELSE {wdPid}
  /\ UNCHANGED <<born, misses, wedged, all, sock, sentinel, client>>

Warns(p) ==
  \/ Fails(p, "clear", "write") \/ Fails(p, "write", "fork") \/ Fails(p, "fork", "unlink")
  \/ Fails(p, "sentinel", "signal")
  \/ Fails(p, "announce", "look") \/ Fails(p, "respawn", "retire")

SupStep(p) ==
  \/ ClearSentinel(p) \/ WritePID(p) \/ StartWatchdog(p) \/ Unlink(p)
  \/ Listen(p) \/ BootFails(p)
  \/ DaemonsStopped(p) \/ SetSentinel(p) \/ SignalWatchdog(p) \/ Leave(p)

(* A supervisor that is alive and will never answer again.                 *)
Wedge(p) ==
  /\ pc[p] = "run" /\ p \notin wedged /\ faults < MaxFaults
  /\ wedged' = wedged \cup {p} /\ faults' = faults + 1
  /\ UNCHANGED <<pc, born, misses, all, files, client, trouble>>

(* SIGKILL, SIGTERM (which it does not handle) or a panic: all files stay. *)
Crash(p) ==
  /\ Sup(p) /\ p \notin wedged /\ faults < MaxFaults
  /\ Goto(p, "dead") /\ faults' = faults + 1
  /\ stopped' = (stopped /\ pc[p] \notin SupEnds)
  /\ UNCHANGED <<born, misses, wedged, all, files, cleaning, starts, trouble>>

-----------------------------------------------------------------------------
(* runWatchdogMain and watchdogRunTuned.                                   *)

Announce(w) ==
  /\ pc[w] = "announce" /\ Goto(w, "look")
  /\ wdPid' = w
  /\ UNCHANGED <<born, misses, wedged, all, supPid, sock, sentinel, client, faults, trouble>>

Look(w) ==
  /\ pc[w] = "look" /\ Goto(w, IF sentinel THEN "retire" ELSE "tick")
  /\ UNCHANGED <<born, misses, wedged, all, files, client, faults, trouble>>

Gone == supPid = Nobody \/ ~Alive(supPid)

(* Mutant: a supervisor that is gone is probed like one that is wedged.    *)
TickProbesTheGone(w) ==
  /\ pc[w] = "tick" /\ Goto(w, IF sentinel THEN "retire" ELSE "probe")
  /\ UNCHANGED <<born, misses, wedged, all, files, client, faults, trouble>>

(* Mutant: a missing supervisor is waited for.                             *)
TickWaits(w) ==
  /\ pc[w] = "tick" /\ ~Gone /\ Goto(w, IF sentinel THEN "retire" ELSE "probe")
  /\ UNCHANGED <<born, misses, wedged, all, files, client, faults, trouble>>

(* A tick: the sentinel, then the pid file and the process it names.       *)
Tick(w) ==
  /\ pc[w] = "tick" /\ Goto(w, IF sentinel \/ Gone THEN "retire" ELSE "probe")
  /\ UNCHANGED <<born, misses, wedged, all, files, client, faults, trouble>>

ProbeAnswered(w) ==
  /\ pc[w] = "probe" /\ Answers /\ Goto(w, "tick")
  /\ misses' = [misses EXCEPT ![w] = 0]
  /\ UNCHANGED <<born, wedged, all, files, client, faults, trouble>>

(* Mutant: a process that is alive is good enough.                         *)
ProbeMissedIsIgnored(w) ==
  /\ pc[w] = "probe" /\ ~Answers /\ Goto(w, "tick")
  /\ UNCHANGED <<born, misses, wedged, all, files, client, faults, trouble>>

(* A supervisor that boots or leaves has all but one of the intervals for  *)
(* it, 25 of the watchdog's 30 seconds: nothing keeps it to them.          *)
ProbeMissed(w) ==
  /\ pc[w] = "probe" /\ ~Answers
  /\ Note("slow", misses[w] + 2 >= MaxMisses
                    /\ \E p \in Procs : pc[p] \in SupBoots \cup SupEnds)
  /\ misses' = [misses EXCEPT ![w] = @ + 1]
  /\ Goto(w, IF misses[w] + 1 < MaxMisses THEN "tick" ELSE "kill")
  /\ UNCHANGED <<born, wedged, all, files, client, faults>>

(* The pid file is read again: SIGKILL for whoever it names by now.        *)
Kill(w) ==
  /\ pc[w] = "kill" /\ Killed(supPid, w, "sweep")
  /\ UNCHANGED <<born, misses, wedged, all, files, client, faults, trouble>>

Sweep(w) ==
  /\ pc[w] = "sweep" /\ Goto(w, "respawn")
  /\ sock' = Nobody
  /\ UNCHANGED <<born, misses, wedged, all, supPid, wdPid, sentinel, client, faults, trouble>>

Respawn(w) ==
  /\ pc[w] = "respawn" /\ Forks(w, "retire", "clear")
  /\ UNCHANGED <<misses, wedged, all, files, client, faults, trouble>>

(* SIGKILL, or SIGTERM, which runs the deferred call.                      *)
WatchdogDies(w) ==
  /\ Active(w) /\ faults < MaxFaults /\ faults' = faults + 1
  /\ \E next \in {"retire", "dead"} : Goto(w, next)
  /\ Note("unwatched", TRUE)
  /\ UNCHANGED <<born, misses, wedged, all, files, client>>

(* The deferred RemoveWatchdogPID, whose pid the file may hold by now.     *)
Retire(w) ==
  /\ pc[w] = "retire" /\ Goto(w, "dead")
  /\ wdPid' = Nobody
  /\ UNCHANGED <<born, misses, wedged, all, supPid, sock, sentinel, client, faults, trouble>>

WdStep(w) ==
  \/ Announce(w) \/ Look(w) \/ Tick(w) \/ ProbeAnswered(w) \/ ProbeMissed(w)
  \/ Kill(w) \/ Sweep(w) \/ Respawn(w) \/ Retire(w)

-----------------------------------------------------------------------------
(* Clients: ensureSupervisor and service uninstall.                        *)

(* The ping fails, a supervisor is forked, whatever else is running: one   *)
(* that boots, leaves or hangs, an uninstall that is cleaning up, or the   *)
(* watchdog of one that has crashed.                                       *)
ClientStarts ==
  /\ ~Answers /\ starts < MaxStarts /\ born < MaxProcs
  /\ Note("second", cleaning \/ \E p \in Procs : Sup(p) \/ Active(p))
  /\ born' = born + 1 /\ pc' = [pc EXCEPT ![born + 1] = "clear"]
  /\ starts' = starts + 1 /\ stopped' = FALSE
  /\ UNCHANGED <<misses, wedged, all, files, cleaning, faults>>

(* cleanupSupervisorRuntimeState: after the reply to quit-all and a wait,  *)
(* both of them limited.                                                   *)
Cleanup ==
  /\ cleaning /\ cleaning' = FALSE
  /\ supPid' = Nobody /\ wdPid' = Nobody /\ sock' = Nobody /\ sentinel' = FALSE
  /\ UNCHANGED <<pc, born, misses, wedged, all, stopped, starts, faults, trouble>>

Next ==
  \/ \E p \in Procs : SupStep(p) \/ Warns(p) \/ Wedge(p) \/ Crash(p)
  \/ \E p \in Procs, hard \in BOOLEAN : Quit(p, hard)
  \/ \E w \in Procs : WdStep(w) \/ WatchdogDies(w)
  \/ ClientStarts \/ Cleanup

(* Processes run; a ping is answered, or not, in two seconds; stopping the *)
(* daemons takes an end (Supervisor); an uninstall ends.                   *)
Fairness ==
  /\ \A p \in Procs : WF_vars(SupStep(p)) /\ WF_vars(WdStep(p))
  /\ WF_vars(Cleanup)

Spec == Init /\ [][Next]_vars /\ Fairness

-----------------------------------------------------------------------------
TypeOK ==
  /\ pc \in [Procs -> SupPCs \cup WdPCs \cup {"unborn", "dead"}]
  /\ born \in 0..MaxProcs
  /\ misses \in [Procs -> 0..MaxMisses]
  /\ wedged \subseteq Procs /\ all \subseteq Procs
  /\ supPid \in Procs \cup {Nobody} /\ wdPid \in Procs \cup {Nobody}
  /\ sock \in Procs \cup {Nobody}
  /\ sentinel \in BOOLEAN /\ cleaning \in BOOLEAN /\ stopped \in BOOLEAN
  /\ starts \in 0..MaxStarts /\ faults \in 0..MaxFaults
  /\ trouble \in DOMAIN Rank

(* There are never two supervisors: the watchdog kills the one it replaces *)
(* before it forks the next.                                               *)
OneSupervisor == \A p, q \in Procs : Sup(p) /\ Sup(q) => p = q

(* A supervisor that serves has a watchdog that goes on probing it, stale  *)
(* sentinels and pid files of earlier runs notwithstanding.                *)
Guarded ==
  \A p \in Procs : pc[p] = "run" =>
    supPid = p /\ \E w \in Procs : Wd(w) /\ pc[w] \notin {"retire", "respawn"}

(* The supervisor that runs is the only one, the pid file names it, and a  *)
(* watchdog that will not leave probes it.  It stays the only one whatever *)
(* call fails, and is guarded until one does that it needs for that, as    *)
(* long as clients start it beside no other and it boots and leaves before *)
(* the watchdog's last interval.                                           *)
OneGuardedSupervisor ==
  /\ TypeOK
  /\ AtWorst("unwatched") => OneSupervisor
  /\ trouble = "none" => Guarded

(* A stop that was accepted is final: nobody brings a supervisor up again  *)
(* before a client asks for one.                                           *)
Final == stopped => \A p \in Procs : pc[p] \notin SupBoots \cup {"run"}

(* That is so whatever call fails, the sentinel's included, until one of   *)
(* the two things happens that the pid file and the sentinel do not cover. *)
StopIsFinal == AtWorst("unwatched") => Final

(* What HandleQuitAll says of it, a stop that takes its time included.     *)
StopIsFinalWhenSlow == AtWorst("slow") => Final

(* A supervisor that hangs is killed, and another one started.             *)
Hangs == \E p \in Procs : p \in wedged /\ Alive(p)

WedgedIsReplaced ==
  Hangs ~> (~Hangs /\ \E q \in Procs : pc[q] = "clear") \/ trouble # "none"

(* Watchdogs do not outlive the supervisors, whatever call fails.          *)
WatchdogsLeave ==
  (AtWorst("unwatched") /\ \A p \in Procs : ~Sup(p)) ~>
    ((\A p \in Procs : ~Wd(p)) \/ \E p \in Procs : Sup(p))
====
