---- MODULE SupervisorProofs ----
(***************************************************************************)
(* What holds of Supervisor for any number of clients, restart goroutines, *)
(* starts and supervisor lives, whether commands overlap or not and the    *)
(* dead are reaped or not; and, in the last part, of the Registry that holds its table.  *)
(*                                                                         *)
(* That no goroutine uses a pid or a done channel it does not have is not  *)
(* inductive by itself: References says at which places of the code each   *)
(* local, and the record's own done, has been set, and that no goroutine   *)
(* outlives its supervisor.                                                *)
(***************************************************************************)
EXTENDS Supervisor, Registry, TLAPS, FiniteSetTheorems, SequenceTheorems

(* Where a thread relies on its locals, when the record has a done, and    *)
(* that there are no threads without a supervisor.                         *)
References ==
  /\ \A t \in Threads :
       /\ pc[t] \in {"adopted", "setpid", "probe", "persist", "finish", "giveup"}
            => lpid[t] \in Pids
       /\ pc[t] \in {"spawn", "setpid", "probe", "persist", "finish"}
            => ltok[t] \in Tokens /\ d.done \in Tokens
       /\ pc[t] = "look" => ltok[t] \in Tokens
       /\ pc[t] \in {"sleep", "check", "adopt", "adopted", "clean", "mark", "spawn",
                    "setpid", "probe", "persist"}
            => op[t] \in {"on-crash", "always", "never"}
  /\ d.state \in {"starting", "running"} => d.done \in Tokens
  /\ sup = "down" => \A t \in Threads : pc[t] = "idle"

IInv == TypeOK /\ References

(* The supervisor starts with nothing.                                     *)
LEMMA InitIInv == Init => IInv
  <1> SUFFICES ASSUME Init PROVE IInv
    OBVIOUS
  <1>1. d \in [known : BOOLEAN,
              state : {"stopped", "starting", "running", "stopping", "crashed"},
              pid : Pids \cup {0}, done : Tokens \cup {0}] /\ d.state = "stopped"
    BY DEF Init, NoDaemon
  <1>2. \A t \in Threads : pc[t] = "idle"
    BY DEF Init
  <1>3. References
    BY <1>1, <1>2 DEF References, Init
  <1>4. 1 \in 1..MaxRuns /\ 0 \in 0..MaxStarts
    BY BoundsAssumption
  <1>5. TypeOK
    BY <1>1, <1>4 DEF Init, TypeOK
  <1> QED
    BY <1>3, <1>5 DEF IInv

(* A daemon changes nothing the supervisor holds in memory.                *)
LEMMA DaemonsIInv ==
  ASSUME IInv, NEW p \in Pids,
         \/ WritesPid(p) \/ Binds(p) \/ BootFails(p) \/ LosesSource(p)
         \/ Unbinds(p) \/ Exits(p) \/ DaemonCrashes(p)
  PROVE  IInv'
  <1> USE DEF IInv, TypeOK, References, lifeVars, regVars, ctlVars, chanVars, locVars
  <1>1. CASE WritesPid(p)
    BY <1>1 DEF WritesPid
  <1>2. CASE Binds(p)
    BY <1>2 DEF Binds
  <1>3. CASE BootFails(p)
    BY <1>3 DEF BootFails, Dead
  <1>4. CASE LosesSource(p)
    BY <1>4 DEF LosesSource
  <1>5. CASE Unbinds(p)
    BY <1>5 DEF Unbinds
  <1>6. CASE Exits(p)
    BY <1>6 DEF Exits, Dead
  <1>7. CASE DaemonCrashes(p)
    BY <1>7 DEF DaemonCrashes, Dead
  <1> QED
    BY <1>1, <1>2, <1>3, <1>4, <1>5, <1>6, <1>7

(* Start.                                                                  *)
LEMMA StartIInv ==
  ASSUME IInv, NEW t \in Threads, Start(t)
  PROVE  IInv'
  <1> USE DEF IInv, TypeOK, References, osVars, lifeVars, regVars, ctlVars, chanVars, locVars, Up, Go, Return, Make, Note, Troubles
  <1>1. CASE StartChecks(t)
    <2>1. CASE d.state \in {"running", "starting"}
      BY <1>1, <2>1 DEF StartChecks
    <2>2. CASE d.state \notin {"running", "starting"}
      <3>1. /\ d' = [d EXCEPT !.known = TRUE]
            /\ pc' = [pc EXCEPT ![t] = "adopt"]
            /\ sup = "up" /\ pc[t] = "check"
            /\ UNCHANGED <<osVars, lifeVars, regVars, ctlVars, chanVars, locVars>>
        BY <1>1, <2>2 DEF StartChecks
      <3>2. References'
        BY <3>1
      <3>3. TypeOK'
        <4> HIDE DEF References
        <4>1. d' \in [known : BOOLEAN,
                     state : {"stopped", "starting", "running", "stopping", "crashed"},
                     pid : Pids \cup {0}, done : Tokens \cup {0}]
          BY <3>1
        <4> QED BY <3>1, <4>1
      <3> QED
        BY <3>2, <3>3
    <2> QED
      BY <2>1, <2>2
  <1>2. CASE StartLooksForOrphan(t)
    BY <1>2 DEF StartLooksForOrphan, Adoptable, Alive
  <1>3. CASE StartAdopts(t)
    <2>1. PICK tok \in Tokens :
            /\ Make(tok)
            /\ d' = [known |-> TRUE, state |-> "running", pid |-> lpid[t],
                     done |-> tok]
            /\ waiters' = waiters \cup {<<lpid[t], tok>>}
      BY <1>3 DEF StartAdopts
    <2>2. lpid[t] \in Pids
      BY <1>3 DEF StartAdopts
    <2>3. made' \in 0..MaxStarts
      BY <2>1 DEF Tokens
    <2>4. /\ waiters' \subseteq (Pids \X Tokens)
          /\ d' \in [known : BOOLEAN,
                    state : {"stopped", "starting", "running", "stopping", "crashed"},
                    pid : Pids \cup {0}, done : Tokens \cup {0}]
          /\ d'.done \in Tokens
      BY <2>1, <2>2
    <2>5. \A u \in Threads :
            /\ pc'[u] = IF u = t THEN "idle" ELSE pc[u]
            /\ op'[u] = IF u = t THEN "none" ELSE op[u]
            /\ lpid'[u] = IF u = t THEN 0 ELSE lpid[u]
            /\ ltok'[u] = IF u = t THEN 0 ELSE ltok[u]
      BY <1>3 DEF StartAdopts
    <2>6. sup' = "up"
      BY <1>3 DEF StartAdopts
    <2>7. References'
      BY <2>4, <2>5, <2>6
    <2>8. policy' \in {"on-crash", "always", "never"}
      BY <1>3 DEF StartAdopts
    <2>9. TypeOK'
      BY <1>3, <2>3, <2>4, <2>8 DEF StartAdopts
    <2> QED
      BY <2>7, <2>9
  <1>4. CASE StartCleans(t)
    BY <1>4 DEF StartCleans
  <1>5. CASE StartMarks(t)
    <2>1. PICK tok \in Tokens :
            /\ Make(tok)
            /\ d' = [d EXCEPT !.state = "starting", !.done = tok]
            /\ ltok' = [ltok EXCEPT ![t] = tok]
      BY <1>5 DEF StartMarks
    <2>2. made' \in 0..MaxStarts
      BY <2>1 DEF Tokens
    <2>3. /\ d' \in [known : BOOLEAN,
                    state : {"stopped", "starting", "running", "stopping", "crashed"},
                    pid : Pids \cup {0}, done : Tokens \cup {0}]
          /\ d'.done \in Tokens
      BY <2>1
    <2>4. \A u \in Threads :
            /\ pc'[u] = IF u = t THEN "spawn" ELSE pc[u]
            /\ op'[u] = op[u]
            /\ ltok'[u] = IF u = t THEN tok ELSE ltok[u]
            /\ lpid'[u] = lpid[u]
      BY <1>5, <2>1 DEF StartMarks
    <2>5. sup' = "up" /\ pc[t] = "mark"
      BY <1>5 DEF StartMarks
    <2>6. References'
      BY <2>3, <2>4, <2>5
    <2>7. TypeOK'
      BY <1>5, <2>1, <2>2, <2>3 DEF StartMarks
    <2> QED
      BY <2>6, <2>7
  <1>6. CASE StartSpawns(t)
    <2>1. PICK p \in Pids, u \in BOOLEAN :
            /\ ps' = [ps EXCEPT ![p] = "forked"] /\ child' = [child EXCEPT ![p] = u]
            /\ lpid' = [lpid EXCEPT ![t] = p] /\ pc' = [pc EXCEPT ![t] = "setpid"]
            /\ sup = "up" /\ pc[t] = "spawn"
            /\ UNCHANGED <<pidfile, sock, lifeVars, d, regVars, ctlVars, chanVars, op, ltok>>
      BY <1>6, EnvAssumption DEF StartSpawns
    <2>2. TypeOK'
      <3> HIDE DEF References
      <3> QED BY <2>1
    <2>3. References'
      BY <2>1
    <2> QED BY <2>2, <2>3
  <1>7. CASE StartCannotSpawn(t)
    BY <1>7 DEF StartCannotSpawn
  <1>8. CASE StartSetsPid(t)
    BY <1>8 DEF StartSetsPid
  <1>9. CASE StartProbes(t)
    BY <1>9 DEF StartProbes
  <1>10. CASE StartTimesOut(t)
    BY <1>10 DEF StartTimesOut
  <1>11. CASE StartGivesUp(t)
    BY <1>11 DEF StartGivesUp, Terminate, AfterTerm, Dead
  <1>12. CASE StartPersists(t)
    BY <1>12 DEF StartPersists
  <1>13. CASE StartFinishes(t)
    BY <1>13 DEF StartFinishes
  <1> QED
    BY <1>1, <1>2, <1>3, <1>4, <1>5, <1>6, <1>7, <1>8, <1>9, <1>10, <1>11, <1>12, <1>13 DEF Start

(* Stop.                                                                   *)
LEMMA StopIInv ==
  ASSUME IInv, NEW t \in Threads, Stop(t)
  PROVE  IInv'
  <1> USE DEF IInv, TypeOK, References, osVars, lifeVars, regVars, ctlVars, chanVars, locVars, Up, Go, Return, StopReturns
  <1>1. CASE StopBegins(t)
    BY <1>1 DEF StopBegins
  <1>2. CASE StopAsks(t)
    BY <1>2 DEF StopAsks, Answers
  <1>3. CASE StopTerminates(t)
    BY <1>3 DEF StopTerminates, Terminate, AfterTerm, Dead, Alive
  <1>4. CASE StopWaits(t)
    <2>1. /\ ps' = IF Alive(lpid[t]) THEN [ps EXCEPT ![lpid[t]] = AfterKill(lpid[t])] ELSE ps
          /\ d' = [d EXCEPT !.state = "stopped", !.pid = 0]
          /\ pc' = [pc EXCEPT ![t] = "unlist"] /\ sup = "up"
          /\ UNCHANGED <<child, pidfile, sock, lifeVars, regVars, ctlVars, chanVars, locVars>>
      BY <1>4 DEF StopWaits
    <2>2. \A p \in Pids : AfterKill(p) \in {"none", "gone", "zombie"}
      BY DEF AfterKill, Dead
    <2>3. ps' \in [Pids -> {"none", "forked", "named", "doomed", "serving", "deaf",
                           "closing", "unbound", "zombie", "gone"}]
      <3> DEFINE Phases == {"none", "forked", "named", "doomed", "serving", "deaf",
                            "closing", "unbound", "zombie", "gone"}
      <3>1. ps \in [Pids -> Phases] /\ \A p \in Pids : AfterKill(p) \in Phases
        BY <2>2
      <3>2. CASE Alive(lpid[t])
        BY <2>1, <3>1, <3>2 DEF Alive
      <3>3. CASE ~Alive(lpid[t])
        BY <2>1, <3>1, <3>3
      <3> QED BY <3>2, <3>3
    <2>4. References'
      BY <2>1
    <2>5. TypeOK'
      <3> HIDE DEF References
      <3>1. d' \in [known : BOOLEAN,
                   state : {"stopped", "starting", "running", "stopping", "crashed"},
                   pid : Pids \cup {0}, done : Tokens \cup {0}]
        BY <2>1
      <3> QED BY <2>1, <2>3, <3>1
    <2> QED BY <2>4, <2>5
  <1>5. CASE StopPersists(t)
    BY <1>5 DEF StopPersists
  <1> QED
    BY <1>1, <1>2, <1>3, <1>4, <1>5 DEF Stop

(* What a client may ask for, and the wake-up of a restart goroutine.      *)
LEMMA RequestIInv ==
  ASSUME IInv, NEW c \in Clients, Command(c)
  PROVE  IInv'
  <1> USE DEF IInv, TypeOK, References, osVars, lifeVars, regVars, ctlVars, chanVars, locVars, Up, Go, Threads, Begins, Note, Troubles
  <1>1. CASE AsksStart(c)
    BY <1>1, EnvAssumption DEF AsksStart, Request
  <1>2. CASE AsksStop(c)
    BY <1>2 DEF AsksStop, Request
  <1>3. CASE AsksRestart(c)
    BY <1>3 DEF AsksRestart, Request
  <1>4. CASE AsksReload(c)
    BY <1>4 DEF AsksReload
  <1>5. CASE AsksQuit(c)
    BY <1>5 DEF AsksQuit
  <1> QED
    BY <1>1, <1>2, <1>3, <1>4, <1>5 DEF Command

LEMMA BackoffIInv ==
  ASSUME IInv, NEW b \in Backoffs, BackoffWakes(b)
  PROVE  IInv'
  BY DEF IInv, TypeOK, References, osVars, lifeVars, regVars, ctlVars, chanVars, locVars, Up, Go,
         Return, Threads, BackoffWakes, Begins, Note, Troubles

(* The end of a supervisor leaves no goroutine and no record behind.       *)
LEMMA EndIInv ==
  ASSUME IInv, SupervisorEnds, panicked' \in BOOLEAN
  PROVE  IInv'
  <1>1. d' \in [known : BOOLEAN,
               state : {"stopped", "starting", "running", "stopping", "crashed"},
               pid : Pids \cup {0}, done : Tokens \cup {0}] /\ d'.state = "stopped"
    BY DEF SupervisorEnds, NoDaemon
  <1>2. \A t \in Threads : pc'[t] = "idle"
    BY DEF SupervisorEnds
  <1>3. References'
    BY <1>1, <1>2 DEF References
  <1>4. TypeOK'
    BY <1>1 DEF SupervisorEnds, IInv, TypeOK, regVars
  <1> QED
    BY <1>3, <1>4 DEF IInv

(* The Run goroutine.                                                      *)
LEMMA HealthIInv ==
  ASSUME IInv, Health
  PROVE  IInv'
  <1> USE DEF IInv, TypeOK, References, osVars, lifeVars, regVars, ctlVars, chanVars, locVars, Up, Go, Return, Threads
  <1>1. CASE HealthSnapshots
    BY <1>1 DEF HealthSnapshots
  <1>2. CASE HealthSeesLife
    BY <1>2 DEF HealthSeesLife
  <1>3. CASE HealthSeesDeath
    BY <1>3 DEF HealthSeesDeath, Close
  <1>4. CASE HealthMarks
    BY <1>4 DEF HealthMarks
  <1>5. CASE HealthPersists
    BY <1>5 DEF HealthPersists
  <1>6. CASE HealthSchedules
    <2>1. PICK b \in Backoffs : /\ pc[b] = "idle" /\ pc' = [pc EXCEPT ![b] = "sleep"]
                               /\ op' = [op EXCEPT ![b] = policy]
      BY <1>6 DEF HealthSchedules
    <2>2. References'
      BY <1>6, <2>1 DEF HealthSchedules
    <2>3. TypeOK'
      BY <1>6, <2>1 DEF HealthSchedules
    <2> QED
      BY <2>2, <2>3
  <1>7. CASE RunShutsDown
    BY <1>7 DEF RunShutsDown
  <1>8. CASE RunReturns
    BY <1>8, EndIInv DEF RunReturns
  <1> QED
    BY <1>1, <1>2, <1>3, <1>4, <1>5, <1>6, <1>7, <1>8 DEF Health

(* waitProcess closes the channel it was given.                            *)
LEMMA WaiterIInv ==
  ASSUME IInv, NEW w \in waiters, WaiterReturns(w)
  PROVE  IInv'
  <1>1. CASE w[2] \in closed
    BY <1>1, EndIInv DEF WaiterReturns
  <1>2. CASE w[2] \notin closed
    <2>1. w[2] \in Tokens
      BY DEF IInv, TypeOK
    <2> QED
      BY <1>2, <2>1 DEF WaiterReturns, Close, IInv, TypeOK, References, osVars, lifeVars, regVars,
                        ctlVars, locVars
  <1> QED
    BY <1>1, <1>2

(* A new supervisor, with or without an orphan to adopt.                   *)
LEMMA SupervisorStartsIInv ==
  ASSUME IInv, SupervisorStarts
  PROVE  IInv'
  <1> DEFINE active == reg \in {"running", "starting", "reloading", "crashed"}
  <1>1. runs' \in 1..MaxRuns /\ sup' = "up" /\ panicked' = FALSE
    BY BoundsAssumption DEF SupervisorStarts, IInv, TypeOK
  <1>0. trouble' \in Troubles \cup {"none"}
    BY DEF SupervisorStarts, Note, Troubles, IInv, TypeOK
  <1>2. CASE active /\ Adoptable
    <2>1. PICK tok \in Tokens :
            /\ Make(tok)
            /\ d' = [known |-> TRUE, state |-> "running", pid |-> pidfile,
                     done |-> tok]
            /\ waiters' = {<<pidfile, tok>>}
            /\ reg' = "running"
      BY <1>2 DEF SupervisorStarts
    <2>2. pidfile \in Pids
      BY <1>2 DEF Adoptable, Alive, IInv, TypeOK
    <2>3. made' \in 0..MaxStarts
      BY <2>1 DEF Make, Tokens
    <2>4. /\ waiters' \subseteq (Pids \X Tokens)
          /\ d' \in [known : BOOLEAN,
                    state : {"stopped", "starting", "running", "stopping", "crashed"},
                    pid : Pids \cup {0}, done : Tokens \cup {0}]
          /\ d'.done \in Tokens
      BY <2>1, <2>2
    <2>5. UNCHANGED <<osVars, policy, shutdown, closed, pc, locVars>>
      BY DEF SupervisorStarts
    <2>6. References'
      BY <1>1, <2>4, <2>5 DEF IInv, References, locVars
    <2>7. reg' \in {"none", "stopped", "starting", "running", "stopping", "crashed"}
      BY <2>1
    <2>8. TypeOK'
      BY <1>0, <1>1, <2>3, <2>4, <2>5, <2>7 DEF IInv, TypeOK, osVars, locVars
    <2> QED
      BY <2>6, <2>8 DEF IInv
  <1>3. CASE ~(active /\ Adoptable)
    <2>1. /\ d' = [NoDaemon EXCEPT !.known = (reg # "none"),
                                   !.state = IF active THEN "crashed" ELSE "stopped"]
          /\ UNCHANGED <<made, waiters, reg>>
      BY <1>3 DEF SupervisorStarts
    <2>2. /\ d' \in [known : BOOLEAN,
                    state : {"stopped", "starting", "running", "stopping", "crashed"},
                    pid : Pids \cup {0}, done : Tokens \cup {0}]
          /\ d'.state \in {"crashed", "stopped"}
      BY <2>1 DEF NoDaemon
    <2>3. TypeOK'
      BY <1>0, <1>1, <2>1, <2>2 DEF SupervisorStarts, IInv, TypeOK, osVars, locVars
    <2>4. References'
      BY <1>1, <2>1, <2>2 DEF SupervisorStarts, IInv, TypeOK, References, locVars
    <2> QED BY <2>3, <2>4 DEF IInv
  <1> QED
    BY <1>2, <1>3

LEMMA NextIInv == IInv /\ [Next]_vars => IInv'
  <1> SUFFICES ASSUME IInv, [Next]_vars PROVE IInv'
    OBVIOUS
  <1>1. CASE Daemons
    BY <1>1, DaemonsIInv DEF Daemons
  <1>2. CASE \E c \in Clients : Command(c)
    BY <1>2, RequestIInv
  <1>3. CASE \E t \in Threads : Start(t) \/ Stop(t)
    BY <1>3, StartIInv, StopIInv
  <1>4. CASE \E b \in Backoffs : BackoffWakes(b)
    BY <1>4, BackoffIInv
  <1>5. CASE Health
    BY <1>5, HealthIInv
  <1>6. CASE \E w \in waiters : WaiterReturns(w)
    BY <1>6, WaiterIInv
  <1>7. CASE SupervisorCrashes
    BY <1>7, EndIInv DEF SupervisorCrashes, IInv, TypeOK
  <1>8. CASE SupervisorStarts
    BY <1>8, SupervisorStartsIInv
  <1>9. CASE UNCHANGED vars
    BY <1>9 DEF vars, osVars, lifeVars, regVars, ctlVars, chanVars, locVars, IInv, TypeOK, References
  <1> QED
    BY <1>1, <1>2, <1>3, <1>4, <1>5, <1>6, <1>7, <1>8, <1>9 DEF Next

(* In every environment, however commands, restarts and crashes overlap,   *)
(* the supervisor never signals, waits on or closes a pid or a channel it  *)
(* does not have: no nil channel is ever closed (Start, waitProcess,       *)
(* checkOne, tryAdopt).                                                    *)
THEOREM TypeCorrect == Spec => []TypeOK
  <1>1. IInv => TypeOK
    BY DEF IInv
  <1> QED
    BY InitIInv, NextIInv, <1>1, PTL DEF Spec

-----------------------------------------------------------------------------
(***************************************************************************)
(* That a project never has two watchers before trouble comes up, for any  *)
(* number of clients, restart goroutines, starts and supervisor lives:     *)
(* what Start, adoptDaemon, cleanStaleDaemonState and Stop achieve         *)
(* together.                                                               *)
(*                                                                         *)
(* At most one daemon lives (OneAlive).  For a Start that finds nothing to *)
(* adopt this means that nothing lives, so a living daemon must never be   *)
(* in a phase that adoption does not recognise while a Start looks:        *)
(* booting ones are waited for (BootsAttended), leaving ones are waited    *)
(* for or known (EndsAttended).  For a Stop it means that the pid it holds *)
(* is the one that lives (Knows, Owned), whatever the health check, whose  *)
(* snapshots may be old, has made of the record's state meanwhile.  Each   *)
(* of the four troubles ends one of these: overlap OneAtATime, timeout and *)
(* unseen BootsAttended, stale the empty socket that Knows gives a probe.  *)
(***************************************************************************)
NoTrouble == trouble = "none"

StartPCs == {"check", "adopt", "adopted", "clean", "mark", "spawn", "setpid", "probe",
             "persist", "finish", "giveup"}
StopPCs  == {"stop", "ipc", "term", "wait", "unlist"}

Busy(t)   == pc[t] \in StartPCs \cup StopPCs \cup {"exit"}
Live(p)   == ps[p] \notin {"none", "zombie", "gone"}
Ending(p) == ps[p] \in {"closing", "unbound"}

(* The next supervisor will look for the daemon.                           *)
Listed == reg \notin {"none", "stopped", "stopping"}

(* One thread at a time carries out a command; the one that quits is last. *)
OneAtATime ==
  /\ \A t, u \in Threads : Busy(t) /\ Busy(u) => t = u
  /\ Busy("run") => shutdown /\ op["run"] = "quit"
  /\ shutdown => \A t \in Clients \cup Backoffs : ~Busy(t)
  /\ pc["run"] \notin StartPCs \cup {"sleep"}
  /\ \A t \in Clients \cup Backoffs :
       op[t] # "quit" /\ pc[t] \in StartPCs \cup StopPCs \cup {"idle", "sleep"}

(* At most one daemon lives, and the two files are its own; the pid file   *)
(* never names another process than the socket leads to.                   *)
OneAlive ==
  /\ sock # 0 => pidfile \in {0, sock}
  /\ \A p \in Booting : sock = 0
  /\ \A p, q \in Pids : Live(p) /\ Live(q) => p = q
  /\ \A p \in Pids :
       /\ ps[p] \in {"serving", "deaf", "closing"} => sock = p /\ pidfile = p
       /\ ps[p] \in {"named", "doomed", "unbound"} => pidfile = p

(* A daemon that comes up is waited for.                                   *)
BootsAttended ==
  \A p \in Booting :
    \/ sup = "down"
    \/ \E t \in Threads : pc[t] \in {"setpid", "probe"} /\ lpid[t] = p

(* A daemon that leaves is being stopped, or the supervisor believes it is *)
(* running and will hear of its end; and no other Start is under way.      *)
EndsAttended ==
  \A p \in Pids : Ending(p) =>
    /\ Listed
    /\ \A t \in Threads : pc[t] \notin StartPCs \ {"check"}
    /\ \/ sup = "down"
       \/ \E t \in Threads : pc[t] \in {"ipc", "term", "wait"} /\ lpid[t] = p
       \/ /\ d.state = "running" /\ d.pid = p /\ pc["run"] # "dead"
          /\ pc["run"] = "look" => lpid["run"] = p

(* What a command knows of the daemons at each place of its code.          *)
Knows ==
  \A t \in Threads :
    /\ pc[t] \in {"clean", "mark", "spawn", "giveup", "unlist"} => \A p \in Pids : ~Live(p)
    /\ pc[t] \in {"mark", "spawn"} => sock = 0
    /\ pc[t] \in {"setpid", "probe"} => sock = 0 \/ lpid[t] \notin Booting
    /\ pc[t] \in {"spawn", "setpid", "probe", "persist", "finish", "ipc", "term", "wait"}
         => d.state # "stopped"
    /\ pc[t] \in {"adopted", "setpid", "probe", "persist", "finish", "ipc", "term", "wait"}
         => \A p \in Pids : Live(p) => lpid[t] = p

(* The daemon that lives is the one the record names, and the registry     *)
(* lists it, unless a Start is about to say so; or it lived through the    *)
(* end of a supervisor that had not listed it.                             *)
Owned ==
  /\ d.state = "stopping" => \E t \in Threads : pc[t] \in {"ipc", "term", "wait"}
  /\ \A p \in Pids : Live(p) /\ sup = "up" =>
       \/ /\ d.pid = p /\ d.state # "stopped"
          /\ Listed \/ \E t \in Threads : pc[t] \in {"probe", "persist"}
       \/ \E t \in Threads : pc[t] = "setpid"
       \/ d.state = "stopped" /\ pc["run"] \notin {"look", "dead"}

Sole == /\ OneAtATime /\ OneAlive /\ BootsAttended /\ EndsAttended
        /\ Knows /\ Owned

-----------------------------------------------------------------------------

(* The daemon.                                                             *)
LEMMA WritesPidKeeps ==
  ASSUME NoTrouble, NoTrouble', IInv, IInv', Sole, NEW p \in Pids, WritesPid(p)
  PROVE  Sole'
  <1> USE EnvAssumption DEF NoTrouble, Note, WritesPid, Up, Go, osVars, lifeVars, regVars, ctlVars, locVars, chanVars, Threads, StartPCs, StopPCs, Busy, Live, Ending, Booting, Leaving, Listed
  <1>0. /\ TypeOK /\ References
        /\ OneAtATime /\ OneAlive /\ BootsAttended /\ EndsAttended /\ Knows /\ Owned
    BY DEF IInv, Sole
  <1>1. OneAtATime'
    BY <1>0 DEF TypeOK, References, OneAtATime
  <1>2. OneAlive'
    BY <1>0 DEF TypeOK, References, OneAlive, Knows, OneAtATime
  <1>3. BootsAttended'
    BY <1>0 DEF TypeOK, References, OneAtATime, OneAlive, BootsAttended, Knows
  <1>4. EndsAttended'
    BY <1>0 DEF TypeOK, References, OneAtATime, OneAlive, EndsAttended, Knows, Owned, BootsAttended
  <1>5. Knows'
    BY <1>0 DEF TypeOK, References, OneAtATime, OneAlive, BootsAttended, EndsAttended, Knows, Owned
  <1>6. Owned'
    BY <1>0 DEF TypeOK, References, OneAtATime, OneAlive, BootsAttended, EndsAttended, Knows, Owned
  <1> QED BY <1>1, <1>2, <1>3, <1>4, <1>5, <1>6 DEF Sole

LEMMA BindsKeeps ==
  ASSUME NoTrouble, NoTrouble', IInv, IInv', Sole, NEW p \in Pids, Binds(p)
  PROVE  Sole'
  <1> USE EnvAssumption DEF NoTrouble, Note, Binds, Up, Go, osVars, lifeVars, regVars, ctlVars, locVars, chanVars, Threads, StartPCs, StopPCs, Busy, Live, Ending, Booting, Leaving, Listed
  <1>0. /\ TypeOK /\ References
        /\ OneAtATime /\ OneAlive /\ BootsAttended /\ EndsAttended /\ Knows /\ Owned
    BY DEF IInv, Sole
  <1>1. OneAtATime'
    BY <1>0 DEF TypeOK, References, OneAtATime
  <1>2. OneAlive'
    BY <1>0 DEF TypeOK, References, OneAlive, Knows, OneAtATime
  <1>3. BootsAttended'
    BY <1>0 DEF TypeOK, References, OneAtATime, OneAlive, BootsAttended, Knows
  <1>4. EndsAttended'
    BY <1>0 DEF TypeOK, References, OneAtATime, OneAlive, EndsAttended, Knows, Owned, BootsAttended
  <1>5. Knows'
    BY <1>0 DEF TypeOK, References, OneAtATime, OneAlive, BootsAttended, EndsAttended, Knows, Owned
  <1>6. Owned'
    BY <1>0 DEF TypeOK, References, OneAtATime, OneAlive, BootsAttended, EndsAttended, Knows, Owned
  <1> QED BY <1>1, <1>2, <1>3, <1>4, <1>5, <1>6 DEF Sole

LEMMA BootFailsKeeps ==
  ASSUME NoTrouble, NoTrouble', IInv, IInv', Sole, NEW p \in Pids, BootFails(p)
  PROVE  Sole'
  <1> USE EnvAssumption DEF NoTrouble, Note, BootFails, Dead, Up, Go, osVars, lifeVars, regVars, ctlVars, locVars, chanVars, Threads, StartPCs, StopPCs, Busy, Live, Ending, Booting, Leaving, Listed
  <1>0. /\ TypeOK /\ References
        /\ OneAtATime /\ OneAlive /\ BootsAttended /\ EndsAttended /\ Knows /\ Owned
    BY DEF IInv, Sole
  <1>1. OneAtATime'
    BY <1>0 DEF TypeOK, References, OneAtATime
  <1>2. OneAlive'
    BY <1>0 DEF TypeOK, References, OneAlive, Knows, OneAtATime
  <1>3. BootsAttended'
    BY <1>0 DEF TypeOK, References, OneAtATime, OneAlive, BootsAttended, Knows
  <1>4. EndsAttended'
    BY <1>0 DEF TypeOK, References, OneAtATime, OneAlive, EndsAttended, Knows, Owned, BootsAttended
  <1>5. Knows'
    BY <1>0 DEF TypeOK, References, OneAtATime, OneAlive, BootsAttended, EndsAttended, Knows, Owned
  <1>6. Owned'
    BY <1>0 DEF TypeOK, References, OneAtATime, OneAlive, BootsAttended, EndsAttended, Knows, Owned
  <1> QED BY <1>1, <1>2, <1>3, <1>4, <1>5, <1>6 DEF Sole

LEMMA LosesSourceKeeps ==
  ASSUME NoTrouble, NoTrouble', IInv, IInv', Sole, NEW p \in Pids, LosesSource(p)
  PROVE  Sole'
  <1> USE EnvAssumption DEF NoTrouble, Note, LosesSource, Up, Go, osVars, lifeVars, regVars, ctlVars, locVars, chanVars, Threads, StartPCs, StopPCs, Busy, Live, Ending, Booting, Leaving, Listed
  <1>0. /\ TypeOK /\ References
        /\ OneAtATime /\ OneAlive /\ BootsAttended /\ EndsAttended /\ Knows /\ Owned
    BY DEF IInv, Sole
  <1>1. OneAtATime'
    BY <1>0 DEF TypeOK, References, OneAtATime
  <1>2. OneAlive'
    BY <1>0 DEF TypeOK, References, OneAlive, Knows, OneAtATime
  <1>3. BootsAttended'
    BY <1>0 DEF TypeOK, References, OneAtATime, OneAlive, BootsAttended, Knows
  <1>4. EndsAttended'
    BY <1>0 DEF TypeOK, References, OneAtATime, OneAlive, EndsAttended, Knows, Owned, BootsAttended
  <1>5. Knows'
    BY <1>0 DEF TypeOK, References, OneAtATime, OneAlive, BootsAttended, EndsAttended, Knows, Owned
  <1>6. Owned'
    BY <1>0 DEF TypeOK, References, OneAtATime, OneAlive, BootsAttended, EndsAttended, Knows, Owned
  <1> QED BY <1>1, <1>2, <1>3, <1>4, <1>5, <1>6 DEF Sole

LEMMA UnbindsKeeps ==
  ASSUME NoTrouble, NoTrouble', IInv, IInv', Sole, NEW p \in Pids, Unbinds(p)
  PROVE  Sole'
  <1> USE EnvAssumption DEF NoTrouble, Note, Unbinds, Up, Go, osVars, lifeVars, regVars, ctlVars, locVars, chanVars, Threads, StartPCs, StopPCs, Busy, Live, Ending, Booting, Leaving, Listed
  <1>0. /\ TypeOK /\ References
        /\ OneAtATime /\ OneAlive /\ BootsAttended /\ EndsAttended /\ Knows /\ Owned
    BY DEF IInv, Sole
  <1>1. OneAtATime'
    BY <1>0 DEF TypeOK, References, OneAtATime
  <1>2. OneAlive'
    BY <1>0 DEF TypeOK, References, OneAlive, Knows, OneAtATime
  <1>3. BootsAttended'
    BY <1>0 DEF TypeOK, References, OneAtATime, OneAlive, BootsAttended, Knows
  <1>4. EndsAttended'
    BY <1>0 DEF TypeOK, References, OneAtATime, OneAlive, EndsAttended, Knows, Owned, BootsAttended
  <1>5. Knows'
    BY <1>0 DEF TypeOK, References, OneAtATime, OneAlive, BootsAttended, EndsAttended, Knows, Owned
  <1>6. Owned'
    BY <1>0 DEF TypeOK, References, OneAtATime, OneAlive, BootsAttended, EndsAttended, Knows, Owned
  <1> QED BY <1>1, <1>2, <1>3, <1>4, <1>5, <1>6 DEF Sole

LEMMA ExitsKeeps ==
  ASSUME NoTrouble, NoTrouble', IInv, IInv', Sole, NEW p \in Pids, Exits(p)
  PROVE  Sole'
  <1> USE EnvAssumption DEF NoTrouble, Note, Exits, Dead, Up, Go, osVars, lifeVars, regVars, ctlVars, locVars, chanVars, Threads, StartPCs, StopPCs, Busy, Live, Ending, Booting, Leaving, Listed
  <1>0. /\ TypeOK /\ References
        /\ OneAtATime /\ OneAlive /\ BootsAttended /\ EndsAttended /\ Knows /\ Owned
    BY DEF IInv, Sole
  <1>1. OneAtATime'
    BY <1>0 DEF TypeOK, References, OneAtATime
  <1>2. OneAlive'
    BY <1>0 DEF TypeOK, References, OneAlive, Knows, OneAtATime
  <1>3. BootsAttended'
    BY <1>0 DEF TypeOK, References, OneAtATime, OneAlive, BootsAttended, Knows
  <1>4. EndsAttended'
    BY <1>0 DEF TypeOK, References, OneAtATime, OneAlive, EndsAttended, Knows, Owned, BootsAttended
  <1>5. Knows'
    BY <1>0 DEF TypeOK, References, OneAtATime, OneAlive, BootsAttended, EndsAttended, Knows, Owned
  <1>6. Owned'
    BY <1>0 DEF TypeOK, References, OneAtATime, OneAlive, BootsAttended, EndsAttended, Knows, Owned
  <1> QED BY <1>1, <1>2, <1>3, <1>4, <1>5, <1>6 DEF Sole

LEMMA DaemonCrashesKeeps ==
  ASSUME NoTrouble, NoTrouble', IInv, IInv', Sole, NEW p \in Pids, DaemonCrashes(p)
  PROVE  Sole'
  <1> USE EnvAssumption DEF NoTrouble, Note, DaemonCrashes, Dead, Up, Go, osVars, lifeVars, regVars, ctlVars, locVars, chanVars, Threads, StartPCs, StopPCs, Busy, Live, Ending, Booting, Leaving, Listed
  <1>0. /\ TypeOK /\ References
        /\ OneAtATime /\ OneAlive /\ BootsAttended /\ EndsAttended /\ Knows /\ Owned
    BY DEF IInv, Sole
  <1>1. OneAtATime'
    BY <1>0 DEF TypeOK, References, OneAtATime
  <1>2. OneAlive'
    BY <1>0 DEF TypeOK, References, OneAlive, Knows, OneAtATime
  <1>3. BootsAttended'
    BY <1>0 DEF TypeOK, References, OneAtATime, OneAlive, BootsAttended, Knows
  <1>4. EndsAttended'
    BY <1>0 DEF TypeOK, References, OneAtATime, OneAlive, EndsAttended, Knows, Owned, BootsAttended
  <1>5. Knows'
    BY <1>0 DEF TypeOK, References, OneAtATime, OneAlive, BootsAttended, EndsAttended, Knows, Owned
  <1>6. Owned'
    BY <1>0 DEF TypeOK, References, OneAtATime, OneAlive, BootsAttended, EndsAttended, Knows, Owned
  <1> QED BY <1>1, <1>2, <1>3, <1>4, <1>5, <1>6 DEF Sole

(* Start.                                                                  *)
LEMMA StartChecksKeeps ==
  ASSUME NoTrouble, NoTrouble', IInv, IInv', Sole, NEW t \in Threads, StartChecks(t)
  PROVE  Sole'
  <1> USE EnvAssumption DEF NoTrouble, Note, StartChecks, Return, Up, Go, osVars, lifeVars, regVars, ctlVars, locVars, chanVars, Threads, StartPCs, StopPCs, Busy, Live, Ending, Booting, Leaving, Listed
  <1>0. /\ TypeOK /\ References
        /\ OneAtATime /\ OneAlive /\ BootsAttended /\ EndsAttended /\ Knows /\ Owned
    BY DEF IInv, Sole
  <1>1. OneAtATime'
    BY <1>0 DEF TypeOK, References, OneAtATime
  <1>2. OneAlive'
    BY <1>0 DEF TypeOK, References, OneAlive, Knows, OneAtATime
  <1>3. BootsAttended'
    BY <1>0 DEF TypeOK, References, OneAtATime, OneAlive, BootsAttended, Knows
  <1>4. EndsAttended'
    BY <1>0 DEF TypeOK, References, OneAtATime, OneAlive, EndsAttended, Knows, Owned, BootsAttended
  <1>5. Knows'
    BY <1>0 DEF TypeOK, References, OneAtATime, OneAlive, BootsAttended, EndsAttended, Knows, Owned
  <1>6. Owned'
    BY <1>0 DEF TypeOK, References, OneAtATime, OneAlive, BootsAttended, EndsAttended, Knows, Owned
  <1> QED BY <1>1, <1>2, <1>3, <1>4, <1>5, <1>6 DEF Sole

LEMMA StartLooksForOrphanKeeps ==
  ASSUME NoTrouble, NoTrouble', IInv, IInv', Sole, NEW t \in Threads, StartLooksForOrphan(t)
  PROVE  Sole'
  <1> USE EnvAssumption DEF NoTrouble, Note, StartLooksForOrphan, Adoptable, Alive, Answers, Up, Go, osVars, lifeVars, regVars, ctlVars, locVars, chanVars, Threads, StartPCs, StopPCs, Busy, Live, Ending, Booting, Leaving, Listed
  <1>0. /\ TypeOK /\ References
        /\ OneAtATime /\ OneAlive /\ BootsAttended /\ EndsAttended /\ Knows /\ Owned
    BY DEF IInv, Sole
  <1>1. OneAtATime'
    BY <1>0 DEF TypeOK, References, OneAtATime
  <1>2. OneAlive'
    BY <1>0 DEF TypeOK, References, OneAlive, Knows, OneAtATime
  <1>3. BootsAttended'
    BY <1>0 DEF TypeOK, References, OneAtATime, OneAlive, BootsAttended, Knows
  <1>4. EndsAttended'
    BY <1>0 DEF TypeOK, References, OneAtATime, OneAlive, EndsAttended, Knows, Owned, BootsAttended
  <1>5. Knows'
    <2>1. CASE Adoptable
      <3>1. \A p \in Pids : Live(p) => pidfile = p
        BY <1>0, <2>1 DEF TypeOK, OneAlive
      <3>2. \A u \in Threads \ {t} : ~Busy(u) /\ pc'[u] = pc[u] /\ lpid'[u] = lpid[u]
        BY <1>0 DEF TypeOK, OneAtATime
      <3>3. pc'[t] = "adopted" /\ lpid'[t] = pidfile
        BY <1>0, <2>1 DEF TypeOK
      <3> QED BY <3>1, <3>2, <3>3 DEF Knows
    <2>2. CASE ~Adoptable
      <3>1. ASSUME NEW p \in Pids, Live(p) PROVE FALSE
        <4>1. p \notin Booting /\ ~Ending(p)
          BY <1>0 DEF TypeOK, References, OneAtATime, BootsAttended, EndsAttended
        <4>2. ps[p] \in {"serving", "deaf"}
          BY <1>0, <3>1, <4>1 DEF TypeOK
        <4>3. sock = p /\ pidfile = p /\ p # 0
          BY <1>0, <4>2 DEF OneAlive, Pids
        <4> QED BY <2>2, <4>2, <4>3
      <3>2. \A u \in Threads \ {t} : ~Busy(u) /\ pc'[u] = pc[u] /\ lpid'[u] = lpid[u]
        BY <1>0 DEF TypeOK, OneAtATime
      <3>3. pc'[t] = "clean"
        BY <1>0, <2>2 DEF TypeOK
      <3> QED BY <3>1, <3>2, <3>3 DEF Knows
    <2> QED BY <2>1, <2>2
  <1>6. Owned'
    BY <1>0 DEF TypeOK, References, OneAtATime, OneAlive, BootsAttended, EndsAttended, Knows, Owned
  <1> QED BY <1>1, <1>2, <1>3, <1>4, <1>5, <1>6 DEF Sole

LEMMA StartAdoptsKeeps ==
  ASSUME NoTrouble, NoTrouble', IInv, IInv', Sole, NEW t \in Threads, StartAdopts(t)
  PROVE  Sole'
  <1> USE EnvAssumption DEF NoTrouble, Note, StartAdopts, Return, Make, Up, Go, osVars, lifeVars, regVars, ctlVars, locVars, chanVars, Threads, StartPCs, StopPCs, Busy, Live, Ending, Booting, Leaving, Listed
  <1>0. /\ TypeOK /\ References
        /\ OneAtATime /\ OneAlive /\ BootsAttended /\ EndsAttended /\ Knows /\ Owned
    BY DEF IInv, Sole
  <1>1. OneAtATime'
    BY <1>0 DEF TypeOK, References, OneAtATime
  <1>2. OneAlive'
    BY <1>0 DEF TypeOK, References, OneAlive, Knows, OneAtATime
  <1>3. BootsAttended'
    BY <1>0 DEF TypeOK, References, OneAtATime, OneAlive, BootsAttended, Knows
  <1>4. EndsAttended'
    BY <1>0 DEF TypeOK, References, OneAtATime, OneAlive, EndsAttended, Knows, Owned, BootsAttended
  <1>5. Knows'
    BY <1>0 DEF TypeOK, References, OneAtATime, OneAlive, BootsAttended, EndsAttended, Knows, Owned
  <1>6. Owned'
    BY <1>0 DEF TypeOK, References, OneAtATime, OneAlive, BootsAttended, EndsAttended, Knows, Owned
  <1> QED BY <1>1, <1>2, <1>3, <1>4, <1>5, <1>6 DEF Sole

LEMMA StartCleansKeeps ==
  ASSUME NoTrouble, NoTrouble', IInv, IInv', Sole, NEW t \in Threads, StartCleans(t)
  PROVE  Sole'
  <1> USE EnvAssumption DEF NoTrouble, Note, StartCleans, Alive, Up, Go, osVars, lifeVars, regVars, ctlVars, locVars, chanVars, Threads, StartPCs, StopPCs, Busy, Live, Ending, Booting, Leaving, Listed
  <1>0. /\ TypeOK /\ References
        /\ OneAtATime /\ OneAlive /\ BootsAttended /\ EndsAttended /\ Knows /\ Owned
    BY DEF IInv, Sole
  <1>1. OneAtATime'
    BY <1>0 DEF TypeOK, References, OneAtATime
  <1>2. OneAlive'
    BY <1>0 DEF TypeOK, References, OneAlive, Knows, OneAtATime
  <1>3. BootsAttended'
    BY <1>0 DEF TypeOK, References, OneAtATime, OneAlive, BootsAttended, Knows
  <1>4. EndsAttended'
    BY <1>0 DEF TypeOK, References, OneAtATime, OneAlive, EndsAttended, Knows, Owned, BootsAttended
  <1>5. Knows'
    <2>1. \A p \in Pids : ~Live(p)
      BY <1>0 DEF Knows
    <2>2. sock' = 0
      BY <1>0, <2>1 DEF TypeOK, Answers
    <2>3. \A u \in Threads \ {t} : ~Busy(u) /\ pc'[u] = pc[u]
      BY <1>0 DEF TypeOK, OneAtATime
    <2>4. pc'[t] = "mark"
      BY <1>0 DEF TypeOK
    <2> QED BY <2>1, <2>2, <2>3, <2>4 DEF Knows
  <1>6. Owned'
    BY <1>0 DEF TypeOK, References, OneAtATime, OneAlive, BootsAttended, EndsAttended, Knows, Owned
  <1> QED BY <1>1, <1>2, <1>3, <1>4, <1>5, <1>6 DEF Sole

LEMMA StartMarksKeeps ==
  ASSUME NoTrouble, NoTrouble', IInv, IInv', Sole, NEW t \in Threads, StartMarks(t)
  PROVE  Sole'
  <1> USE EnvAssumption DEF NoTrouble, Note, StartMarks, Make, Up, Go, osVars, lifeVars, regVars, ctlVars, locVars, chanVars, Threads, StartPCs, StopPCs, Busy, Live, Ending, Booting, Leaving, Listed
  <1>0. /\ TypeOK /\ References
        /\ OneAtATime /\ OneAlive /\ BootsAttended /\ EndsAttended /\ Knows /\ Owned
    BY DEF IInv, Sole
  <1>1. OneAtATime'
    BY <1>0 DEF TypeOK, References, OneAtATime
  <1>2. OneAlive'
    BY <1>0 DEF TypeOK, References, OneAlive, Knows, OneAtATime
  <1>3. BootsAttended'
    BY <1>0 DEF TypeOK, References, OneAtATime, OneAlive, BootsAttended, Knows
  <1>4. EndsAttended'
    BY <1>0 DEF TypeOK, References, OneAtATime, OneAlive, EndsAttended, Knows, Owned, BootsAttended
  <1>5. Knows'
    BY <1>0 DEF TypeOK, References, OneAtATime, OneAlive, BootsAttended, EndsAttended, Knows, Owned
  <1>6. Owned'
    BY <1>0 DEF TypeOK, References, OneAtATime, OneAlive, BootsAttended, EndsAttended, Knows, Owned
  <1> QED BY <1>1, <1>2, <1>3, <1>4, <1>5, <1>6 DEF Sole

LEMMA StartSpawnsKeeps ==
  ASSUME NoTrouble, NoTrouble', IInv, IInv', Sole, NEW t \in Threads, StartSpawns(t)
  PROVE  Sole'
  <1> USE EnvAssumption DEF NoTrouble, Note, StartSpawns, Up, Go, osVars, lifeVars, regVars, ctlVars, locVars, chanVars, Threads, StartPCs, StopPCs, Busy, Live, Ending, Booting, Leaving, Listed
  <1>0. /\ TypeOK /\ References
        /\ OneAtATime /\ OneAlive /\ BootsAttended /\ EndsAttended /\ Knows /\ Owned
    BY DEF IInv, Sole
  <1>1. OneAtATime'
    BY <1>0 DEF TypeOK, References, OneAtATime
  <1>2. OneAlive'
    BY <1>0 DEF TypeOK, References, OneAlive, Knows, OneAtATime
  <1>3. BootsAttended'
    BY <1>0 DEF TypeOK, References, OneAtATime, OneAlive, BootsAttended, Knows
  <1>4. EndsAttended'
    BY <1>0 DEF TypeOK, References, OneAtATime, OneAlive, EndsAttended, Knows, Owned, BootsAttended
  <1>5. Knows'
    BY <1>0 DEF TypeOK, References, OneAtATime, OneAlive, BootsAttended, EndsAttended, Knows, Owned
  <1>6. Owned'
    BY <1>0 DEF TypeOK, References, OneAtATime, OneAlive, BootsAttended, EndsAttended, Knows, Owned
  <1> QED BY <1>1, <1>2, <1>3, <1>4, <1>5, <1>6 DEF Sole

LEMMA StartCannotSpawnKeeps ==
  ASSUME NoTrouble, NoTrouble', IInv, IInv', Sole, NEW t \in Threads, StartCannotSpawn(t)
  PROVE  Sole'
  <1> USE EnvAssumption DEF NoTrouble, Note, StartCannotSpawn, Return, Up, Go, osVars, lifeVars, regVars, ctlVars, locVars, chanVars, Threads, StartPCs, StopPCs, Busy, Live, Ending, Booting, Leaving, Listed
  <1>0. /\ TypeOK /\ References
        /\ OneAtATime /\ OneAlive /\ BootsAttended /\ EndsAttended /\ Knows /\ Owned
    BY DEF IInv, Sole
  <1>1. OneAtATime'
    BY <1>0 DEF TypeOK, References, OneAtATime
  <1>2. OneAlive'
    BY <1>0 DEF TypeOK, References, OneAlive, Knows, OneAtATime
  <1>3. BootsAttended'
    BY <1>0 DEF TypeOK, References, OneAtATime, OneAlive, BootsAttended, Knows
  <1>4. EndsAttended'
    BY <1>0 DEF TypeOK, References, OneAtATime, OneAlive, EndsAttended, Knows, Owned, BootsAttended
  <1>5. Knows'
    BY <1>0 DEF TypeOK, References, OneAtATime, OneAlive, BootsAttended, EndsAttended, Knows, Owned
  <1>6. Owned'
    BY <1>0 DEF TypeOK, References, OneAtATime, OneAlive, BootsAttended, EndsAttended, Knows, Owned
  <1> QED BY <1>1, <1>2, <1>3, <1>4, <1>5, <1>6 DEF Sole

LEMMA StartSetsPidKeeps ==
  ASSUME NoTrouble, NoTrouble', IInv, IInv', Sole, NEW t \in Threads, StartSetsPid(t)
  PROVE  Sole'
  <1> USE EnvAssumption DEF NoTrouble, Note, StartSetsPid, Up, Go, osVars, lifeVars, regVars, ctlVars, locVars, chanVars, Threads, StartPCs, StopPCs, Busy, Live, Ending, Booting, Leaving, Listed
  <1>0. /\ TypeOK /\ References
        /\ OneAtATime /\ OneAlive /\ BootsAttended /\ EndsAttended /\ Knows /\ Owned
    BY DEF IInv, Sole
  <1>1. OneAtATime'
    BY <1>0 DEF TypeOK, References, OneAtATime
  <1>2. OneAlive'
    BY <1>0 DEF TypeOK, References, OneAlive, Knows, OneAtATime
  <1>3. BootsAttended'
    BY <1>0 DEF TypeOK, References, OneAtATime, OneAlive, BootsAttended, Knows
  <1>4. EndsAttended'
    BY <1>0 DEF TypeOK, References, OneAtATime, OneAlive, EndsAttended, Knows, Owned, BootsAttended
  <1>5. Knows'
    BY <1>0 DEF TypeOK, References, OneAtATime, OneAlive, BootsAttended, EndsAttended, Knows, Owned
  <1>6. Owned'
    BY <1>0 DEF TypeOK, References, OneAtATime, OneAlive, BootsAttended, EndsAttended, Knows, Owned
  <1> QED BY <1>1, <1>2, <1>3, <1>4, <1>5, <1>6 DEF Sole

LEMMA StartProbesKeeps ==
  ASSUME NoTrouble, NoTrouble', IInv, IInv', Sole, NEW t \in Threads, StartProbes(t)
  PROVE  Sole'
  <1> USE EnvAssumption DEF NoTrouble, Note, StartProbes, Up, Go, osVars, lifeVars, regVars, ctlVars, locVars, chanVars, Threads, StartPCs, StopPCs, Busy, Live, Ending, Booting, Leaving, Listed
  <1>0. /\ TypeOK /\ References
        /\ OneAtATime /\ OneAlive /\ BootsAttended /\ EndsAttended /\ Knows /\ Owned
    BY DEF IInv, Sole
  <1>1. OneAtATime'
    BY <1>0 DEF TypeOK, References, OneAtATime
  <1>2. OneAlive'
    BY <1>0 DEF TypeOK, References, OneAlive, Knows, OneAtATime
  <1>3. BootsAttended'
    BY <1>0 DEF TypeOK, References, OneAtATime, OneAlive, BootsAttended, Knows
  <1>4. EndsAttended'
    BY <1>0 DEF TypeOK, References, OneAtATime, OneAlive, EndsAttended, Knows, Owned, BootsAttended
  <1>5. Knows'
    BY <1>0 DEF TypeOK, References, OneAtATime, OneAlive, BootsAttended, EndsAttended, Knows, Owned
  <1>6. Owned'
    BY <1>0 DEF TypeOK, References, OneAtATime, OneAlive, BootsAttended, EndsAttended, Knows, Owned
  <1> QED BY <1>1, <1>2, <1>3, <1>4, <1>5, <1>6 DEF Sole

LEMMA StartTimesOutKeeps ==
  ASSUME NoTrouble, NoTrouble', IInv, IInv', Sole, NEW t \in Threads, StartTimesOut(t)
  PROVE  Sole'
  <1> USE EnvAssumption DEF NoTrouble, Note, StartTimesOut, Up, Go, osVars, lifeVars, regVars, ctlVars, locVars, chanVars, Threads, StartPCs, StopPCs, Busy, Live, Ending, Booting, Leaving, Listed
  <1>0. /\ TypeOK /\ References
        /\ OneAtATime /\ OneAlive /\ BootsAttended /\ EndsAttended /\ Knows /\ Owned
    BY DEF IInv, Sole
  <1>1. OneAtATime'
    BY <1>0 DEF TypeOK, References, OneAtATime
  <1>2. OneAlive'
    BY <1>0 DEF TypeOK, References, OneAlive, Knows, OneAtATime
  <1>3. BootsAttended'
    BY <1>0 DEF TypeOK, References, OneAtATime, OneAlive, BootsAttended, Knows
  <1>4. EndsAttended'
    BY <1>0 DEF TypeOK, References, OneAtATime, OneAlive, EndsAttended, Knows, Owned, BootsAttended
  <1>5. Knows'
    <2>1. ASSUME NEW p \in Pids, Live(p) PROVE FALSE
      <3>1. lpid[t] = p /\ sock = 0 /\ pc[t] = "probe"
        BY <1>0, <2>1 DEF Knows
      <3>2. p \notin Booting
        BY <3>1
      <3>3. ~Ending(p)
        BY <1>0, <3>1 DEF EndsAttended
      <3>4. ps[p] \in {"serving", "deaf"}
        BY <1>0, <2>1, <3>2, <3>3 DEF TypeOK
      <3>5. sock = p /\ p # 0
        BY <1>0, <3>4 DEF OneAlive, Pids
      <3> QED BY <3>1, <3>5
    <2>2. \A u \in Threads \ {t} : ~Busy(u) /\ pc'[u] = pc[u]
      BY <1>0 DEF TypeOK, OneAtATime
    <2>3. pc'[t] = "giveup"
      BY <1>0 DEF TypeOK
    <2> QED BY <2>1, <2>2, <2>3 DEF Knows
  <1>6. Owned'
    <2>1. ASSUME NEW p \in Pids, Live(p) PROVE FALSE
      <3>1. lpid[t] = p /\ sock = 0 /\ pc[t] = "probe"
        BY <1>0, <2>1 DEF Knows
      <3>2. p \notin Booting
        BY <3>1
      <3>3. ~Ending(p)
        BY <1>0, <3>1 DEF EndsAttended
      <3>4. ps[p] \in {"serving", "deaf"}
        BY <1>0, <2>1, <3>2, <3>3 DEF TypeOK
      <3>5. sock = p /\ p # 0
        BY <1>0, <3>4 DEF OneAlive, Pids
      <3> QED BY <3>1, <3>5
    <2> QED BY <2>1 DEF Owned
  <1> QED BY <1>1, <1>2, <1>3, <1>4, <1>5, <1>6 DEF Sole

LEMMA StartGivesUpKeeps ==
  ASSUME NoTrouble, NoTrouble', IInv, IInv', Sole, NEW t \in Threads, StartGivesUp(t)
  PROVE  Sole'
  <1> USE EnvAssumption DEF NoTrouble, Note, StartGivesUp, Return, Terminate, AfterTerm, Dead, Up, Go, osVars, lifeVars, regVars, ctlVars, locVars, chanVars, Threads, StartPCs, StopPCs, Busy, Live, Ending, Booting, Leaving, Listed
  <1>0. /\ TypeOK /\ References
        /\ OneAtATime /\ OneAlive /\ BootsAttended /\ EndsAttended /\ Knows /\ Owned
    BY DEF IInv, Sole
  <1>1. OneAtATime'
    BY <1>0 DEF TypeOK, References, OneAtATime
  <1>2. OneAlive'
    BY <1>0 DEF TypeOK, References, OneAlive, Knows, OneAtATime
  <1>3. BootsAttended'
    BY <1>0 DEF TypeOK, References, OneAtATime, OneAlive, BootsAttended, Knows
  <1>4. EndsAttended'
    BY <1>0 DEF TypeOK, References, OneAtATime, OneAlive, EndsAttended, Knows, Owned, BootsAttended
  <1>5. Knows'
    BY <1>0 DEF TypeOK, References, OneAtATime, OneAlive, BootsAttended, EndsAttended, Knows, Owned
  <1>6. Owned'
    BY <1>0 DEF TypeOK, References, OneAtATime, OneAlive, BootsAttended, EndsAttended, Knows, Owned
  <1> QED BY <1>1, <1>2, <1>3, <1>4, <1>5, <1>6 DEF Sole

LEMMA StartPersistsKeeps ==
  ASSUME NoTrouble, NoTrouble', IInv, IInv', Sole, NEW t \in Threads, StartPersists(t)
  PROVE  Sole'
  <1> USE EnvAssumption DEF NoTrouble, Note, StartPersists, Up, Go, osVars, lifeVars, regVars, ctlVars, locVars, chanVars, Threads, StartPCs, StopPCs, Busy, Live, Ending, Booting, Leaving, Listed
  <1>0. /\ TypeOK /\ References
        /\ OneAtATime /\ OneAlive /\ BootsAttended /\ EndsAttended /\ Knows /\ Owned
    BY DEF IInv, Sole
  <1>1. OneAtATime'
    BY <1>0 DEF TypeOK, References, OneAtATime
  <1>2. OneAlive'
    BY <1>0 DEF TypeOK, References, OneAlive, Knows, OneAtATime
  <1>3. BootsAttended'
    BY <1>0 DEF TypeOK, References, OneAtATime, OneAlive, BootsAttended, Knows
  <1>4. EndsAttended'
    BY <1>0 DEF TypeOK, References, OneAtATime, OneAlive, EndsAttended, Knows, Owned, BootsAttended
  <1>5. Knows'
    BY <1>0 DEF TypeOK, References, OneAtATime, OneAlive, BootsAttended, EndsAttended, Knows, Owned
  <1>6. Owned'
    BY <1>0 DEF TypeOK, References, OneAtATime, OneAlive, BootsAttended, EndsAttended, Knows, Owned
  <1> QED BY <1>1, <1>2, <1>3, <1>4, <1>5, <1>6 DEF Sole

LEMMA StartFinishesKeeps ==
  ASSUME NoTrouble, NoTrouble', IInv, IInv', Sole, NEW t \in Threads, StartFinishes(t)
  PROVE  Sole'
  <1> USE EnvAssumption DEF NoTrouble, Note, StartFinishes, Return, Up, Go, osVars, lifeVars, regVars, ctlVars, locVars, chanVars, Threads, StartPCs, StopPCs, Busy, Live, Ending, Booting, Leaving, Listed
  <1>0. /\ TypeOK /\ References
        /\ OneAtATime /\ OneAlive /\ BootsAttended /\ EndsAttended /\ Knows /\ Owned
    BY DEF IInv, Sole
  <1>1. OneAtATime'
    BY <1>0 DEF TypeOK, References, OneAtATime
  <1>2. OneAlive'
    BY <1>0 DEF TypeOK, References, OneAlive, Knows, OneAtATime
  <1>3. BootsAttended'
    BY <1>0 DEF TypeOK, References, OneAtATime, OneAlive, BootsAttended, Knows
  <1>4. EndsAttended'
    BY <1>0 DEF TypeOK, References, OneAtATime, OneAlive, EndsAttended, Knows, Owned, BootsAttended
  <1>5. Knows'
    BY <1>0 DEF TypeOK, References, OneAtATime, OneAlive, BootsAttended, EndsAttended, Knows, Owned
  <1>6. Owned'
    BY <1>0 DEF TypeOK, References, OneAtATime, OneAlive, BootsAttended, EndsAttended, Knows, Owned
  <1> QED BY <1>1, <1>2, <1>3, <1>4, <1>5, <1>6 DEF Sole

(* Stop.                                                                   *)
LEMMA StopBeginsKeeps ==
  ASSUME NoTrouble, NoTrouble', IInv, IInv', Sole, NEW t \in Threads, StopBegins(t)
  PROVE  Sole'
  <1> USE EnvAssumption DEF NoTrouble, Note, StopBegins, StopReturns, Return, Up, Go, osVars, lifeVars, regVars, ctlVars, locVars, chanVars, Threads, StartPCs, StopPCs, Busy, Live, Ending, Booting, Leaving, Listed
  <1>0. /\ TypeOK /\ References
        /\ OneAtATime /\ OneAlive /\ BootsAttended /\ EndsAttended /\ Knows /\ Owned
    BY DEF IInv, Sole
  <1>1. OneAtATime'
    BY <1>0 DEF TypeOK, References, OneAtATime
  <1>2. OneAlive'
    BY <1>0 DEF TypeOK, References, OneAlive, Knows, OneAtATime
  <1>3. BootsAttended'
    BY <1>0 DEF TypeOK, References, OneAtATime, OneAlive, BootsAttended, Knows
  <1>4. EndsAttended'
    BY <1>0 DEF TypeOK, References, OneAtATime, OneAlive, EndsAttended, Knows, Owned, BootsAttended
  <1>5. Knows'
    BY <1>0 DEF TypeOK, References, OneAtATime, OneAlive, BootsAttended, EndsAttended, Knows, Owned
  <1>6. Owned'
    BY <1>0 DEF TypeOK, References, OneAtATime, OneAlive, BootsAttended, EndsAttended, Knows, Owned
  <1> QED BY <1>1, <1>2, <1>3, <1>4, <1>5, <1>6 DEF Sole

LEMMA StopAsksKeeps ==
  ASSUME NoTrouble, NoTrouble', IInv, IInv', Sole, NEW t \in Threads, StopAsks(t)
  PROVE  Sole'
  <1> USE EnvAssumption DEF NoTrouble, Note, StopAsks, Answers, Up, Go, osVars, lifeVars, regVars, ctlVars, locVars, chanVars, Threads, StartPCs, StopPCs, Busy, Live, Ending, Booting, Leaving, Listed
  <1>0. /\ TypeOK /\ References
        /\ OneAtATime /\ OneAlive /\ BootsAttended /\ EndsAttended /\ Knows /\ Owned
    BY DEF IInv, Sole
  <1>1. OneAtATime'
    BY <1>0 DEF TypeOK, References, OneAtATime
  <1>2. OneAlive'
    BY <1>0 DEF TypeOK, References, OneAlive, Knows, OneAtATime
  <1>3. BootsAttended'
    BY <1>0 DEF TypeOK, References, OneAtATime, OneAlive, BootsAttended, Knows
  <1>4. EndsAttended'
    <2> SUFFICES ASSUME NEW p \in Pids, Ending(p)'
                 PROVE  /\ Listed /\ \A u \in Threads : pc'[u] \notin StartPCs \ {"check"}
                        /\ \E u \in Threads : pc'[u] \in {"ipc", "term", "wait"} /\ lpid[u] = p
      BY DEF EndsAttended
    <2>1. Live(p)
      BY <1>0 DEF TypeOK
    <2>2. lpid[t] = p /\ d.state # "stopped"
      BY <1>0, <2>1 DEF Knows
    <2>3. \A u \in Threads \ {t} : ~Busy(u) /\ pc'[u] = pc[u]
      BY <1>0 DEF TypeOK, OneAtATime
    <2>4. pc'[t] = "term"
      BY <1>0 DEF TypeOK
    <2>5. Listed
      BY <1>0, <2>1, <2>2, <2>3 DEF Owned
    <2> QED BY <2>2, <2>3, <2>4, <2>5
  <1>5. Knows'
    BY <1>0 DEF TypeOK, References, OneAtATime, OneAlive, BootsAttended, EndsAttended, Knows, Owned
  <1>6. Owned'
    BY <1>0 DEF TypeOK, References, OneAtATime, OneAlive, BootsAttended, EndsAttended, Knows, Owned
  <1> QED BY <1>1, <1>2, <1>3, <1>4, <1>5, <1>6 DEF Sole

LEMMA StopTerminatesKeeps ==
  ASSUME NoTrouble, NoTrouble', IInv, IInv', Sole, NEW t \in Threads, StopTerminates(t)
  PROVE  Sole'
  <1> USE EnvAssumption DEF NoTrouble, Note, StopTerminates, Terminate, AfterTerm, Dead, Alive, Up, Go, osVars, lifeVars, regVars, ctlVars, locVars, chanVars, Threads, StartPCs, StopPCs, Busy, Live, Ending, Booting, Leaving, Listed
  <1>0. /\ TypeOK /\ References
        /\ OneAtATime /\ OneAlive /\ BootsAttended /\ EndsAttended /\ Knows /\ Owned
    BY DEF IInv, Sole
  <1>1. OneAtATime'
    BY <1>0 DEF TypeOK, References, OneAtATime
  <1>2. OneAlive'
    BY <1>0 DEF TypeOK, References, OneAlive, Knows, OneAtATime
  <1>3. BootsAttended'
    BY <1>0 DEF TypeOK, References, OneAtATime, OneAlive, BootsAttended, Knows
  <1>4. EndsAttended'
    BY <1>0 DEF TypeOK, References, OneAtATime, OneAlive, EndsAttended, Knows, Owned, BootsAttended
  <1>5. Knows'
    BY <1>0 DEF TypeOK, References, OneAtATime, OneAlive, BootsAttended, EndsAttended, Knows, Owned
  <1>6. Owned'
    BY <1>0 DEF TypeOK, References, OneAtATime, OneAlive, BootsAttended, EndsAttended, Knows, Owned
  <1> QED BY <1>1, <1>2, <1>3, <1>4, <1>5, <1>6 DEF Sole

LEMMA StopWaitsKeeps ==
  ASSUME NoTrouble, NoTrouble', IInv, IInv', Sole, NEW t \in Threads, StopWaits(t)
  PROVE  Sole'
  <1> USE EnvAssumption DEF NoTrouble, Note, StopWaits, AfterKill, Dead, Alive, Up, Go, osVars, lifeVars, regVars, ctlVars, locVars, chanVars, Threads, StartPCs, StopPCs, Busy, Live, Ending, Booting, Leaving, Listed
  <1>0. /\ TypeOK /\ References
        /\ OneAtATime /\ OneAlive /\ BootsAttended /\ EndsAttended /\ Knows /\ Owned
    BY DEF IInv, Sole
  <1>1. OneAtATime'
    BY <1>0 DEF TypeOK, References, OneAtATime
  <1>2. OneAlive'
    BY <1>0 DEF TypeOK, References, OneAlive, Knows, OneAtATime
  <1>3. BootsAttended'
    BY <1>0 DEF TypeOK, References, OneAtATime, OneAlive, BootsAttended, Knows
  <1>4. EndsAttended'
    <2>1. \A p \in Pids : Live(p) => lpid[t] = p
      BY <1>0 DEF Knows
    <2>2. ASSUME NEW p \in Pids PROVE ~(Live(p)')
      <3>1. CASE Live(p)
        <4>1. lpid[t] = p /\ p # 0
          BY <2>1, <3>1 DEF Pids
        <4>2. ps'[p] \in {"zombie", "gone"}
          BY <1>0, <3>1, <4>1 DEF TypeOK, OneAlive
        <4> QED BY <4>2
      <3>2. CASE ~Live(p)
        BY <1>0, <3>2 DEF TypeOK
      <3> QED BY <3>1, <3>2
    <2> QED BY <2>2 DEF EndsAttended
  <1>5. Knows'
    <2>1. \A p \in Pids : Live(p) => lpid[t] = p
      BY <1>0 DEF Knows
    <2>2. ASSUME NEW p \in Pids PROVE ~(Live(p)')
      <3>1. CASE Live(p)
        <4>1. lpid[t] = p /\ p # 0
          BY <2>1, <3>1 DEF Pids
        <4>2. ps'[p] \in {"zombie", "gone"}
          BY <1>0, <3>1, <4>1 DEF TypeOK, OneAlive
        <4> QED BY <4>2
      <3>2. CASE ~Live(p)
        BY <1>0, <3>2 DEF TypeOK
      <3> QED BY <3>1, <3>2
    <2>3. \A u \in Threads \ {t} : ~Busy(u) /\ pc'[u] = pc[u]
      BY <1>0 DEF TypeOK, OneAtATime
    <2>4. pc'[t] = "unlist"
      BY <1>0 DEF TypeOK
    <2> QED BY <2>2, <2>3, <2>4 DEF Knows
  <1>6. Owned'
    <2>1. \A p \in Pids : Live(p) => lpid[t] = p
      BY <1>0 DEF Knows
    <2>2. ASSUME NEW p \in Pids PROVE ~(Live(p)')
      <3>1. CASE Live(p)
        <4>1. lpid[t] = p /\ p # 0
          BY <2>1, <3>1 DEF Pids
        <4>2. ps'[p] \in {"zombie", "gone"}
          BY <1>0, <3>1, <4>1 DEF TypeOK, OneAlive
        <4> QED BY <4>2
      <3>2. CASE ~Live(p)
        BY <1>0, <3>2 DEF TypeOK
      <3> QED BY <3>1, <3>2
    <2>3. d'.state = "stopped"
      BY <1>0 DEF TypeOK
    <2> QED BY <2>2, <2>3 DEF Owned
  <1> QED BY <1>1, <1>2, <1>3, <1>4, <1>5, <1>6 DEF Sole

LEMMA StopPersistsKeeps ==
  ASSUME NoTrouble, NoTrouble', IInv, IInv', Sole, NEW t \in Threads, StopPersists(t)
  PROVE  Sole'
  <1> USE EnvAssumption DEF NoTrouble, Note, StopPersists, StopReturns, Return, Up, Go, osVars, lifeVars, regVars, ctlVars, locVars, chanVars, Threads, StartPCs, StopPCs, Busy, Live, Ending, Booting, Leaving, Listed
  <1>0. /\ TypeOK /\ References
        /\ OneAtATime /\ OneAlive /\ BootsAttended /\ EndsAttended /\ Knows /\ Owned
    BY DEF IInv, Sole
  <1>1. OneAtATime'
    BY <1>0 DEF TypeOK, References, OneAtATime
  <1>2. OneAlive'
    BY <1>0 DEF TypeOK, References, OneAlive, Knows, OneAtATime
  <1>3. BootsAttended'
    BY <1>0 DEF TypeOK, References, OneAtATime, OneAlive, BootsAttended, Knows
  <1>4. EndsAttended'
    BY <1>0 DEF TypeOK, References, OneAtATime, OneAlive, EndsAttended, Knows, Owned, BootsAttended
  <1>5. Knows'
    BY <1>0 DEF TypeOK, References, OneAtATime, OneAlive, BootsAttended, EndsAttended, Knows, Owned
  <1>6. Owned'
    BY <1>0 DEF TypeOK, References, OneAtATime, OneAlive, BootsAttended, EndsAttended, Knows, Owned
  <1> QED BY <1>1, <1>2, <1>3, <1>4, <1>5, <1>6 DEF Sole

(* Commands.                                                               *)
LEMMA AsksStartKeeps ==
  ASSUME NoTrouble, NoTrouble', IInv, IInv', Sole, NEW c \in Clients, AsksStart(c)
  PROVE  Sole'
  <1> USE EnvAssumption DEF NoTrouble, Note, AsksStart, Request, Begins, Alone, Up, Go, osVars, lifeVars, regVars, ctlVars, locVars, chanVars, Threads, StartPCs, StopPCs, Busy, Live, Ending, Booting, Leaving, Listed
  <1>0. /\ TypeOK /\ References
        /\ OneAtATime /\ OneAlive /\ BootsAttended /\ EndsAttended /\ Knows /\ Owned
    BY DEF IInv, Sole
  <1>1. OneAtATime'
    BY <1>0 DEF TypeOK, References, OneAtATime
  <1>2. OneAlive'
    BY <1>0 DEF TypeOK, References, OneAlive, Knows, OneAtATime
  <1>3. BootsAttended'
    BY <1>0 DEF TypeOK, References, OneAtATime, OneAlive, BootsAttended, Knows
  <1>4. EndsAttended'
    BY <1>0 DEF TypeOK, References, OneAtATime, OneAlive, EndsAttended, Knows, Owned, BootsAttended
  <1>5. Knows'
    BY <1>0 DEF TypeOK, References, OneAtATime, OneAlive, BootsAttended, EndsAttended, Knows, Owned
  <1>6. Owned'
    BY <1>0 DEF TypeOK, References, OneAtATime, OneAlive, BootsAttended, EndsAttended, Knows, Owned
  <1> QED BY <1>1, <1>2, <1>3, <1>4, <1>5, <1>6 DEF Sole

LEMMA AsksStopKeeps ==
  ASSUME NoTrouble, NoTrouble', IInv, IInv', Sole, NEW c \in Clients, AsksStop(c)
  PROVE  Sole'
  <1> USE EnvAssumption DEF NoTrouble, Note, AsksStop, Request, Begins, Alone, Up, Go, osVars, lifeVars, regVars, ctlVars, locVars, chanVars, Threads, StartPCs, StopPCs, Busy, Live, Ending, Booting, Leaving, Listed
  <1>0. /\ TypeOK /\ References
        /\ OneAtATime /\ OneAlive /\ BootsAttended /\ EndsAttended /\ Knows /\ Owned
    BY DEF IInv, Sole
  <1>1. OneAtATime'
    BY <1>0 DEF TypeOK, References, OneAtATime
  <1>2. OneAlive'
    BY <1>0 DEF TypeOK, References, OneAlive, Knows, OneAtATime
  <1>3. BootsAttended'
    BY <1>0 DEF TypeOK, References, OneAtATime, OneAlive, BootsAttended, Knows
  <1>4. EndsAttended'
    BY <1>0 DEF TypeOK, References, OneAtATime, OneAlive, EndsAttended, Knows, Owned, BootsAttended
  <1>5. Knows'
    BY <1>0 DEF TypeOK, References, OneAtATime, OneAlive, BootsAttended, EndsAttended, Knows, Owned
  <1>6. Owned'
    BY <1>0 DEF TypeOK, References, OneAtATime, OneAlive, BootsAttended, EndsAttended, Knows, Owned
  <1> QED BY <1>1, <1>2, <1>3, <1>4, <1>5, <1>6 DEF Sole

LEMMA AsksRestartKeeps ==
  ASSUME NoTrouble, NoTrouble', IInv, IInv', Sole, NEW c \in Clients, AsksRestart(c)
  PROVE  Sole'
  <1> USE EnvAssumption DEF NoTrouble, Note, AsksRestart, Request, Begins, Alone, Up, Go, osVars, lifeVars, regVars, ctlVars, locVars, chanVars, Threads, StartPCs, StopPCs, Busy, Live, Ending, Booting, Leaving, Listed
  <1>0. /\ TypeOK /\ References
        /\ OneAtATime /\ OneAlive /\ BootsAttended /\ EndsAttended /\ Knows /\ Owned
    BY DEF IInv, Sole
  <1>1. OneAtATime'
    BY <1>0 DEF TypeOK, References, OneAtATime
  <1>2. OneAlive'
    BY <1>0 DEF TypeOK, References, OneAlive, Knows, OneAtATime
  <1>3. BootsAttended'
    BY <1>0 DEF TypeOK, References, OneAtATime, OneAlive, BootsAttended, Knows
  <1>4. EndsAttended'
    BY <1>0 DEF TypeOK, References, OneAtATime, OneAlive, EndsAttended, Knows, Owned, BootsAttended
  <1>5. Knows'
    BY <1>0 DEF TypeOK, References, OneAtATime, OneAlive, BootsAttended, EndsAttended, Knows, Owned
  <1>6. Owned'
    BY <1>0 DEF TypeOK, References, OneAtATime, OneAlive, BootsAttended, EndsAttended, Knows, Owned
  <1> QED BY <1>1, <1>2, <1>3, <1>4, <1>5, <1>6 DEF Sole

LEMMA AsksReloadKeeps ==
  ASSUME NoTrouble, NoTrouble', IInv, IInv', Sole, NEW c \in Clients, AsksReload(c)
  PROVE  Sole'
  <1> USE EnvAssumption DEF NoTrouble, Note, AsksReload, Begins, Alone, Up, Go, osVars, lifeVars, regVars, ctlVars, locVars, chanVars, Threads, StartPCs, StopPCs, Busy, Live, Ending, Booting, Leaving, Listed
  <1>0. /\ TypeOK /\ References
        /\ OneAtATime /\ OneAlive /\ BootsAttended /\ EndsAttended /\ Knows /\ Owned
    BY DEF IInv, Sole
  <1>1. OneAtATime'
    BY <1>0 DEF TypeOK, References, OneAtATime
  <1>2. OneAlive'
    BY <1>0 DEF TypeOK, References, OneAlive, Knows, OneAtATime
  <1>3. BootsAttended'
    BY <1>0 DEF TypeOK, References, OneAtATime, OneAlive, BootsAttended, Knows
  <1>4. EndsAttended'
    BY <1>0 DEF TypeOK, References, OneAtATime, OneAlive, EndsAttended, Knows, Owned, BootsAttended
  <1>5. Knows'
    BY <1>0 DEF TypeOK, References, OneAtATime, OneAlive, BootsAttended, EndsAttended, Knows, Owned
  <1>6. Owned'
    BY <1>0 DEF TypeOK, References, OneAtATime, OneAlive, BootsAttended, EndsAttended, Knows, Owned
  <1> QED BY <1>1, <1>2, <1>3, <1>4, <1>5, <1>6 DEF Sole

LEMMA AsksQuitKeeps ==
  ASSUME NoTrouble, NoTrouble', IInv, IInv', Sole, NEW c \in Clients, AsksQuit(c)
  PROVE  Sole'
  <1> USE EnvAssumption DEF NoTrouble, Note, AsksQuit, Begins, Alone, Up, Go, osVars, lifeVars, regVars, ctlVars, locVars, chanVars, Threads, StartPCs, StopPCs, Busy, Live, Ending, Booting, Leaving, Listed
  <1>0. /\ TypeOK /\ References
        /\ OneAtATime /\ OneAlive /\ BootsAttended /\ EndsAttended /\ Knows /\ Owned
    BY DEF IInv, Sole
  <1>1. OneAtATime'
    BY <1>0 DEF TypeOK, References, OneAtATime
  <1>2. OneAlive'
    BY <1>0 DEF TypeOK, References, OneAlive, Knows, OneAtATime
  <1>3. BootsAttended'
    BY <1>0 DEF TypeOK, References, OneAtATime, OneAlive, BootsAttended, Knows
  <1>4. EndsAttended'
    BY <1>0 DEF TypeOK, References, OneAtATime, OneAlive, EndsAttended, Knows, Owned, BootsAttended
  <1>5. Knows'
    BY <1>0 DEF TypeOK, References, OneAtATime, OneAlive, BootsAttended, EndsAttended, Knows, Owned
  <1>6. Owned'
    BY <1>0 DEF TypeOK, References, OneAtATime, OneAlive, BootsAttended, EndsAttended, Knows, Owned
  <1> QED BY <1>1, <1>2, <1>3, <1>4, <1>5, <1>6 DEF Sole

LEMMA BackoffWakesKeeps ==
  ASSUME NoTrouble, NoTrouble', IInv, IInv', Sole, NEW b \in Backoffs, BackoffWakes(b)
  PROVE  Sole'
  <1> USE EnvAssumption DEF NoTrouble, Note, BackoffWakes, Begins, Alone, Return, Up, Go, osVars, lifeVars, regVars, ctlVars, locVars, chanVars, Threads, StartPCs, StopPCs, Busy, Live, Ending, Booting, Leaving, Listed
  <1>0. /\ TypeOK /\ References
        /\ OneAtATime /\ OneAlive /\ BootsAttended /\ EndsAttended /\ Knows /\ Owned
    BY DEF IInv, Sole
  <1>1. OneAtATime'
    BY <1>0 DEF TypeOK, References, OneAtATime
  <1>2. OneAlive'
    BY <1>0 DEF TypeOK, References, OneAlive, Knows, OneAtATime
  <1>3. BootsAttended'
    BY <1>0 DEF TypeOK, References, OneAtATime, OneAlive, BootsAttended, Knows
  <1>4. EndsAttended'
    BY <1>0 DEF TypeOK, References, OneAtATime, OneAlive, EndsAttended, Knows, Owned, BootsAttended
  <1>5. Knows'
    BY <1>0 DEF TypeOK, References, OneAtATime, OneAlive, BootsAttended, EndsAttended, Knows, Owned
  <1>6. Owned'
    BY <1>0 DEF TypeOK, References, OneAtATime, OneAlive, BootsAttended, EndsAttended, Knows, Owned
  <1> QED BY <1>1, <1>2, <1>3, <1>4, <1>5, <1>6 DEF Sole

(* The Run goroutine.                                                      *)
LEMMA HealthSnapshotsKeeps ==
  ASSUME NoTrouble, NoTrouble', IInv, IInv', Sole, HealthSnapshots
  PROVE  Sole'
  <1> USE EnvAssumption DEF NoTrouble, Note, HealthSnapshots, Up, Go, osVars, lifeVars, regVars, ctlVars, locVars, chanVars, Threads, StartPCs, StopPCs, Busy, Live, Ending, Booting, Leaving, Listed
  <1>0. /\ TypeOK /\ References
        /\ OneAtATime /\ OneAlive /\ BootsAttended /\ EndsAttended /\ Knows /\ Owned
    BY DEF IInv, Sole
  <1>1. OneAtATime'
    BY <1>0 DEF TypeOK, References, OneAtATime
  <1>2. OneAlive'
    BY <1>0 DEF TypeOK, References, OneAlive, Knows, OneAtATime
  <1>3. BootsAttended'
    BY <1>0 DEF TypeOK, References, OneAtATime, OneAlive, BootsAttended, Knows
  <1>4. EndsAttended'
    BY <1>0 DEF TypeOK, References, OneAtATime, OneAlive, EndsAttended, Knows, Owned, BootsAttended
  <1>5. Knows'
    BY <1>0 DEF TypeOK, References, OneAtATime, OneAlive, BootsAttended, EndsAttended, Knows, Owned
  <1>6. Owned'
    BY <1>0 DEF TypeOK, References, OneAtATime, OneAlive, BootsAttended, EndsAttended, Knows, Owned
  <1> QED BY <1>1, <1>2, <1>3, <1>4, <1>5, <1>6 DEF Sole

LEMMA HealthSeesLifeKeeps ==
  ASSUME NoTrouble, NoTrouble', IInv, IInv', Sole, HealthSeesLife
  PROVE  Sole'
  <1> USE EnvAssumption DEF NoTrouble, Note, HealthSeesLife, Return, Up, Go, osVars, lifeVars, regVars, ctlVars, locVars, chanVars, Threads, StartPCs, StopPCs, Busy, Live, Ending, Booting, Leaving, Listed
  <1>0. /\ TypeOK /\ References
        /\ OneAtATime /\ OneAlive /\ BootsAttended /\ EndsAttended /\ Knows /\ Owned
    BY DEF IInv, Sole
  <1>1. OneAtATime'
    BY <1>0 DEF TypeOK, References, OneAtATime
  <1>2. OneAlive'
    BY <1>0 DEF TypeOK, References, OneAlive, Knows, OneAtATime
  <1>3. BootsAttended'
    BY <1>0 DEF TypeOK, References, OneAtATime, OneAlive, BootsAttended, Knows
  <1>4. EndsAttended'
    BY <1>0 DEF TypeOK, References, OneAtATime, OneAlive, EndsAttended, Knows, Owned, BootsAttended
  <1>5. Knows'
    BY <1>0 DEF TypeOK, References, OneAtATime, OneAlive, BootsAttended, EndsAttended, Knows, Owned
  <1>6. Owned'
    BY <1>0 DEF TypeOK, References, OneAtATime, OneAlive, BootsAttended, EndsAttended, Knows, Owned
  <1> QED BY <1>1, <1>2, <1>3, <1>4, <1>5, <1>6 DEF Sole

LEMMA HealthSeesDeathKeeps ==
  ASSUME NoTrouble, NoTrouble', IInv, IInv', Sole, HealthSeesDeath
  PROVE  Sole'
  <1> USE EnvAssumption DEF NoTrouble, Note, HealthSeesDeath, Alive, Up, Go, osVars, lifeVars, regVars, ctlVars, locVars, chanVars, Threads, StartPCs, StopPCs, Busy, Live, Ending, Booting, Leaving, Listed
  <1>0. /\ TypeOK /\ References
        /\ OneAtATime /\ OneAlive /\ BootsAttended /\ EndsAttended /\ Knows /\ Owned
    BY DEF IInv, Sole
  <1>1. OneAtATime'
    BY <1>0 DEF TypeOK, References, OneAtATime
  <1>2. OneAlive'
    BY <1>0 DEF TypeOK, References, OneAlive, Knows, OneAtATime
  <1>3. BootsAttended'
    BY <1>0 DEF TypeOK, References, OneAtATime, OneAlive, BootsAttended, Knows
  <1>4. EndsAttended'
    <2> SUFFICES ASSUME NEW p \in Pids, Ending(p)
                 PROVE  /\ Listed /\ \A u \in Threads : pc'[u] \notin StartPCs \ {"check"}
                        /\ \E u \in Threads : pc'[u] \in {"ipc", "term", "wait"} /\ lpid[u] = p
      BY DEF EndsAttended
    <2>1. Listed /\ \A u \in Threads : pc[u] \notin StartPCs \ {"check"}
      BY <1>0 DEF EndsAttended
    <2>2. lpid["run"] # p
      BY DEF Pids
    <2>3. PICK u \in Threads : pc[u] \in {"ipc", "term", "wait"} /\ lpid[u] = p
      BY <1>0, <2>2 DEF EndsAttended
    <2>4. pc'[u] = pc[u]
      BY <1>0, <2>3 DEF TypeOK
    <2>5. \A v \in Threads : pc'[v] \in {pc[v], "dead"}
      BY <1>0 DEF TypeOK
    <2> QED BY <2>1, <2>3, <2>4, <2>5
  <1>5. Knows'
    BY <1>0 DEF TypeOK, References, OneAtATime, OneAlive, BootsAttended, EndsAttended, Knows, Owned
  <1>6. Owned'
    BY <1>0 DEF TypeOK, References, OneAtATime, OneAlive, BootsAttended, EndsAttended, Knows, Owned
  <1> QED BY <1>1, <1>2, <1>3, <1>4, <1>5, <1>6 DEF Sole

LEMMA HealthMarksKeeps ==
  ASSUME NoTrouble, NoTrouble', IInv, IInv', Sole, HealthMarks
  PROVE  Sole'
  <1> USE EnvAssumption DEF NoTrouble, Note, HealthMarks, Up, Go, osVars, lifeVars, regVars, ctlVars, locVars, chanVars, Threads, StartPCs, StopPCs, Busy, Live, Ending, Booting, Leaving, Listed
  <1>0. /\ TypeOK /\ References
        /\ OneAtATime /\ OneAlive /\ BootsAttended /\ EndsAttended /\ Knows /\ Owned
    BY DEF IInv, Sole
  <1>1. OneAtATime'
    BY <1>0 DEF TypeOK, References, OneAtATime
  <1>2. OneAlive'
    BY <1>0 DEF TypeOK, References, OneAlive, Knows, OneAtATime
  <1>3. BootsAttended'
    BY <1>0 DEF TypeOK, References, OneAtATime, OneAlive, BootsAttended, Knows
  <1>4. EndsAttended'
    BY <1>0 DEF TypeOK, References, OneAtATime, OneAlive, EndsAttended, Knows, Owned, BootsAttended
  <1>5. Knows'
    BY <1>0 DEF TypeOK, References, OneAtATime, OneAlive, BootsAttended, EndsAttended, Knows, Owned
  <1>6. Owned'
    BY <1>0 DEF TypeOK, References, OneAtATime, OneAlive, BootsAttended, EndsAttended, Knows, Owned
  <1> QED BY <1>1, <1>2, <1>3, <1>4, <1>5, <1>6 DEF Sole

LEMMA HealthPersistsKeeps ==
  ASSUME NoTrouble, NoTrouble', IInv, IInv', Sole, HealthPersists
  PROVE  Sole'
  <1> USE EnvAssumption DEF NoTrouble, Note, HealthPersists, Return, Up, Go, osVars, lifeVars, regVars, ctlVars, locVars, chanVars, Threads, StartPCs, StopPCs, Busy, Live, Ending, Booting, Leaving, Listed
  <1>0. /\ TypeOK /\ References
        /\ OneAtATime /\ OneAlive /\ BootsAttended /\ EndsAttended /\ Knows /\ Owned
    BY DEF IInv, Sole
  <1>1. OneAtATime'
    BY <1>0 DEF TypeOK, References, OneAtATime
  <1>2. OneAlive'
    BY <1>0 DEF TypeOK, References, OneAlive, Knows, OneAtATime
  <1>3. BootsAttended'
    BY <1>0 DEF TypeOK, References, OneAtATime, OneAlive, BootsAttended, Knows
  <1>4. EndsAttended'
    BY <1>0 DEF TypeOK, References, OneAtATime, OneAlive, EndsAttended, Knows, Owned, BootsAttended
  <1>5. Knows'
    BY <1>0 DEF TypeOK, References, OneAtATime, OneAlive, BootsAttended, EndsAttended, Knows, Owned
  <1>6. Owned'
    BY <1>0 DEF TypeOK, References, OneAtATime, OneAlive, BootsAttended, EndsAttended, Knows, Owned
  <1> QED BY <1>1, <1>2, <1>3, <1>4, <1>5, <1>6 DEF Sole

LEMMA HealthSchedulesKeeps ==
  ASSUME NoTrouble, NoTrouble', IInv, IInv', Sole, HealthSchedules
  PROVE  Sole'
  <1> USE EnvAssumption DEF NoTrouble, Note, HealthSchedules, Up, Go, osVars, lifeVars, regVars, ctlVars, locVars, chanVars, Threads, StartPCs, StopPCs, Busy, Live, Ending, Booting, Leaving, Listed
  <1>0. /\ TypeOK /\ References
        /\ OneAtATime /\ OneAlive /\ BootsAttended /\ EndsAttended /\ Knows /\ Owned
    BY DEF IInv, Sole
  <1>1. OneAtATime'
    BY <1>0 DEF TypeOK, References, OneAtATime
  <1>2. OneAlive'
    BY <1>0 DEF TypeOK, References, OneAlive, Knows, OneAtATime
  <1>3. BootsAttended'
    BY <1>0 DEF TypeOK, References, OneAtATime, OneAlive, BootsAttended, Knows
  <1>4. EndsAttended'
    BY <1>0 DEF TypeOK, References, OneAtATime, OneAlive, EndsAttended, Knows, Owned, BootsAttended
  <1>5. Knows'
    BY <1>0 DEF TypeOK, References, OneAtATime, OneAlive, BootsAttended, EndsAttended, Knows, Owned
  <1>6. Owned'
    BY <1>0 DEF TypeOK, References, OneAtATime, OneAlive, BootsAttended, EndsAttended, Knows, Owned
  <1> QED BY <1>1, <1>2, <1>3, <1>4, <1>5, <1>6 DEF Sole

LEMMA RunShutsDownKeeps ==
  ASSUME NoTrouble, NoTrouble', IInv, IInv', Sole, RunShutsDown
  PROVE  Sole'
  <1> USE EnvAssumption DEF NoTrouble, Note, RunShutsDown, Up, Go, osVars, lifeVars, regVars, ctlVars, locVars, chanVars, Threads, StartPCs, StopPCs, Busy, Live, Ending, Booting, Leaving, Listed
  <1>0. /\ TypeOK /\ References
        /\ OneAtATime /\ OneAlive /\ BootsAttended /\ EndsAttended /\ Knows /\ Owned
    BY DEF IInv, Sole
  <1>1. OneAtATime'
    BY <1>0 DEF TypeOK, References, OneAtATime
  <1>2. OneAlive'
    BY <1>0 DEF TypeOK, References, OneAlive, Knows, OneAtATime
  <1>3. BootsAttended'
    BY <1>0 DEF TypeOK, References, OneAtATime, OneAlive, BootsAttended, Knows
  <1>4. EndsAttended'
    BY <1>0 DEF TypeOK, References, OneAtATime, OneAlive, EndsAttended, Knows, Owned, BootsAttended
  <1>5. Knows'
    BY <1>0 DEF TypeOK, References, OneAtATime, OneAlive, BootsAttended, EndsAttended, Knows, Owned
  <1>6. Owned'
    BY <1>0 DEF TypeOK, References, OneAtATime, OneAlive, BootsAttended, EndsAttended, Knows, Owned
  <1> QED BY <1>1, <1>2, <1>3, <1>4, <1>5, <1>6 DEF Sole

LEMMA RunReturnsKeeps ==
  ASSUME NoTrouble, NoTrouble', IInv, IInv', Sole, RunReturns
  PROVE  Sole'
  <1> USE EnvAssumption DEF NoTrouble, Note, RunReturns, SupervisorEnds, NoDaemon, Dead, Up, Go, osVars, lifeVars, regVars, ctlVars, locVars, chanVars, Threads, StartPCs, StopPCs, Busy, Live, Ending, Booting, Leaving, Listed
  <1>0. /\ TypeOK /\ References
        /\ OneAtATime /\ OneAlive /\ BootsAttended /\ EndsAttended /\ Knows /\ Owned
    BY DEF IInv, Sole
  <1>1. OneAtATime'
    BY <1>0 DEF TypeOK, References, OneAtATime
  <1>2. OneAlive'
    BY <1>0 DEF TypeOK, References, OneAlive, Knows, OneAtATime
  <1>3. BootsAttended'
    BY <1>0 DEF TypeOK, References, OneAtATime, OneAlive, BootsAttended, Knows
  <1>4. EndsAttended'
    BY <1>0 DEF TypeOK, References, OneAtATime, OneAlive, EndsAttended, Knows, Owned, BootsAttended
  <1>5. Knows'
    BY <1>0 DEF TypeOK, References, OneAtATime, OneAlive, BootsAttended, EndsAttended, Knows, Owned
  <1>6. Owned'
    BY <1>0 DEF TypeOK, References, OneAtATime, OneAlive, BootsAttended, EndsAttended, Knows, Owned
  <1> QED BY <1>1, <1>2, <1>3, <1>4, <1>5, <1>6 DEF Sole

LEMMA WaiterReturnsKeeps ==
  ASSUME NoTrouble, NoTrouble', IInv, IInv', Sole, NEW w \in waiters, WaiterReturns(w)
  PROVE  Sole'
  <1> USE EnvAssumption DEF NoTrouble, Note, WaiterReturns, SupervisorEnds, NoDaemon, Up, Go, osVars, lifeVars, regVars, ctlVars, locVars, chanVars, Threads, StartPCs, StopPCs, Busy, Live, Ending, Booting, Leaving, Listed
  <1>0. /\ TypeOK /\ References
        /\ OneAtATime /\ OneAlive /\ BootsAttended /\ EndsAttended /\ Knows /\ Owned
    BY DEF IInv, Sole
  <1>1. OneAtATime'
    BY <1>0 DEF TypeOK, References, OneAtATime
  <1>2. OneAlive'
    BY <1>0 DEF TypeOK, References, OneAlive, Knows, OneAtATime
  <1>3. BootsAttended'
    BY <1>0 DEF TypeOK, References, OneAtATime, OneAlive, BootsAttended, Knows
  <1>4. EndsAttended'
    BY <1>0 DEF TypeOK, References, OneAtATime, OneAlive, EndsAttended, Knows, Owned, BootsAttended
  <1>5. Knows'
    BY <1>0 DEF TypeOK, References, OneAtATime, OneAlive, BootsAttended, EndsAttended, Knows, Owned
  <1>6. Owned'
    BY <1>0 DEF TypeOK, References, OneAtATime, OneAlive, BootsAttended, EndsAttended, Knows, Owned
  <1> QED BY <1>1, <1>2, <1>3, <1>4, <1>5, <1>6 DEF Sole

(* The supervisor process.                                                 *)
LEMMA SupervisorCrashesKeeps ==
  ASSUME NoTrouble, NoTrouble', IInv, IInv', Sole, SupervisorCrashes
  PROVE  Sole'
  <1> USE EnvAssumption DEF NoTrouble, Note, SupervisorCrashes, SupervisorEnds, NoDaemon, Up, Go, osVars, lifeVars, regVars, ctlVars, locVars, chanVars, Threads, StartPCs, StopPCs, Busy, Live, Ending, Booting, Leaving, Listed
  <1>0. /\ TypeOK /\ References
        /\ OneAtATime /\ OneAlive /\ BootsAttended /\ EndsAttended /\ Knows /\ Owned
    BY DEF IInv, Sole
  <1>1. OneAtATime'
    BY <1>0 DEF TypeOK, References, OneAtATime
  <1>2. OneAlive'
    BY <1>0 DEF TypeOK, References, OneAlive, Knows, OneAtATime
  <1>3. BootsAttended'
    BY <1>0 DEF TypeOK, References, OneAtATime, OneAlive, BootsAttended, Knows
  <1>4. EndsAttended'
    BY <1>0 DEF TypeOK, References, OneAtATime, OneAlive, EndsAttended, Knows, Owned, BootsAttended
  <1>5. Knows'
    BY <1>0 DEF TypeOK, References, OneAtATime, OneAlive, BootsAttended, EndsAttended, Knows, Owned
  <1>6. Owned'
    BY <1>0 DEF TypeOK, References, OneAtATime, OneAlive, BootsAttended, EndsAttended, Knows, Owned
  <1> QED BY <1>1, <1>2, <1>3, <1>4, <1>5, <1>6 DEF Sole

LEMMA SupervisorStartsKeeps ==
  ASSUME NoTrouble, NoTrouble', IInv, IInv', Sole, SupervisorStarts
  PROVE  Sole'
  <1> USE EnvAssumption DEF NoTrouble, Note, SupervisorStarts, NoDaemon, Make, Adoptable, Alive, Answers, Up, Go, osVars, lifeVars, regVars, ctlVars, locVars, chanVars, Threads, StartPCs, StopPCs, Busy, Live, Ending, Booting, Leaving, Listed
  <1>0. /\ TypeOK /\ References
        /\ OneAtATime /\ OneAlive /\ BootsAttended /\ EndsAttended /\ Knows /\ Owned
    BY DEF IInv, Sole
  <1>1. OneAtATime'
    BY <1>0 DEF TypeOK, References, OneAtATime
  <1>2. OneAlive'
    BY <1>0 DEF TypeOK, References, OneAlive, Knows, OneAtATime
  <1>3. BootsAttended'
    BY <1>0 DEF TypeOK, References, OneAtATime, OneAlive, BootsAttended, Knows
  <1>4. EndsAttended'
    <2> DEFINE active == reg \in {"running", "starting", "reloading", "crashed"}
    <2>1. ASSUME NEW p \in Pids, Live(p) PROVE pidfile = p /\ Adoptable
      <3>1. ps[p] \in {"serving", "deaf", "closing"}
        BY <1>0, <2>1 DEF TypeOK
      <3>2. sock = p /\ pidfile = p /\ p # 0
        BY <1>0, <3>1 DEF OneAlive, Pids
      <3> QED BY <3>1, <3>2
    <2>2. CASE active /\ Adoptable
      <3>1. d'.state = "running" /\ d'.pid = pidfile /\ reg' = "running"
        BY <2>2
      <3>2. \A t \in Threads : pc'[t] = "idle"
        BY <1>0 DEF References
      <3>3. \A p \in Pids : Ending(p)' => Ending(p) /\ Live(p)
        OBVIOUS
      <3>4. "run" \in Threads
        OBVIOUS
      <3> QED BY <2>1, <3>1, <3>2, <3>3, <3>4 DEF EndsAttended
    <2>3. CASE ~(active /\ Adoptable)
      <3>1. ASSUME NEW p \in Pids, Ending(p)' PROVE FALSE
        <4>1. Ending(p) /\ Live(p)
          BY <3>1
        <4>2. Adoptable /\ Listed
          BY <1>0, <2>1, <4>1 DEF EndsAttended
        <4>3. active
          BY <1>0, <4>2 DEF TypeOK
        <4> QED BY <2>3, <4>2, <4>3
      <3> QED BY <3>1 DEF EndsAttended
    <2> QED BY <2>2, <2>3
  <1>5. Knows'
    BY <1>0 DEF TypeOK, References, OneAtATime, OneAlive, BootsAttended, EndsAttended, Knows, Owned
  <1>6. Owned'
    <2> DEFINE active == reg \in {"running", "starting", "reloading", "crashed"}
    <2>1. ASSUME NEW p \in Pids, Live(p) PROVE pidfile = p /\ Adoptable
      <3>1. ps[p] \in {"serving", "deaf", "closing"}
        BY <1>0, <2>1 DEF TypeOK
      <3>2. sock = p /\ pidfile = p /\ p # 0
        BY <1>0, <3>1 DEF OneAlive, Pids
      <3> QED BY <3>1, <3>2
    <2>2. CASE active /\ Adoptable
      <3>1. d'.state = "running" /\ d'.pid = pidfile /\ reg' = "running"
        BY <2>2
      <3>2. \A p \in Pids : Live(p)' => d'.pid = p
        BY <2>1, <3>1
      <3> QED BY <3>1, <3>2 DEF Owned
    <2>3. CASE ~(active /\ Adoptable)
      <3>1. d'.state = IF active THEN "crashed" ELSE "stopped"
        BY <2>3
      <3>2. pc'["run"] = "idle"
        BY <1>0 DEF References
      <3>3. \A p \in Pids : Live(p)' => ~active
        BY <2>1, <2>3
      <3> QED BY <3>1, <3>2, <3>3 DEF Owned
    <2> QED BY <2>2, <2>3
  <1> QED BY <1>1, <1>2, <1>3, <1>4, <1>5, <1>6 DEF Sole

-----------------------------------------------------------------------------
(* The invariant.                                                          *)
LEMMA InitSole == ASSUME Init PROVE Sole
  <1> USE DEF Init, NoDaemon, StartPCs, StopPCs, Busy, Live, Ending, Booting, Threads
  <1>1. OneAtATime
    BY DEF OneAtATime
  <1>2. OneAlive /\ BootsAttended /\ EndsAttended
    BY DEF OneAlive, BootsAttended, EndsAttended
  <1>3. Knows /\ Owned
    BY DEF Knows, Owned
  <1> QED BY <1>1, <1>2, <1>3 DEF Sole

LEMMA StepSole ==
  ASSUME NoTrouble, NoTrouble', IInv, Sole, [Next]_vars
  PROVE  Sole'
  <1>0. IInv'
    BY NextIInv
  <1>1. ASSUME NEW p \in Pids,
               \/ WritesPid(p) \/ Binds(p) \/ BootFails(p) \/ LosesSource(p)
               \/ Unbinds(p) \/ Exits(p) \/ DaemonCrashes(p)
        PROVE  Sole'
    BY <1>0, <1>1, WritesPidKeeps, BindsKeeps, BootFailsKeeps, LosesSourceKeeps, UnbindsKeeps,
       ExitsKeeps, DaemonCrashesKeeps
  <1>2. ASSUME NEW t \in Threads, Start(t) PROVE Sole'
    BY <1>0, <1>2, StartChecksKeeps, StartLooksForOrphanKeeps, StartAdoptsKeeps,
       StartCleansKeeps, StartMarksKeeps, StartSpawnsKeeps, StartCannotSpawnKeeps,
       StartSetsPidKeeps, StartProbesKeeps, StartTimesOutKeeps, StartGivesUpKeeps,
       StartPersistsKeeps, StartFinishesKeeps
    DEF Start
  <1>3. ASSUME NEW t \in Threads, Stop(t) PROVE Sole'
    BY <1>0, <1>3, StopBeginsKeeps, StopAsksKeeps, StopTerminatesKeeps, StopWaitsKeeps,
       StopPersistsKeeps
    DEF Stop
  <1>4. ASSUME NEW c \in Clients, Command(c) PROVE Sole'
    BY <1>0, <1>4, AsksStartKeeps, AsksStopKeeps, AsksRestartKeeps, AsksReloadKeeps,
       AsksQuitKeeps
    DEF Command
  <1>5. ASSUME NEW b \in Backoffs, BackoffWakes(b) PROVE Sole'
    BY <1>0, <1>5, BackoffWakesKeeps
  <1>6. CASE Health
    BY <1>0, <1>6, HealthSnapshotsKeeps, HealthSeesLifeKeeps, HealthSeesDeathKeeps,
       HealthMarksKeeps, HealthPersistsKeeps, HealthSchedulesKeeps, RunShutsDownKeeps,
       RunReturnsKeeps
    DEF Health
  <1>7. ASSUME NEW w \in waiters, WaiterReturns(w) PROVE Sole'
    BY <1>0, <1>7, WaiterReturnsKeeps
  <1>8. CASE SupervisorCrashes \/ SupervisorStarts
    BY <1>0, <1>8, SupervisorCrashesKeeps, SupervisorStartsKeeps
  <1>9. CASE UNCHANGED vars
    <2>1. UNCHANGED <<ps, child, pidfile, sock, sup, d, reg, shutdown, pc, op, lpid>>
      BY <1>9 DEF vars, osVars, lifeVars, regVars, ctlVars, locVars
    <2> QED BY <2>1 DEF Sole, OneAtATime, OneAlive, BootsAttended, EndsAttended, Knows, Owned,
            Busy, Live, Ending, Booting, Listed
  <1> QED
    BY <1>1, <1>2, <1>3, <1>4, <1>5, <1>6, <1>7, <1>8, <1>9 DEF Next, Daemons

(* What has gone wrong once stays so: trouble is never forgotten.          *)
LEMMA TroubleStays == ASSUME [Next]_vars, NoTrouble' PROVE NoTrouble
  <1> USE DEF NoTrouble, Note, ctlVars
  <1>1. ASSUME NEW p \in Pids,
               \/ WritesPid(p) \/ Binds(p) \/ BootFails(p) \/ LosesSource(p)
               \/ Unbinds(p) \/ Exits(p) \/ DaemonCrashes(p)
        PROVE  NoTrouble
    BY <1>1 DEF WritesPid, Binds, BootFails, LosesSource, Unbinds, Exits, DaemonCrashes
  <1>2. ASSUME NEW t \in Threads, Start(t) \/ Stop(t) PROVE NoTrouble
    BY <1>2 DEF Start, Stop, StartChecks, StartLooksForOrphan, StartAdopts, StartCleans,
                StartMarks, StartSpawns, StartCannotSpawn, StartSetsPid, StartProbes,
                StartTimesOut, StartGivesUp, StartPersists, StartFinishes, StopBegins,
                StopAsks, StopTerminates, StopWaits, StopPersists
  <1>3. ASSUME NEW t \in Clients \cup Backoffs, Command(t) \/ BackoffWakes(t) PROVE NoTrouble
    BY <1>3 DEF Command, AsksStart, AsksStop, AsksRestart, AsksReload, AsksQuit, Request,
                BackoffWakes, Begins
  <1>4. CASE Health \/ SupervisorCrashes \/ SupervisorStarts \/ UNCHANGED vars
    BY <1>4 DEF Health, HealthSnapshots, HealthSeesLife, HealthSeesDeath, HealthMarks,
                HealthPersists, HealthSchedules, RunShutsDown, RunReturns, SupervisorEnds,
                SupervisorCrashes, SupervisorStarts, vars
  <1>5. ASSUME NEW w \in waiters, WaiterReturns(w) PROVE NoTrouble
    BY <1>5 DEF WaiterReturns, SupervisorEnds
  <1> QED BY <1>1, <1>2, <1>3, <1>4, <1>5 DEF Next, Daemons

SoleUntilTrouble == NoTrouble => Sole

LEMMA AlwaysSole == Spec => [](IInv /\ SoleUntilTrouble)
  <1>1. Init => IInv /\ SoleUntilTrouble
    BY InitIInv, InitSole DEF SoleUntilTrouble
  <1>2. (IInv /\ SoleUntilTrouble) /\ [Next]_vars => (IInv /\ SoleUntilTrouble)'
    BY NextIInv, StepSole, TroubleStays DEF SoleUntilTrouble
  <1> QED BY <1>1, <1>2, PTL DEF Spec

(* Whatever crashes and is started again, of the daemons or of the         *)
(* supervisor, and whether or not anyone reaps its children: two daemons   *)
(* do not watch one project before one of the four troubles has come up    *)
(* (Start, adoptDaemon, cleanStaleDaemonState, Stop, LoadFromRegistry).    *)
THEOREM NeverTwoWatchers == Spec => []OneWatcherPerRoot
  <1>1. IInv /\ SoleUntilTrouble => OneWatcherPerRoot
    <2> SUFFICES ASSUME Sole PROVE Cardinality(Watching) <= 1
      BY DEF OneWatcherPerRoot, SoleUntilTrouble, NoTrouble
    <2>1. \A p, q \in Watching : p = q
      BY DEF Sole, OneAlive, Watching, Live
    <2>2. CASE Watching = {}
      BY <2>2, FS_EmptySet
    <2>3. CASE Watching # {}
      <3>1. PICK p \in Watching : TRUE
        BY <2>3
      <3>2. Watching = {p}
        BY <2>1, <3>1
      <3>3. Cardinality({p}) = 1
        BY FS_Singleton
      <3> QED BY <3>2, <3>3
    <2> QED BY <2>2, <2>3
  <1> QED BY AlwaysSole, <1>1, PTL

(* Until then the daemon that watches is the one its two files lead to: no *)
(* exit or cleanup of an earlier one takes them away (adoptDaemon).        *)
THEOREM WatcherStaysAdoptable == Spec => []WatcherIsAdoptable
  <1>1. IInv /\ SoleUntilTrouble => WatcherIsAdoptable
    BY DEF Sole, OneAlive, Watching, WatcherIsAdoptable, SoleUntilTrouble, NoTrouble
  <1> QED BY AlwaysSole, <1>1, PTL

(* Until then a Stop that says stopped has ended whatever watched the      *)
(* project, and not only the process its record named (Stop, killProcess). *)
THEOREM StopsReallyStop == Spec => StopLeavesNoWatcher
  <1>1. (IInv /\ SoleUntilTrouble) /\ (IInv /\ SoleUntilTrouble)' =>
          [\A t \in Threads : /\ pc[t] = "wait" /\ pc'[t] = "unlist"
                              /\ trouble' = "none"
                              => Watching' = {}]_vars
    <2> SUFFICES ASSUME Sole', NEW t \in Threads, pc'[t] = "unlist"
                 PROVE  Watching' = {}
      BY DEF SoleUntilTrouble, NoTrouble
    <2>1. \A p \in Pids : ~(Live(p)')
      BY DEF Sole, Knows
    <2> QED BY <2>1 DEF Watching, Live
  <1> QED BY AlwaysSole, <1>1, PTL DEF StopLeavesNoWatcher

-----------------------------------------------------------------------------
(***************************************************************************)
(* That the supervisor's table of daemons (Registry) stays sound, for any  *)
(* number of roots, goroutines, writes, failed saves and crashes: what the *)
(* mutex of Find, Upsert and Save achieves although the writes through     *)
(* Find's pointers go around it.                                           *)
(*                                                                         *)
(* A write through a pointer touches the record of some root (PointersFit) *)
(* or an abandoned array, never the name a record goes by, so the table    *)
(* keeps one record per root (RootsUnique) while Save permutes it          *)
(* (SortedPermutes).  Who has changed the table has still to save it, and  *)
(* what is being renamed is what a quiet table holds (ImageIsMem); every   *)
(* root of the file is in the table, and in the image that will replace    *)
(* the file (RootsKept).                                                   *)
(***************************************************************************)
Record == [root : Roots, last : 0..MaxStamps]

RootsOf(s) == {s[i].root : i \in DOMAIN s}
Unique(s)  == \A i, j \in DOMAIN s : s[i].root = s[j].root => i = j

(* The mutex is held by the goroutine that saves.                          *)
Mutex == \A t \in Goroutines : mu = t <=> step[t] \in {"sort", "rename"}

(* A pointer into the array in use is a pointer to a record.               *)
PointersFit ==
  \A t \in Goroutines :
    step[t] = "write" => \/ ptr[t][1] < array
                         \/ ptr[t][1] = array /\ ptr[t][2] \in DOMAIN mem

RootsUnique == Unique(mem) /\ Unique(image) /\ Unique(disk)

(* A record is up to date unless a pointer went astray.                    *)
Current ==
  \A i \in DOMAIN mem :
    mem[i].root \in strayed \/ mem[i].last = latest[mem[i].root]

Settled == \A t \in Goroutines : step[t] # "save"

(* Unless somebody waits to save, what is being renamed is the table.      *)
ImageIsMem ==
  \A t \in Goroutines : step[t] = "rename" /\ Settled => image = mem

(* Nothing is left to save: the file is the table.                         *)
SavedUnlessDue ==
  \/ \E t \in Goroutines : step[t] \in {"save", "sort", "rename"}
  \/ unsaved \/ disk = mem

(* What the file knows, the table and the file's successor know.           *)
RootsKept ==
  /\ RootsOf(disk) \subseteq RootsOf(mem)
  /\ \A t \in Goroutines : step[t] = "rename" =>
       RootsOf(disk) \subseteq RootsOf(image) /\ RootsOf(image) \subseteq RootsOf(mem)

TableInv ==
  /\ TableTypeOK
  /\ Mutex
  /\ PointersFit
  /\ RootsUnique
  /\ Current
  /\ ImageIsMem
  /\ SavedUnlessDue
  /\ RootsKept

-----------------------------------------------------------------------------
(* Sort.Slice by root.  The place of a record in the sorted table is the   *)
(* number of records whose root is not greater.                            *)
Rank(s, i) == Cardinality({j \in DOMAIN s : s[j].root <= s[i].root})

LEMMA RecordsAre ==
  ASSUME NEW s \in Seq(Record)
  PROVE  /\ Len(s) \in Nat /\ DOMAIN s = 1..Len(s)
         /\ \A i \in 1..Len(s) : /\ s[i] \in Record /\ s[i].root \in Roots
                                 /\ s[i].root \in Nat /\ s[i].last \in 0..MaxStamps
  <1>1. \A r \in Record : r.root \in Roots /\ r.last \in 0..MaxStamps
    BY DEF Record
  <1>2. /\ Len(s) \in Nat /\ DOMAIN s = 1..Len(s)
        /\ \A i \in 1..Len(s) : s[i] \in Record
    OBVIOUS
  <1> QED
    BY <1>1, <1>2, RegistryAssumption

LEMMA RankIsInjective ==
  ASSUME NEW s \in Seq(Record), Unique(s)
  PROVE  /\ \A i \in 1..Len(s) : Rank(s, i) \in 1..Len(s)
         /\ \A i, k \in 1..Len(s) :
              s[i].root < s[k].root => Rank(s, i) < Rank(s, k)
  <1>1. /\ Len(s) \in Nat /\ DOMAIN s = 1..Len(s)
        /\ \A i \in 1..Len(s) : s[i].root \in Nat
    BY RecordsAre
  <1>2. IsFiniteSet(1..Len(s)) /\ Cardinality(1..Len(s)) = Len(s)
    BY <1>1, FS_Interval
  <1> DEFINE upTo(i) == {j \in DOMAIN s : s[j].root <= s[i].root}
  <1>3. \A i \in 1..Len(s) :
          /\ IsFiniteSet(upTo(i)) /\ Cardinality(upTo(i)) <= Len(s)
          /\ Cardinality(upTo(i)) \in Nat
    BY <1>1, <1>2, FS_Subset, FS_CardinalityType
  <1>4. ASSUME NEW i \in 1..Len(s) PROVE Cardinality(upTo(i)) # 0
    <2>1. i \in upTo(i)
      BY <1>1
    <2> QED
      BY <2>1, <1>3, FS_EmptySet
  <1>5. ASSUME NEW i \in 1..Len(s), NEW k \in 1..Len(s), s[i].root < s[k].root
        PROVE  Cardinality(upTo(i)) < Cardinality(upTo(k))
    <2>1. upTo(i) \in SUBSET upTo(k) /\ k \in upTo(k) /\ k \notin upTo(i)
      BY <1>1, <1>5
    <2>2. /\ Cardinality(upTo(i)) <= Cardinality(upTo(k))
          /\ Cardinality(upTo(i)) # Cardinality(upTo(k))
      BY <2>1, <1>3, FS_Subset
    <2> HIDE DEF upTo
    <2> QED
      BY <2>2, <1>3
  <1> QED
    <2>1. \A i \in 1..Len(s) : Rank(s, i) = Cardinality(upTo(i))
      BY DEF Rank
    <2> HIDE DEF upTo
    <2> QED BY <2>1, <1>1, <1>3, <1>4, <1>5

(* Save permutes the table: it loses, doubles and changes no record, so    *)
(* that a table with one record per root stays one.                        *)
LEMMA SortedPermutes ==
  ASSUME NEW s \in Seq(Record), Unique(s)
  PROVE  /\ Sorted(s) \in Seq(Record) /\ Len(Sorted(s)) = Len(s)
         /\ Unique(Sorted(s))
         /\ \A i \in DOMAIN Sorted(s) : \E j \in DOMAIN s : Sorted(s)[i] = s[j]
         /\ \A j \in DOMAIN s : \E i \in DOMAIN Sorted(s) : Sorted(s)[i] = s[j]
  <1> DEFINE I == 1..Len(s)
             perm == CHOOSE p \in Bijection(I, I) : IsSortedBy(s, p)
             r == [i \in I |-> Rank(s, i)]
  <1>1. /\ Len(s) \in Nat /\ DOMAIN s = I
        /\ \A i \in I : s[i] \in Record /\ s[i].root \in Nat
    BY RegistryAssumption, RecordsAre
  <1>2. \A i, k \in I : s[i].root # s[k].root \/ i = k
    BY <1>1 DEF Unique
  <1>3. r \in Injection(I, I)
    <2>1. r \in [I -> I]
      BY RankIsInjective
    <2>2. ASSUME NEW i \in I, NEW k \in I, r[i] = r[k] PROVE i = k
      <3>1. Rank(s, i) = Rank(s, k) /\ Rank(s, i) \in Nat
        BY <2>2, RankIsInjective, <1>1
      <3>2. ~ (s[i].root < s[k].root) /\ ~ (s[k].root < s[i].root)
        BY <3>1, RankIsInjective
      <3> QED BY <3>2, <1>1, <1>2
    <2> QED BY <2>1, <2>2 DEF Injection, IsInjective
  <1>4. r \in Surjection(I, I)
    BY <1>1, <1>3, FS_Interval, FS_Injection
  <1>5. PICK q \in [I -> I] : \A i \in I : r[q[i]] = i
    <2>1. \A i \in I : \E j \in I : r[j] = i
      BY <1>4 DEF Surjection
    <2>2. [i \in I |-> CHOOSE j \in I : r[j] = i] \in [I -> I]
      BY <2>1
    <2> QED
      BY <2>1, <2>2
  <1>6. q \in Bijection(I, I)
    <2>1. ASSUME NEW w \in I PROVE \E v \in I : q[v] = w
      <3>1. r[w] \in I /\ r[q[r[w]]] = r[w]
        BY <1>3, <1>5 DEF Injection
      <3>2. q[r[w]] = w
        BY <1>3, <1>5, <3>1 DEF Injection, IsInjective
      <3> QED BY <3>1, <3>2
    <2>2. \A i, k \in I : q[i] = q[k] => i = k
      BY <1>5
    <2> QED BY <2>1, <2>2 DEF Bijection, Injection, Surjection, IsInjective
  <1>7. IsSortedBy(s, q)
    <2>1. ASSUME NEW i \in I, NEW j \in I, i < j PROVE s[q[i]].root <= s[q[j]].root
      <3>1. /\ q[i] \in I /\ q[j] \in I
            /\ Rank(s, q[i]) = i /\ Rank(s, q[j]) = j
        BY <1>5
      <3>2. s[q[j]].root < s[q[i]].root => Rank(s, q[j]) < Rank(s, q[i])
        BY <3>1, RankIsInjective
      <3>3. i \in Nat /\ j \in Nat
        BY <1>1
      <3>4. ~ (s[q[j]].root < s[q[i]].root)
        BY <3>1, <3>2, <2>1, <3>3
      <3> QED BY <1>1, <3>1, <3>4
    <2> QED BY <2>1 DEF IsSortedBy
  <1>8. perm \in Bijection(I, I)
    BY <1>6, <1>7
  <1>9. Sorted(s) = [i \in I |-> s[perm[i]]]
    BY DEF Sorted
  <1>10. /\ perm \in [I -> I] /\ \A w \in I : \E v \in I : perm[v] = w
         /\ \A i, k \in I : perm[i] = perm[k] => i = k
    BY <1>8 DEF Bijection, Injection, Surjection, IsInjective
  <1> HIDE DEF perm
  <1>11. Sorted(s) \in Seq(Record) /\ Len(Sorted(s)) = Len(s) /\ DOMAIN Sorted(s) = I
    BY <1>1, <1>9, <1>10
  <1>12. Unique(Sorted(s))
    <2>1. ASSUME NEW i \in I, NEW j \in I, Sorted(s)[i].root = Sorted(s)[j].root
          PROVE  i = j
      <3>1. /\ perm[i] \in I /\ perm[j] \in I
            /\ Sorted(s)[i] = s[perm[i]] /\ Sorted(s)[j] = s[perm[j]]
        BY <1>9, <1>10
      <3>2. perm[i] = perm[j]
        BY <2>1, <3>1, <1>2
      <3> QED BY <3>2, <1>10
    <2> QED BY <2>1, <1>11 DEF Unique
  <1>13. \A i \in I : perm[i] \in I /\ Sorted(s)[i] = s[perm[i]]
    BY <1>9, <1>10
  <1>14. \A w \in I : \E v \in I : Sorted(s)[v] = s[w]
    <2>1. \A w \in I : \E v \in I : perm[v] = w /\ Sorted(s)[v] = s[perm[v]]
      BY <1>10, <1>13
    <2> QED BY <2>1
  <1> QED
    BY <1>1, <1>11, <1>12, <1>13, <1>14

-----------------------------------------------------------------------------
LEMMA TableIs ==
  ASSUME TableTypeOK
  PROVE  /\ mem \in Seq(Record) /\ Len(mem) \in Nat /\ Len(mem) <= cap /\ cap \in Nat
         /\ array \in Nat /\ \A t \in Goroutines : root[t] \in Roots
  BY DEF TableTypeOK, Records, Record

(* Both ways of looking for a record agree.                                *)
LEMMA PlacesAreInDomain ==
  ASSUME NEW s, NEW r
  PROVE  /\ Places(s, r) \subseteq DOMAIN s
         /\ \A i \in Places(s, r) : s[i].root = r
         /\ Places(s, r) # {} <=> r \in RootsOf(s)
  BY DEF Places, RootsOf

(* Sorting keeps what the invariant says of a table.                       *)
LEMMA SortedKeeps ==
  ASSUME NEW s \in Seq(Record), Unique(s)
  PROVE  /\ Sorted(s) \in Seq(Record) /\ Len(Sorted(s)) = Len(s)
         /\ DOMAIN Sorted(s) = DOMAIN s
         /\ Unique(Sorted(s))
         /\ RootsOf(Sorted(s)) = RootsOf(s)
         /\ \A Q : (\A i \in DOMAIN s : s[i] \in Q)
                  => (\A i \in DOMAIN Sorted(s) : Sorted(s)[i] \in Q)
  <1>1. /\ Sorted(s) \in Seq(Record) /\ Len(Sorted(s)) = Len(s)
        /\ Unique(Sorted(s))
        /\ \A i \in DOMAIN Sorted(s) : \E j \in DOMAIN s : Sorted(s)[i] = s[j]
        /\ \A j \in DOMAIN s : \E i \in DOMAIN Sorted(s) : Sorted(s)[i] = s[j]
    BY SortedPermutes
  <1>2. DOMAIN Sorted(s) = DOMAIN s
    BY <1>1
  <1>3. RootsOf(Sorted(s)) = RootsOf(s)
    BY <1>1 DEF RootsOf
  <1> QED
    BY <1>1, <1>2, <1>3

(* A write through a pointer lands on a record of the table, or nowhere.   *)
LEMMA HitsAreRecords ==
  ASSUME TableInv, NEW t \in Goroutines, step[t] = "write"
  PROVE  Hits(ptr[t]) \subseteq {0} \cup DOMAIN mem
  <1>1. CASE ptr[t][1] # array
    BY <1>1 DEF Hits
  <1>2. CASE ptr[t][1] = array
    <2>1. ptr[t][2] \in DOMAIN mem
      BY <1>2 DEF TableInv, PointersFit, TableTypeOK
    <2> DEFINE later == CHOOSE j \in DOMAIN mem :
                          mem[j].root = Sorted(mem)[ptr[t][2]].root
    <2>2. mem \in Seq(Record) /\ Unique(mem)
      BY DEF TableInv, TableTypeOK, RootsUnique, Records, Record
    <2>3. DOMAIN Sorted(mem) = DOMAIN mem
      BY <2>2, SortedKeeps
    <2>4. \E j \in DOMAIN mem : mem[j].root = Sorted(mem)[ptr[t][2]].root
      <3>1. \A i \in DOMAIN Sorted(mem) : \E j \in DOMAIN mem : Sorted(mem)[i] = mem[j]
        BY <2>2, SortedPermutes
      <3>2. PICK j \in DOMAIN mem : Sorted(mem)[ptr[t][2]] = mem[j]
        BY <2>1, <2>3, <3>1
      <3> QED BY <3>2
    <2>5. later \in DOMAIN mem
      BY <2>4
    <2>6. Hits(ptr[t]) \subseteq {ptr[t][2], later, 0}
      BY <1>2 DEF Hits
    <2> QED BY <2>1, <2>5, <2>6
  <1> QED BY <1>1, <1>2

-----------------------------------------------------------------------------
LEMMA InitTable == TableInit => TableInv
  <1> SUFFICES ASSUME TableInit PROVE TableInv
    OBVIOUS
  <1>1. TableTypeOK
    <2>1. Nil \in Nat \X Nat /\ NoWrite \in 0..MaxStamps /\ 0 \in 0..MaxFailures
      BY RegistryAssumption DEF Nil, NoWrite
    <2>2. ptr \in [Goroutines -> Nat \X Nat] /\ latest \in [Roots -> 0..MaxStamps]
      BY <2>1 DEF TableInit
    <2>3. mem \in Records /\ image \in Records /\ disk \in Records
      BY DEF TableInit, Records
    <2>4. stamp \in 0..MaxStamps
      BY <2>1 DEF TableInit, NoWrite
    <2>5. cap \in Nat /\ Len(mem) <= cap /\ array \in Nat
      BY DEF TableInit
    <2>6. /\ mu \in Goroutines \cup {Nobody} /\ strayed \subseteq Roots
          /\ unsaved \in BOOLEAN /\ failures \in 0..MaxFailures
      BY <2>1 DEF TableInit
    <2>7. /\ step \in [Goroutines -> {"idle", "start", "note", "register", "write", "save",
                                 "sort", "rename"}]
          /\ root \in [Goroutines -> Roots]
      BY DEF TableInit
    <2> QED BY <2>2, <2>3, <2>4, <2>5, <2>6, <2>7 DEF TableTypeOK
  <1>2. Mutex /\ PointersFit /\ ImageIsMem /\ SavedUnlessDue
    BY RegistryAssumption DEF TableInit, Mutex, PointersFit, ImageIsMem, SavedUnlessDue
  <1>3. RootsUnique /\ Current /\ RootsKept
    BY DEF TableInit, RootsUnique, Unique, Current, RootsKept, RootsOf
  <1> QED BY <1>1, <1>2, <1>3 DEF TableInv

LEMMA BeginKeeps ==
  ASSUME TableInv, NEW t \in Goroutines, NEW r \in Roots,
         NEW first \in {"start", "note", "register"}, Begin(t, r, first)
  PROVE  TableInv'
  <1> USE DEF TableInv, Begin, Goto, heap, saves, ghost
  <1>1. TableTypeOK'
    BY DEF TableTypeOK
  <1>2. Mutex' /\ PointersFit' /\ ImageIsMem' /\ SavedUnlessDue'
    BY DEF TableTypeOK, Mutex, PointersFit, ImageIsMem, Settled, SavedUnlessDue
  <1>3. RootsUnique' /\ Current' /\ RootsKept'
    BY DEF RootsUnique, Current, RootsKept
  <1> QED BY <1>1, <1>2, <1>3

LEMMA FindKeeps ==
  ASSUME TableInv, NEW t \in Goroutines, Find(t)
  PROVE  TableInv'
  <1> USE DEF TableInv, Find, Goto, heap, saves, ghost
  <1>1. \A i \in Places(mem, root[t]) : i \in DOMAIN mem /\ i \in Nat
    <2>1. mem \in Seq(Record)
      BY TableIs
    <2> QED BY <2>1, RecordsAre, PlacesAreInDomain
  <1>2. TableTypeOK'
    <2>1. ptr' \in [Goroutines -> Nat \X Nat]
      <3>1. ptr \in [Goroutines -> Nat \X Nat] /\ array \in Nat
        BY DEF TableTypeOK
      <3>2. \/ ptr' = ptr
            \/ \E i \in Places(mem, root[t]) : ptr' = [ptr EXCEPT ![t] = <<array, i>>]
        OBVIOUS
      <3> QED BY <1>1, <3>1, <3>2
    <2>2. step' \in [Goroutines -> {"idle", "start", "note", "register", "write", "save",
                         "sort", "rename"}]
      BY DEF TableTypeOK
    <2> QED BY <2>1, <2>2 DEF TableTypeOK
  <1>3. PointersFit'
    <2>1. CASE Places(mem, root[t]) = {}
      BY <2>1 DEF TableTypeOK, PointersFit
    <2>2. CASE Places(mem, root[t]) # {}
      <3>1. PICK i \in Places(mem, root[t]) : ptr' = [ptr EXCEPT ![t] = <<array, i>>]
        BY <2>2
      <3>2. i \in DOMAIN mem /\ ptr'[t][2] = i /\ ptr'[t][1] = array
        BY <3>1, <1>1 DEF TableTypeOK
      <3>3. \A u \in Goroutines \ {t} : ptr'[u] = ptr[u] /\ step'[u] = step[u]
        BY <3>1 DEF TableTypeOK
      <3>4. array' = array /\ mem' = mem
        OBVIOUS
      <3> QED BY <3>2, <3>3, <3>4 DEF PointersFit
    <2> QED BY <2>1, <2>2
  <1>4. Mutex' /\ ImageIsMem' /\ SavedUnlessDue'
    BY DEF TableTypeOK, Mutex, ImageIsMem, Settled, SavedUnlessDue
  <1>5. RootsUnique' /\ Current' /\ RootsKept'
    <2>1. /\ mem' = mem /\ image' = image /\ disk' = disk
          /\ latest' = latest /\ strayed' = strayed
      OBVIOUS
    <2>2. \A u \in Goroutines : step'[u] = "rename" => step[u] = "rename"
      BY DEF TableTypeOK
    <2> QED BY <2>1, <2>2 DEF RootsUnique, Current, RootsKept
  <1> QED BY <1>2, <1>3, <1>4, <1>5

LEMMA UpsertKeeps ==
  ASSUME TableInv, NEW t \in Goroutines, Upsert(t)
  PROVE  TableInv'
  <1> USE DEF TableInv, Upsert, Goto, Stamped, saves, local
  <1> DEFINE rec == [root |-> root[t], last |-> stamp + 1]
             at == Places(mem, root[t])
  <1>1. /\ mem \in Seq(Record) /\ Len(mem) \in Nat /\ DOMAIN mem = 1..Len(mem)
        /\ root[t] \in Roots /\ stamp + 1 \in 0..MaxStamps /\ stamp + 1 \in Nat
        /\ rec \in Record /\ rec.root = root[t] /\ rec.last = stamp + 1
    BY RegistryAssumption DEF TableTypeOK, Records, Record
  <1>2. /\ \A i \in at : i \in DOMAIN mem /\ mem[i].root = root[t]
        /\ at = {} => \A i \in DOMAIN mem : mem[i].root # root[t]
    BY DEF Places
  <1> HIDE DEF rec
  (* Either way the table gets one record for the root, at a place k.      *)
  <1>3. PICK k \in 1..(Len(mem) + 1) :
          /\ mem' \in Seq(Record) /\ k \in DOMAIN mem' /\ mem'[k] = rec
          /\ DOMAIN mem' = DOMAIN mem \cup {k}
          /\ \A i \in DOMAIN mem \ {k} : mem'[i] = mem[i] /\ mem[i].root # root[t]
          /\ k \in DOMAIN mem => mem[k].root = root[t]
    <2>1. CASE at # {}
      <3>1. PICK k \in at : mem' = [mem EXCEPT ![k] = rec]
        BY <2>1 DEF rec
      <3>2. \A i \in DOMAIN mem \ {k} : mem[i].root # root[t]
        BY <3>1, <1>2 DEF RootsUnique, Unique
      <3>3. k \in DOMAIN mem /\ mem[k].root = root[t]
        BY <1>2
      <3>4. /\ mem' \in Seq(Record) /\ Len(mem') = Len(mem)
            /\ \A i \in 1..Len(mem) : mem'[i] = IF i = k THEN rec ELSE mem[i]
        <4>1. k \in 1..Len(mem) /\ rec \in Record
          BY <1>1, <3>1, <3>3
        <4>2. /\ [mem EXCEPT ![k] = rec] \in Seq(Record)
              /\ Len([mem EXCEPT ![k] = rec]) = Len(mem)
              /\ \A i \in 1..Len(mem) :
                   [mem EXCEPT ![k] = rec][i] = IF i = k THEN rec ELSE mem[i]
          BY <1>1, <4>1, ExceptSeq, Zenon
        <4> QED BY <4>2, <3>1
      <3>5. DOMAIN mem' = DOMAIN mem /\ k \in 1..(Len(mem) + 1)
        BY <1>1, <3>3, <3>4
      <3> QED BY <1>1, <3>2, <3>3, <3>4, <3>5
    <2>2. CASE at = {}
      <3>1. mem' = Append(mem, rec)
        BY <2>2 DEF rec
      <3> QED BY <1>1, <1>2, <2>2, <3>1
    <2> QED BY <2>1, <2>2
  <1>4. /\ cap' \in Nat /\ Len(mem') <= cap' /\ array' \in Nat
        /\ array' # array => array' = array + 1
    <2>1. CASE at # {}
      BY <2>1, <1>1 DEF TableTypeOK
    <2>2. CASE at = {}
      <3>1. Len(mem') = Len(mem) + 1
        BY <2>2, <1>1 DEF rec
      <3>2. cap \in Nat /\ array \in Nat /\ Len(mem) <= cap /\ Len(mem) \in Nat
        BY TableIs
      <3> QED BY <2>2, <3>1, <3>2
    <2> QED BY <2>1, <2>2
  <1>5. TableTypeOK'
    <2>1. latest' \in [Roots -> 0..MaxStamps] /\ stamp' \in 0..MaxStamps
      BY <1>1 DEF TableTypeOK
    <2>2. step' \in [Goroutines -> {"idle", "start", "note", "register", "write", "save",
                         "sort", "rename"}]
      BY DEF TableTypeOK
    <2> QED BY <1>3, <1>4, <2>1, <2>2 DEF TableTypeOK, Records, Record
  <1>6. Mutex' /\ ImageIsMem' /\ SavedUnlessDue'
    BY RegistryAssumption DEF TableTypeOK, Mutex, ImageIsMem, Settled, SavedUnlessDue
  <1>7. Current'
    <2>1. ASSUME NEW i \in DOMAIN mem'
          PROVE  mem'[i].root \in strayed \/ mem'[i].last = latest'[mem'[i].root]
      <3>1. CASE i = k
        BY <3>1, <1>1, <1>3 DEF TableTypeOK
      <3>2. CASE i # k
        <4>1. i \in DOMAIN mem /\ mem'[i] = mem[i] /\ mem[i].root # root[t]
          BY <3>2, <1>3
        <4>2. latest'[mem[i].root] = latest[mem[i].root]
          BY <4>1, RecordsAre, <1>1 DEF TableTypeOK
        <4> QED BY <4>1, <4>2 DEF Current
      <3> QED BY <3>1, <3>2
    <2> QED BY <2>1 DEF Current
  <1>8. RootsUnique'
    <2>1. Unique(mem')
      BY <1>1, <1>3 DEF RootsUnique, Unique
    <2> QED BY <2>1 DEF RootsUnique
  <1>9. RootsKept'
    <2>1. RootsOf(mem) \subseteq RootsOf(mem')
      BY <1>1, <1>3 DEF RootsOf
    <2>2. \A u \in Goroutines : step'[u] = "rename" => step[u] = "rename"
      BY DEF TableTypeOK
    <2> QED BY <2>1, <2>2 DEF RootsKept
  <1>10. PointersFit'
    <2>1. \A u \in Goroutines : step'[u] = "write" => step[u] = "write" /\ ptr'[u] = ptr[u]
      BY DEF TableTypeOK
    <2>2. ASSUME NEW u \in Goroutines, step[u] = "write"
          PROVE  \/ ptr[u][1] < array'
                 \/ ptr[u][1] = array' /\ ptr[u][2] \in DOMAIN mem'
      <3>1. ptr[u][1] \in Nat /\ array \in Nat
        BY DEF TableTypeOK
      <3> QED BY <2>2, <3>1, <1>3, <1>4 DEF PointersFit
    <2> QED BY <2>1, <2>2 DEF PointersFit
  <1> QED BY <1>5, <1>6, <1>7, <1>8, <1>9, <1>10

LEMMA WriteKeeps ==
  ASSUME TableInv, NEW t \in Goroutines, Write(t)
  PROVE  TableInv'
  <1> USE DEF TableInv, Write, Goto, Stamped, saves
  <1>1. /\ mem \in Seq(Record) /\ Len(mem) \in Nat /\ DOMAIN mem = 1..Len(mem)
        /\ root[t] \in Roots /\ stamp + 1 \in 0..MaxStamps
        /\ \A i \in DOMAIN mem : mem[i] \in Record /\ mem[i].root \in Roots
    <2>1. /\ mem \in Seq(Record)
          /\ root[t] \in Roots /\ stamp + 1 \in 0..MaxStamps
      <3>1. mem \in Seq(Record) /\ root[t] \in Roots
        BY TableIs
      <3>2. stamp \in 0..MaxStamps /\ stamp < MaxStamps /\ MaxStamps \in Nat
        BY RegistryAssumption DEF TableTypeOK
      <3> QED BY <3>1, <3>2
    <2> QED BY <2>1, RecordsAre
  <1>2. PICK k \in Hits(ptr[t]) :
          /\ mem' = IF k = 0 THEN mem ELSE [mem EXCEPT ![k].last = stamp + 1]
          /\ strayed' = strayed \cup
               (IF k # 0 /\ mem[k].root = root[t] THEN {}
                ELSE {root[t]} \cup (IF k = 0 THEN {} ELSE {mem[k].root}))
    OBVIOUS
  <1>3. k = 0 \/ k \in DOMAIN mem
    BY HitsAreRecords
  <1>4. /\ mem' \in Seq(Record) /\ DOMAIN mem' = DOMAIN mem /\ Len(mem') = Len(mem)
        /\ \A i \in DOMAIN mem :
             /\ mem'[i].root = mem[i].root
             /\ mem'[i].last = IF i = k THEN stamp + 1 ELSE mem[i].last
    <2>1. CASE k = 0
      <3>1. mem' = mem /\ \A i \in DOMAIN mem : i # k
        BY <1>1, <1>2, <2>1
      <3> QED BY <1>1, <3>1
    <2>2. CASE k # 0
      <3>1. k \in DOMAIN mem /\ mem' = [mem EXCEPT ![k].last = stamp + 1]
        BY <1>2, <1>3, <2>2
      <3> DEFINE new == [mem[k] EXCEPT !.last = stamp + 1]
      <3>2. new \in Record /\ new.root = mem[k].root /\ new.last = stamp + 1
        BY <1>1, <3>1 DEF Record
      <3>3. mem' = [mem EXCEPT ![k] = new]
        BY <3>1
      <3> HIDE DEF new
      <3>4. /\ mem' \in Seq(Record) /\ Len(mem') = Len(mem)
            /\ \A i \in 1..Len(mem) : mem'[i] = IF i = k THEN new ELSE mem[i]
        <4>1. k \in 1..Len(mem) /\ new \in Record
          BY <1>1, <3>1, <3>2, <3>3
        <4>2. /\ [mem EXCEPT ![k] = new] \in Seq(Record)
              /\ Len([mem EXCEPT ![k] = new]) = Len(mem)
              /\ \A i \in 1..Len(mem) :
                   [mem EXCEPT ![k] = new][i] = IF i = k THEN new ELSE mem[i]
          BY <1>1, <4>1, ExceptSeq, Zenon
        <4> QED BY <4>2, <3>3
      <3>5. DOMAIN mem' = DOMAIN mem
        BY <1>1, <3>4
      <3> QED BY <1>1, <3>1, <3>2, <3>4, <3>5
    <2> QED BY <2>1, <2>2
  <1>5. TableTypeOK'
    <2>1. latest' \in [Roots -> 0..MaxStamps] /\ stamp' \in 0..MaxStamps
      BY <1>1 DEF TableTypeOK
    <2>2. strayed' \subseteq Roots
      BY <1>1, <1>2, <1>3 DEF TableTypeOK
    <2>3. ptr' \in [Goroutines -> Nat \X Nat]
      BY DEF TableTypeOK, Nil
    <2>4. step' \in [Goroutines -> {"idle", "start", "note", "register", "write", "save",
                         "sort", "rename"}]
      BY DEF TableTypeOK
    <2> QED BY <1>4, <2>1, <2>2, <2>3, <2>4 DEF TableTypeOK, Records, Record
  <1>6. Mutex' /\ ImageIsMem' /\ SavedUnlessDue'
    BY RegistryAssumption DEF TableTypeOK, Mutex, ImageIsMem, Settled, SavedUnlessDue
  <1>7. Current'
    <2>1. ASSUME NEW i \in DOMAIN mem'
          PROVE  mem'[i].root \in strayed' \/ mem'[i].last = latest'[mem'[i].root]
      <3>1. i \in DOMAIN mem /\ mem'[i].root = mem[i].root /\ mem[i].root \in Roots
        BY <1>1, <1>4
      <3>2. mem[i].root \in strayed \/ mem[i].last = latest[mem[i].root]
        BY <3>1 DEF Current
      <3>3. CASE mem[i].root \in strayed'
        BY <3>1, <3>3
      <3>4. CASE mem[i].root \notin strayed' /\ mem[i].root = root[t]
        (* The write did not stray, so it hit this very record.            *)
        <4>1. k # 0 /\ k \in DOMAIN mem /\ mem[k].root = root[t]
          BY <1>2, <1>3, <3>4
        <4>2. k = i
          BY <3>1, <3>4, <4>1 DEF RootsUnique, Unique
        <4>3. latest'[root[t]] = stamp + 1
          BY <1>1 DEF TableTypeOK
        <4> QED BY <1>4, <3>1, <3>4, <4>2, <4>3
      <3>5. CASE mem[i].root \notin strayed' /\ mem[i].root # root[t]
        <4>1. k # i
          BY <1>2, <3>1, <3>5, <1>1
        <4>2. latest'[mem[i].root] = latest[mem[i].root]
          BY <3>1, <3>5 DEF TableTypeOK
        <4>3. mem[i].root \notin strayed
          BY <1>2, <3>5
        <4> QED BY <1>4, <3>1, <3>2, <4>1, <4>2, <4>3
      <3> QED BY <3>3, <3>4, <3>5
    <2> QED BY <2>1 DEF Current
  <1>8. RootsUnique'
    BY <1>4 DEF RootsUnique, Unique
  <1>9. RootsKept'
    <2>1. RootsOf(mem') = RootsOf(mem)
      BY <1>4 DEF RootsOf
    <2>2. \A u \in Goroutines : step'[u] = "rename" => step[u] = "rename"
      BY DEF TableTypeOK
    <2> QED BY <2>1, <2>2 DEF RootsKept
  <1>10. PointersFit'
    <2>1. \A u \in Goroutines : step'[u] = "write" => step[u] = "write" /\ ptr'[u] = ptr[u]
      BY DEF TableTypeOK
    <2> QED BY <2>1, <1>4 DEF PointersFit
  <1> QED BY <1>5, <1>6, <1>7, <1>8, <1>9, <1>10

(* Sorting in place: the table after the first half of a Save.             *)
LEMMA SortingKeeps ==
  ASSUME TableInv, mem' = Sorted(mem), UNCHANGED <<latest, strayed>>
  PROVE  /\ mem' \in Seq(Record) /\ Len(mem') = Len(mem) /\ DOMAIN mem' = DOMAIN mem
         /\ Unique(mem') /\ RootsOf(mem') = RootsOf(mem) /\ Current'
  <1>1. mem \in Seq(Record) /\ Unique(mem)
    BY DEF TableInv, TableTypeOK, RootsUnique, Records, Record
  <1> DEFINE Q == {r \in Record : r.root \in strayed \/ r.last = latest[r.root]}
  <1>2. \A i \in DOMAIN mem : mem[i] \in Q
    BY <1>1 DEF TableInv, Current
  <1>3. \A i \in DOMAIN Sorted(mem) : Sorted(mem)[i] \in Q
    <2> HIDE DEF Q
    <2> QED BY <1>1, <1>2, SortedKeeps
  <1>4. Current'
    BY <1>3 DEF Current
  <1> QED
    BY <1>1, <1>4, SortedKeeps

LEMMA SaveKeeps ==
  ASSUME TableInv, NEW t \in Goroutines,
         SaveLocks(t) \/ SaveEncodes(t) \/ SaveRenames(t) \/ SaveFails(t)
  PROVE  TableInv'
  <1> USE DEF TableInv, Goto, heap, saves, local, ghost
  <1>0. \A u \in Goroutines : u # Nobody
    BY RegistryAssumption
  <1>1. CASE SaveLocks(t)
    <2> USE <1>1 DEF SaveLocks
    <2>1. TableTypeOK'
      BY DEF TableTypeOK
    <2>2. Mutex' /\ ImageIsMem' /\ SavedUnlessDue' /\ PointersFit'
      BY <1>0 DEF TableTypeOK, Mutex, ImageIsMem, SavedUnlessDue, PointersFit
    <2>3. RootsUnique' /\ Current' /\ RootsKept'
      BY DEF TableTypeOK, RootsUnique, Current, RootsKept
    <2> QED BY <2>1, <2>2, <2>3
  <1>2. CASE SaveEncodes(t)
    <2> USE <1>2 DEF SaveEncodes
    <2>1. /\ mem' \in Seq(Record) /\ Len(mem') = Len(mem) /\ DOMAIN mem' = DOMAIN mem
          /\ Unique(mem') /\ RootsOf(mem') = RootsOf(mem) /\ Current' /\ image' = mem'
      BY SortingKeeps
    <2>2. TableTypeOK'
      BY <2>1 DEF TableTypeOK, Records, Record
    <2>3. Mutex' /\ ImageIsMem' /\ SavedUnlessDue'
      BY <1>0, <2>1 DEF TableTypeOK, Mutex, ImageIsMem, SavedUnlessDue
    <2>4. RootsUnique' /\ RootsKept'
      BY <2>1 DEF RootsUnique, RootsKept
    <2>5. PointersFit'
      BY <2>1 DEF TableTypeOK, PointersFit
    <2> QED BY <2>1, <2>2, <2>3, <2>4, <2>5
  <1>3. CASE SaveRenames(t)
    <2> USE <1>3 DEF SaveRenames
    <2>1. TableTypeOK'
      BY DEF TableTypeOK
    <2>2. \A u \in Goroutines : step'[u] \notin {"sort", "rename"}
      BY <1>0 DEF TableTypeOK, Mutex
    <2>3. Mutex' /\ ImageIsMem'
      BY <1>0, <2>2 DEF TableTypeOK, Mutex, ImageIsMem
    <2>4. SavedUnlessDue'
      <3>1. Settled' => Settled
        BY DEF TableTypeOK, Settled
      <3>2. CASE Settled'
        BY <3>1, <3>2 DEF ImageIsMem, SavedUnlessDue
      <3>3. CASE ~Settled'
        BY <3>3 DEF Settled, SavedUnlessDue
      <3> QED BY <3>2, <3>3
    <2>5. PointersFit'
      BY DEF TableTypeOK, PointersFit
    <2>6. RootsUnique' /\ Current'
      BY DEF RootsUnique, Current
    <2>7. RootsKept'
      BY <2>2 DEF RootsKept
    <2> QED BY <2>1, <2>3, <2>4, <2>5, <2>6, <2>7
  <1>4. CASE SaveFails(t)
    <2> USE <1>4 DEF SaveFails
    <2>1. /\ mem' \in Seq(Record) /\ Len(mem') = Len(mem) /\ DOMAIN mem' = DOMAIN mem
          /\ Unique(mem') /\ RootsOf(mem') = RootsOf(mem) /\ Current'
      BY SortingKeeps
    <2>2. TableTypeOK'
      <3>1. failures' \in 0..MaxFailures
        BY RegistryAssumption DEF TableTypeOK
      <3> QED BY <2>1, <3>1 DEF TableTypeOK, Records, Record
    <2>3. \A u \in Goroutines : step'[u] \notin {"sort", "rename"}
      BY <1>0 DEF TableTypeOK, Mutex
    <2>4. Mutex' /\ ImageIsMem' /\ SavedUnlessDue'
      BY <1>0, <2>3 DEF TableTypeOK, Mutex, ImageIsMem, SavedUnlessDue
    <2>5. RootsUnique' /\ RootsKept'
      BY <2>1, <2>3 DEF RootsUnique, RootsKept
    <2>6. PointersFit'
      BY <2>1 DEF TableTypeOK, PointersFit
    <2> QED BY <2>1, <2>2, <2>4, <2>5, <2>6
  <1> QED BY <1>1, <1>2, <1>3, <1>4

(* The next supervisor starts from the file.                               *)
LEMMA RestartKeeps ==
  ASSUME TableInv, Restart
  PROVE  TableInv'
  <1> USE DEF TableInv, Restart
  <1>1. /\ disk \in Seq(Record) /\ Len(disk) \in Nat /\ DOMAIN disk = 1..Len(disk)
        /\ \A i \in DOMAIN disk : disk[i].root \in Roots /\ disk[i].last \in 0..MaxStamps
    BY RecordsAre DEF TableTypeOK, Records, Record
  <1>2. \A i \in DOMAIN disk :
          /\ Places(disk, disk[i].root) = {i}
          /\ (CHOOSE k \in Places(disk, disk[i].root) : TRUE) = i
    BY DEF RootsUnique, Unique, Places
  <1>3. latest' \in [Roots -> 0..MaxStamps]
    <2>1. ASSUME NEW r \in Roots PROVE latest'[r] \in 0..MaxStamps
      <3>1. CASE Places(disk, r) = {}
        BY <3>1, RegistryAssumption DEF NoWrite
      <3>2. CASE Places(disk, r) # {}
        <4>1. (CHOOSE k \in Places(disk, r) : TRUE) \in DOMAIN disk
          BY <3>2, PlacesAreInDomain
        <4> QED BY <3>2, <4>1, <1>1
      <3> QED BY <3>1, <3>2
    <2> QED BY <2>1
  <1>4. \A i \in DOMAIN disk : latest'[disk[i].root] = disk[i].last
    <2> SUFFICES ASSUME NEW i \in DOMAIN disk PROVE latest'[disk[i].root] = disk[i].last
      OBVIOUS
    <2>1. disk[i].root \in Roots /\ Places(disk, disk[i].root) # {}
      BY <1>1, <1>2
    <2>2. latest'[disk[i].root] = disk[CHOOSE k \in Places(disk, disk[i].root) : TRUE].last
      BY <2>1
    <2> QED BY <2>2, <1>2
  <1>5. TableTypeOK'
    <2>1. failures' \in 0..MaxFailures
      BY RegistryAssumption DEF TableTypeOK
    <2>2. cap' \in Nat /\ Len(mem') <= cap' /\ array' \in Nat
      BY <1>1 DEF TableTypeOK
    <2>3. ptr' \in [Goroutines -> Nat \X Nat]
      BY DEF Nil
    <2>4. <<>> \in Records
      BY DEF Records
    <2> QED BY <1>3, <2>1, <2>2, <2>3, <2>4 DEF TableTypeOK
  <1>6. Mutex' /\ PointersFit' /\ ImageIsMem' /\ SavedUnlessDue'
    BY RegistryAssumption DEF Mutex, PointersFit, ImageIsMem, SavedUnlessDue
  <1>7. RootsUnique' /\ RootsKept'
    BY DEF RootsUnique, Unique, RootsKept
  <1>8. Current'
    BY <1>4 DEF Current
  <1> QED BY <1>5, <1>6, <1>7, <1>8

-----------------------------------------------------------------------------
LEMMA TableStep == TableInv /\ [TableNext]_tableVars => TableInv'
  <1> SUFFICES ASSUME TableInv, [TableNext]_tableVars PROVE TableInv'
    OBVIOUS
  <1>1. ASSUME NEW t \in Goroutines, NEW r \in Roots,
               NEW first \in {"start", "note", "register"}, Begin(t, r, first)
        PROVE  TableInv'
    BY <1>1, BeginKeeps
  <1>2. ASSUME NEW t \in Goroutines, Find(t) PROVE TableInv'
    BY <1>2, FindKeeps
  <1>3. ASSUME NEW t \in Goroutines, Upsert(t) PROVE TableInv'
    BY <1>3, UpsertKeeps
  <1>4. ASSUME NEW t \in Goroutines, Write(t) PROVE TableInv'
    BY <1>4, WriteKeeps
  <1>5. ASSUME NEW t \in Goroutines,
               SaveLocks(t) \/ SaveEncodes(t) \/ SaveRenames(t) \/ SaveFails(t)
        PROVE  TableInv'
    BY <1>5, SaveKeeps
  <1>6. CASE Restart
    BY <1>6, RestartKeeps
  <1>7. CASE UNCHANGED tableVars
    <2> USE <1>7 DEF tableVars, heap, saves, local, ghost, TableInv
    <2>1. TableTypeOK'
      BY DEF TableTypeOK
    <2>2. Mutex' /\ PointersFit' /\ ImageIsMem' /\ SavedUnlessDue'
      BY DEF Mutex, PointersFit, ImageIsMem, Settled, SavedUnlessDue
    <2>3. RootsUnique' /\ Current' /\ RootsKept'
      BY DEF RootsUnique, Current, RootsKept
    <2> QED BY <2>1, <2>2, <2>3
  <1> QED
    BY <1>1, <1>2, <1>3, <1>4, <1>5, <1>6, <1>7 DEF TableNext

LEMMA TableAlways == TableSpec => []TableInv
  <1> QED BY InitTable, TableStep, PTL DEF TableSpec

(* The table of daemons is well formed, has one record per root, and its   *)
(* records are current and saved whenever nobody is at work, unless a      *)
(* pointer strayed or a save failed.                                       *)
THEOREM TableSound == TableSpec => []TableIsSound
  <1>1. TableInv => TableIsSound
    <2> SUFFICES ASSUME TableInv PROVE TableIsSound
      OBVIOUS
    <2>1. OneRecordPerRoot
      BY DEF TableInv, RootsUnique, Unique, OneRecordPerRoot
    <2>2. RecordsAreCurrent
      BY DEF TableInv, Current, RecordsAreCurrent
    <2>3. SavedWhenQuiet
      BY DEF TableInv, SavedUnlessDue, SavedWhenQuiet
    <2> QED BY <2>1, <2>2, <2>3 DEF TableInv, TableIsSound
  <1> QED BY <1>1, TableAlways, PTL

(* Every Save keeps the roots the file had: the file changes only by the   *)
(* rename, and the image that is renamed was encoded from a table that had *)
(* them all.                                                               *)
LEMMA StepForgetsNothing ==
  TableInv /\ [TableNext]_tableVars => \A i \in DOMAIN disk : Places(disk', disk[i].root) # {}
  <1> SUFFICES ASSUME TableInv, [TableNext]_tableVars, NEW i \in DOMAIN disk
               PROVE  disk[i].root \in RootsOf(disk')
    BY PlacesAreInDomain
  <1>1. disk[i].root \in RootsOf(disk)
    BY DEF RootsOf
  <1>2. ASSUME disk' = disk PROVE disk[i].root \in RootsOf(disk')
    BY <1>1, <1>2
  <1>3. ASSUME NEW t \in Goroutines, SaveRenames(t)
        PROVE  disk[i].root \in RootsOf(disk')
    BY <1>1, <1>3 DEF SaveRenames, TableInv, RootsKept
  <1>4. disk' = disk \/ \E t \in Goroutines : SaveRenames(t)
    BY DEF TableNext, tableVars, heap, saves, Begin, Find, Upsert, Write, SaveLocks, SaveEncodes,
           SaveFails, Restart
  <1> QED BY <1>2, <1>3, <1>4

(* A root that is in daemons.json stays in it, whatever fails or crashes.  *)
THEOREM RootsSurvive == TableSpec => NothingIsForgotten
  <1>1. TableInv /\ [TableNext]_tableVars =>
          [\A i \in DOMAIN disk : Places(disk', disk[i].root) # {}]_tableVars
    BY StepForgetsNothing
  <1> QED BY <1>1, TableAlways, PTL DEF TableSpec, NothingIsForgotten
====
