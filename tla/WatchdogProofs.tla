---- MODULE WatchdogProofs ----
(***************************************************************************)
(* What holds of Watchdog for any number of processes, misses, starts and  *)
(* faults.                                                                 *)
(*                                                                         *)
(* The argument is about the one watchdog that is active, if any is: it is *)
(* forked by a supervisor beside which there is none (Booted); it comes to *)
(* kill only for a supervisor that is wedged and that the pid file names,  *)
(* and respawns only when none is left (Hunts); and it never gets there on *)
(* account of a supervisor that boots, leaves or has left, because that    *)
(* one leaves it two misses short of the limit, and the pid file stops it  *)
(* at the next tick (Counts).  None of this takes a call that succeeds:    *)
(* one that fails may cost the supervisor its watchdog (Watched), and no   *)
(* more.                                                                   *)
(***************************************************************************)
EXTENDS Watchdog, TLAPS

Healthy(p) == Sup(p) /\ p \notin wedged

Births ==
  \A p \in Procs : p > born => pc[p] = "unborn" /\ misses[p] = 0

Names ==
  /\ supPid # Nobody => pc[supPid] \in SupPCs \cup {"dead"}
  /\ wdPid # Nobody => pc[wdPid] \in WdPCs \cup {"dead"}
  /\ \A p \in wedged : pc[p] \in {"run", "dead"}
  /\ \A w \in Procs : pc[w] \in {"announce", "look", "tick", "probe"} => misses[w] < MaxMisses

OneWatchdog == \A v, w \in Procs : Active(v) /\ Active(w) => v = w

Booted ==
  \A p \in Procs :
    /\ pc[p] \in {"clear", "write", "fork"} => \A w \in Procs : ~Active(w)
    /\ pc[p] = "run" => sock = p
    /\ pc[p] \in SupBoots \cup {"run"} => ~stopped /\ ~cleaning

Hunts ==
  \A w \in Procs :
    /\ pc[w] \in {"probe", "kill"} =>
         \A p \in Procs : pc[p] \in {"unlink", "listen", "run"} => supPid = p
    /\ pc[w] = "kill" => \E p \in wedged : pc[p] = "run"
    /\ pc[w] \in {"sweep", "respawn"} =>
         ~stopped /\ ~cleaning /\ \A p \in Procs : ~Sup(p)

Counts ==
  \A w \in Procs :
    /\ Active(w) /\ (\E p \in Procs : Healthy(p)) => misses[w] + 2 <= MaxMisses
    /\ pc[w] = "probe" /\ (\A p \in Procs : ~Sup(p)) => misses[w] + 2 <= MaxMisses

Sound == OneSupervisor /\ OneWatchdog /\ Booted /\ Hunts /\ Counts

Watched ==
  \A p \in Procs :
    /\ pc[p] \in {"fork", "unlink", "listen", "run"} => supPid = p
    /\ pc[p] \in {"write", "fork", "unlink", "listen", "run"} => ~sentinel
    /\ pc[p] \in {"unlink", "listen", "run"} => \E w \in Procs : Active(w)

IInv == /\ TypeOK /\ Births /\ Names
        /\ AtWorst("unwatched") => Sound
        /\ trouble = "none" => Watched

(* The calls that may fail, each with where the caller goes on.            *)
Failures == {<<"clear", "write">>, <<"write", "fork">>, <<"fork", "unlink">>,
             <<"sentinel", "signal">>, <<"announce", "look">>, <<"respawn", "retire">>}

-----------------------------------------------------------------------------
LEMMA NoneIsFine == trouble = "none" => AtWorst("unwatched")
  BY DEF AtWorst, Rank

(* What is noted stays, and is at least as bad as what happens.            *)
LEMMA Notes ==
  ASSUME trouble \in DOMAIN Rank, NEW what \in {"unwatched", "slow", "second"},
         NEW happens, Note(what, happens)
  PROVE  /\ trouble' \in DOMAIN Rank
         /\ AtWorst("unwatched")' => AtWorst("unwatched")
         /\ AtWorst("unwatched")' /\ what # "unwatched" => ~happens
         /\ trouble' = "none" => trouble = "none" /\ ~happens
  BY DEF Note, AtWorst, Rank

LEMMA ClearSentinelKeeps ==
  ASSUME IInv, NEW p \in Procs, ClearSentinel(p)
  PROVE  IInv'
  <1> USE WatchdogAssumption DEF ClearSentinel, Goto, files, client, Nobody, SupPCs,
          SupBoots, SupEnds, WdPCs, Sup, Wd, Alive, Active, Healthy
  <1>0. TypeOK /\ Births /\ Names
    BY DEF IInv
  <1>1. TypeOK'
    BY <1>0 DEF TypeOK, Names
  <1>2. Births'
    BY <1>0 DEF TypeOK, Births
  <1>3. Names'
    BY <1>0 DEF TypeOK, Births, Names
  <1>4. ASSUME AtWorst("unwatched")' PROVE Sound'
    <2>0. OneSupervisor /\ OneWatchdog /\ Booted /\ Hunts /\ Counts
      BY <1>4 DEF IInv, Sound, AtWorst
    <2>1. OneSupervisor'
      BY <1>0, <2>0 DEF TypeOK, Births, OneSupervisor, Hunts
    <2>2. OneWatchdog'
      BY <1>0, <2>0 DEF TypeOK, Births, Booted, OneWatchdog
    <2>3. Booted'
      BY <1>0, <2>0 DEF TypeOK, Births, Names, OneSupervisor, OneWatchdog, Booted, Hunts
    <2>4. Hunts'
      BY <1>0, <2>0 DEF TypeOK, Births, Names, OneSupervisor, OneWatchdog, Booted, Hunts
    <2>5. Counts'
      BY <1>0, <2>0 DEF TypeOK, Births, Names, OneSupervisor, OneWatchdog, Booted, Hunts, Counts
    <2> QED BY <2>1, <2>2, <2>3, <2>4, <2>5 DEF Sound
  <1>5. ASSUME trouble' = "none" PROVE Watched'
    <2>0. OneSupervisor /\ OneWatchdog /\ Booted /\ Hunts /\ Watched
      BY <1>5, NoneIsFine DEF IInv, Sound
    <2> QED
      BY <1>0, <2>0 DEF TypeOK, Births, Names, Watched, OneSupervisor, OneWatchdog, Booted, Hunts
  <1> QED BY <1>1, <1>2, <1>3, <1>4, <1>5 DEF IInv

LEMMA WritePIDKeeps ==
  ASSUME IInv, NEW p \in Procs, WritePID(p)
  PROVE  IInv'
  <1> USE WatchdogAssumption DEF WritePID, Goto, files, client, Nobody, SupPCs,
          SupBoots, SupEnds, WdPCs, Sup, Wd, Alive, Active, Healthy
  <1>0. TypeOK /\ Births /\ Names
    BY DEF IInv
  <1>1. TypeOK'
    BY <1>0 DEF TypeOK, Names
  <1>2. Births'
    BY <1>0 DEF TypeOK, Births
  <1>3. Names'
    BY <1>0 DEF TypeOK, Births, Names
  <1>4. ASSUME AtWorst("unwatched")' PROVE Sound'
    <2>0. OneSupervisor /\ OneWatchdog /\ Booted /\ Hunts /\ Counts
      BY <1>4 DEF IInv, Sound, AtWorst
    <2>1. OneSupervisor'
      BY <1>0, <2>0 DEF TypeOK, Births, OneSupervisor, Hunts
    <2>2. OneWatchdog'
      BY <1>0, <2>0 DEF TypeOK, Births, Booted, OneWatchdog
    <2>3. Booted'
      BY <1>0, <2>0 DEF TypeOK, Births, Names, OneSupervisor, OneWatchdog, Booted, Hunts
    <2>4. Hunts'
      BY <1>0, <2>0 DEF TypeOK, Births, Names, OneSupervisor, OneWatchdog, Booted, Hunts
    <2>5. Counts'
      BY <1>0, <2>0 DEF TypeOK, Births, Names, OneSupervisor, OneWatchdog, Booted, Hunts, Counts
    <2> QED BY <2>1, <2>2, <2>3, <2>4, <2>5 DEF Sound
  <1>5. ASSUME trouble' = "none" PROVE Watched'
    <2>0. OneSupervisor /\ OneWatchdog /\ Booted /\ Hunts /\ Watched
      BY <1>5, NoneIsFine DEF IInv, Sound
    <2> QED
      BY <1>0, <2>0 DEF TypeOK, Births, Names, Watched, OneSupervisor, OneWatchdog, Booted, Hunts
  <1> QED BY <1>1, <1>2, <1>3, <1>4, <1>5 DEF IInv

LEMMA StartWatchdogKeeps ==
  ASSUME IInv, NEW p \in Procs, StartWatchdog(p)
  PROVE  IInv'
  <1> USE WatchdogAssumption DEF StartWatchdog, Forks, files, client, Nobody, SupPCs,
          SupBoots, SupEnds, WdPCs, Sup, Wd, Alive, Active, Healthy
  <1>0. TypeOK /\ Births /\ Names
    BY DEF IInv
  <1>1. TypeOK'
    <2>1. born \in 0..MaxProcs /\ born + 1 \in Procs /\ born + 1 \in 0..MaxProcs
      BY <1>0 DEF TypeOK, Procs
    <2>2. pc' = [pc EXCEPT ![p] = "unlink", ![born + 1] = "announce"]
      OBVIOUS
    <2>3. pc' \in [Procs -> SupPCs \cup WdPCs \cup {"unborn", "dead"}]
      BY <1>0, <2>1, <2>2 DEF TypeOK
    <2> QED BY <1>0, <2>1, <2>3 DEF TypeOK
  <1>2. Births'
    <2>1. born \in Nat /\ born' = born + 1
      BY <1>0 DEF TypeOK
    <2>2. p <= born
      BY <1>0, <2>1 DEF Births, Procs
    <2>3. \A q \in Procs : q > born + 1 => q > born /\ q # born + 1 /\ q # p
      BY <2>1, <2>2 DEF Procs
    <2>4. \A q \in Procs : q > born + 1 => pc'[q] = pc[q]
      BY <1>0, <2>3 DEF TypeOK
    <2> QED BY <1>0, <2>1, <2>3, <2>4 DEF Births
  <1>3. Names'
    BY <1>0 DEF TypeOK, Births, Names
  <1>4. ASSUME AtWorst("unwatched")' PROVE Sound'
    <2>0. OneSupervisor /\ OneWatchdog /\ Booted /\ Hunts /\ Counts
      BY <1>4 DEF IInv, Sound, AtWorst
    <2>1. OneSupervisor'
      BY <1>0, <2>0 DEF TypeOK, Births, OneSupervisor, Hunts
    <2>2. OneWatchdog'
      BY <1>0, <2>0 DEF TypeOK, Births, Booted, OneWatchdog
    <2>3. Booted'
      <3>1. born + 1 \in Procs /\ pc[born + 1] = "unborn" /\ born + 1 # p
        BY <1>0 DEF TypeOK, Births, Procs
      <3>2. /\ pc'[p] = "unlink" /\ pc'[born + 1] = "announce"
            /\ \A q \in Procs \ {p, born + 1} : pc'[q] = pc[q]
        BY <1>0, <3>1 DEF TypeOK
      <3>3. \A q \in Procs \ {p} : ~Sup(q) /\ ~Sup(q)'
        BY <1>0, <2>0, <3>1, <3>2 DEF OneSupervisor
      <3> QED BY <1>0, <2>0, <3>1, <3>2, <3>3 DEF Booted
    <2>4. Hunts'
      BY <1>0, <2>0 DEF TypeOK, Births, Names, OneSupervisor, OneWatchdog, Booted, Hunts
    <2>5. Counts'
      BY <1>0, <2>0 DEF TypeOK, Births, Names, OneSupervisor, OneWatchdog, Booted, Hunts, Counts
    <2> QED BY <2>1, <2>2, <2>3, <2>4, <2>5 DEF Sound
  <1>5. ASSUME trouble' = "none" PROVE Watched'
    <2>0. OneSupervisor /\ OneWatchdog /\ Booted /\ Hunts /\ Watched
      BY <1>5, NoneIsFine DEF IInv, Sound
    <2>1. born + 1 \in Procs /\ pc[born + 1] = "unborn" /\ born + 1 # p
      BY <1>0 DEF TypeOK, Births, Procs
    <2>2. /\ pc'[p] = "unlink" /\ pc'[born + 1] = "announce"
          /\ \A q \in Procs \ {p, born + 1} : pc'[q] = pc[q]
      BY <1>0, <2>1 DEF TypeOK
    <2>3. \A q \in Procs \ {p} : ~Sup(q) /\ ~Sup(q)'
      BY <1>0, <2>0, <2>1, <2>2 DEF OneSupervisor
    <2> QED BY <1>0, <2>0, <2>1, <2>2, <2>3 DEF Watched
  <1> QED BY <1>1, <1>2, <1>3, <1>4, <1>5 DEF IInv

LEMMA UnlinkKeeps ==
  ASSUME IInv, NEW p \in Procs, Unlink(p)
  PROVE  IInv'
  <1> USE WatchdogAssumption DEF Unlink, Goto, files, client, Nobody, SupPCs,
          SupBoots, SupEnds, WdPCs, Sup, Wd, Alive, Active, Healthy
  <1>0. TypeOK /\ Births /\ Names
    BY DEF IInv
  <1>1. TypeOK'
    BY <1>0 DEF TypeOK, Names
  <1>2. Births'
    BY <1>0 DEF TypeOK, Births
  <1>3. Names'
    BY <1>0 DEF TypeOK, Births, Names
  <1>4. ASSUME AtWorst("unwatched")' PROVE Sound'
    <2>0. OneSupervisor /\ OneWatchdog /\ Booted /\ Hunts /\ Counts
      BY <1>4 DEF IInv, Sound, AtWorst
    <2>1. OneSupervisor'
      BY <1>0, <2>0 DEF TypeOK, Births, OneSupervisor, Hunts
    <2>2. OneWatchdog'
      BY <1>0, <2>0 DEF TypeOK, Births, Booted, OneWatchdog
    <2>3. Booted'
      BY <1>0, <2>0 DEF TypeOK, Births, Names, OneSupervisor, OneWatchdog, Booted, Hunts
    <2>4. Hunts'
      BY <1>0, <2>0 DEF TypeOK, Births, Names, OneSupervisor, OneWatchdog, Booted, Hunts
    <2>5. Counts'
      BY <1>0, <2>0 DEF TypeOK, Births, Names, OneSupervisor, OneWatchdog, Booted, Hunts, Counts
    <2> QED BY <2>1, <2>2, <2>3, <2>4, <2>5 DEF Sound
  <1>5. ASSUME trouble' = "none" PROVE Watched'
    <2>0. OneSupervisor /\ OneWatchdog /\ Booted /\ Hunts /\ Watched
      BY <1>5, NoneIsFine DEF IInv, Sound
    <2> QED
      BY <1>0, <2>0 DEF TypeOK, Births, Names, Watched, OneSupervisor, OneWatchdog, Booted, Hunts
  <1> QED BY <1>1, <1>2, <1>3, <1>4, <1>5 DEF IInv

LEMMA ListenKeeps ==
  ASSUME IInv, NEW p \in Procs, Listen(p)
  PROVE  IInv'
  <1> USE WatchdogAssumption DEF Listen, Goto, files, client, Nobody, SupPCs,
          SupBoots, SupEnds, WdPCs, Sup, Wd, Alive, Active, Healthy
  <1>0. TypeOK /\ Births /\ Names
    BY DEF IInv
  <1>1. TypeOK'
    BY <1>0 DEF TypeOK, Names
  <1>2. Births'
    BY <1>0 DEF TypeOK, Births
  <1>3. Names'
    BY <1>0 DEF TypeOK, Births, Names
  <1>4. ASSUME AtWorst("unwatched")' PROVE Sound'
    <2>0. OneSupervisor /\ OneWatchdog /\ Booted /\ Hunts /\ Counts
      BY <1>4 DEF IInv, Sound, AtWorst
    <2>1. OneSupervisor'
      BY <1>0, <2>0 DEF TypeOK, Births, OneSupervisor, Hunts
    <2>2. OneWatchdog'
      BY <1>0, <2>0 DEF TypeOK, Births, Booted, OneWatchdog
    <2>3. Booted'
      BY <1>0, <2>0 DEF TypeOK, Births, Names, OneSupervisor, OneWatchdog, Booted, Hunts
    <2>4. Hunts'
      BY <1>0, <2>0 DEF TypeOK, Births, Names, OneSupervisor, OneWatchdog, Booted, Hunts
    <2>5. Counts'
      BY <1>0, <2>0 DEF TypeOK, Births, Names, OneSupervisor, OneWatchdog, Booted, Hunts, Counts
    <2> QED BY <2>1, <2>2, <2>3, <2>4, <2>5 DEF Sound
  <1>5. ASSUME trouble' = "none" PROVE Watched'
    <2>0. OneSupervisor /\ OneWatchdog /\ Booted /\ Hunts /\ Watched
      BY <1>5, NoneIsFine DEF IInv, Sound
    <2> QED
      BY <1>0, <2>0 DEF TypeOK, Births, Names, Watched, OneSupervisor, OneWatchdog, Booted, Hunts
  <1> QED BY <1>1, <1>2, <1>3, <1>4, <1>5 DEF IInv

LEMMA BootFailsKeeps ==
  ASSUME IInv, NEW p \in Procs, BootFails(p)
  PROVE  IInv'
  <1> USE WatchdogAssumption DEF BootFails, Goto, files, client, Nobody, SupPCs,
          SupBoots, SupEnds, WdPCs, Sup, Wd, Alive, Active, Healthy
  <1>0. TypeOK /\ Births /\ Names
    BY DEF IInv
  <1>1. TypeOK'
    BY <1>0 DEF TypeOK, Names
  <1>2. Births'
    BY <1>0 DEF TypeOK, Births
  <1>3. Names'
    BY <1>0 DEF TypeOK, Births, Names
  <1>4. ASSUME AtWorst("unwatched")' PROVE Sound'
    <2>0. OneSupervisor /\ OneWatchdog /\ Booted /\ Hunts /\ Counts
      BY <1>4 DEF IInv, Sound, AtWorst
    <2>1. OneSupervisor'
      BY <1>0, <2>0 DEF TypeOK, Births, OneSupervisor, Hunts
    <2>2. OneWatchdog'
      BY <1>0, <2>0 DEF TypeOK, Births, Booted, OneWatchdog
    <2>3. Booted'
      BY <1>0, <2>0 DEF TypeOK, Births, Names, OneSupervisor, OneWatchdog, Booted, Hunts
    <2>4. Hunts'
      BY <1>0, <2>0 DEF TypeOK, Births, Names, OneSupervisor, OneWatchdog, Booted, Hunts
    <2>5. Counts'
      BY <1>0, <2>0 DEF TypeOK, Births, Names, OneSupervisor, OneWatchdog, Booted, Hunts, Counts
    <2> QED BY <2>1, <2>2, <2>3, <2>4, <2>5 DEF Sound
  <1>5. ASSUME trouble' = "none" PROVE Watched'
    <2>0. OneSupervisor /\ OneWatchdog /\ Booted /\ Hunts /\ Watched
      BY <1>5, NoneIsFine DEF IInv, Sound
    <2> QED
      BY <1>0, <2>0 DEF TypeOK, Births, Names, Watched, OneSupervisor, OneWatchdog, Booted, Hunts
  <1> QED BY <1>1, <1>2, <1>3, <1>4, <1>5 DEF IInv

LEMMA DaemonsStoppedKeeps ==
  ASSUME IInv, NEW p \in Procs, DaemonsStopped(p)
  PROVE  IInv'
  <1> USE WatchdogAssumption DEF DaemonsStopped, Goto, files, client, Nobody, SupPCs,
          SupBoots, SupEnds, WdPCs, Sup, Wd, Alive, Active, Healthy
  <1>0. TypeOK /\ Births /\ Names
    BY DEF IInv
  <1>1. TypeOK'
    BY <1>0 DEF TypeOK, Names
  <1>2. Births'
    BY <1>0 DEF TypeOK, Births
  <1>3. Names'
    BY <1>0 DEF TypeOK, Births, Names
  <1>4. ASSUME AtWorst("unwatched")' PROVE Sound'
    <2>0. OneSupervisor /\ OneWatchdog /\ Booted /\ Hunts /\ Counts
      BY <1>4 DEF IInv, Sound, AtWorst
    <2>1. OneSupervisor'
      BY <1>0, <2>0 DEF TypeOK, Births, OneSupervisor, Hunts
    <2>2. OneWatchdog'
      BY <1>0, <2>0 DEF TypeOK, Births, Booted, OneWatchdog
    <2>3. Booted'
      BY <1>0, <2>0 DEF TypeOK, Births, Names, OneSupervisor, OneWatchdog, Booted, Hunts
    <2>4. Hunts'
      BY <1>0, <2>0 DEF TypeOK, Births, Names, OneSupervisor, OneWatchdog, Booted, Hunts
    <2>5. Counts'
      BY <1>0, <2>0 DEF TypeOK, Births, Names, OneSupervisor, OneWatchdog, Booted, Hunts, Counts
    <2> QED BY <2>1, <2>2, <2>3, <2>4, <2>5 DEF Sound
  <1>5. ASSUME trouble' = "none" PROVE Watched'
    <2>0. OneSupervisor /\ OneWatchdog /\ Booted /\ Hunts /\ Watched
      BY <1>5, NoneIsFine DEF IInv, Sound
    <2> QED
      BY <1>0, <2>0 DEF TypeOK, Births, Names, Watched, OneSupervisor, OneWatchdog, Booted, Hunts
  <1> QED BY <1>1, <1>2, <1>3, <1>4, <1>5 DEF IInv

LEMMA SetSentinelKeeps ==
  ASSUME IInv, NEW p \in Procs, SetSentinel(p)
  PROVE  IInv'
  <1> USE WatchdogAssumption DEF SetSentinel, Goto, files, client, Nobody, SupPCs,
          SupBoots, SupEnds, WdPCs, Sup, Wd, Alive, Active, Healthy
  <1>0. TypeOK /\ Births /\ Names
    BY DEF IInv
  <1>1. TypeOK'
    BY <1>0 DEF TypeOK, Names
  <1>2. Births'
    BY <1>0 DEF TypeOK, Births
  <1>3. Names'
    BY <1>0 DEF TypeOK, Births, Names
  <1>4. ASSUME AtWorst("unwatched")' PROVE Sound'
    <2>0. OneSupervisor /\ OneWatchdog /\ Booted /\ Hunts /\ Counts
      BY <1>4 DEF IInv, Sound, AtWorst
    <2>1. OneSupervisor'
      BY <1>0, <2>0 DEF TypeOK, Births, OneSupervisor, Hunts
    <2>2. OneWatchdog'
      BY <1>0, <2>0 DEF TypeOK, Births, Booted, OneWatchdog
    <2>3. Booted'
      BY <1>0, <2>0 DEF TypeOK, Births, Names, OneSupervisor, OneWatchdog, Booted, Hunts
    <2>4. Hunts'
      BY <1>0, <2>0 DEF TypeOK, Births, Names, OneSupervisor, OneWatchdog, Booted, Hunts
    <2>5. Counts'
      BY <1>0, <2>0 DEF TypeOK, Births, Names, OneSupervisor, OneWatchdog, Booted, Hunts, Counts
    <2> QED BY <2>1, <2>2, <2>3, <2>4, <2>5 DEF Sound
  <1>5. ASSUME trouble' = "none" PROVE Watched'
    <2>0. OneSupervisor /\ OneWatchdog /\ Booted /\ Hunts /\ Watched
      BY <1>5, NoneIsFine DEF IInv, Sound
    <2> QED
      BY <1>0, <2>0 DEF TypeOK, Births, Names, Watched, OneSupervisor, OneWatchdog, Booted, Hunts
  <1> QED BY <1>1, <1>2, <1>3, <1>4, <1>5 DEF IInv

LEMMA SignalWatchdogKeeps ==
  ASSUME IInv, NEW p \in Procs, SignalWatchdog(p)
  PROVE  IInv'
  <1> USE WatchdogAssumption DEF SignalWatchdog, Killed, files, client, Nobody,
          SupPCs, SupBoots, SupEnds, WdPCs, Sup, Wd, Alive, Active, Healthy
  <1>0. TypeOK /\ Births /\ Names
    BY DEF IInv
  <1>1. TypeOK'
    BY <1>0 DEF TypeOK, Names
  <1>2. Births'
    BY <1>0 DEF TypeOK, Births
  <1>3. Names'
    BY <1>0 DEF TypeOK, Births, Names
  <1>4. ASSUME AtWorst("unwatched")' PROVE Sound'
    <2>0. OneSupervisor /\ OneWatchdog /\ Booted /\ Hunts /\ Counts
      BY <1>4 DEF IInv, Sound, AtWorst
    <2>1. OneSupervisor'
      BY <1>0, <2>0 DEF TypeOK, Births, OneSupervisor, Hunts
    <2>2. OneWatchdog'
      BY <1>0, <2>0 DEF TypeOK, Births, Booted, OneWatchdog
    <2>3. Booted'
      BY <1>0, <2>0 DEF TypeOK, Births, Names, OneSupervisor, OneWatchdog, Booted, Hunts
    <2>4. Hunts'
      BY <1>0, <2>0 DEF TypeOK, Births, Names, OneSupervisor, OneWatchdog, Booted, Hunts
    <2>5. Counts'
      BY <1>0, <2>0 DEF TypeOK, Births, Names, OneSupervisor, OneWatchdog, Booted, Hunts, Counts
    <2> QED BY <2>1, <2>2, <2>3, <2>4, <2>5 DEF Sound
  <1>5. ASSUME trouble' = "none" PROVE Watched'
    <2>0. OneSupervisor /\ OneWatchdog /\ Booted /\ Hunts /\ Watched
      BY <1>5, NoneIsFine DEF IInv, Sound
    <2> QED
      BY <1>0, <2>0 DEF TypeOK, Births, Names, Watched, OneSupervisor, OneWatchdog, Booted, Hunts
  <1> QED BY <1>1, <1>2, <1>3, <1>4, <1>5 DEF IInv

LEMMA LeaveKeeps ==
  ASSUME IInv, NEW p \in Procs, Leave(p)
  PROVE  IInv'
  <1> USE WatchdogAssumption DEF Leave, Goto, files, client, Nobody, SupPCs, SupBoots,
          SupEnds, WdPCs, Sup, Wd, Alive, Active, Healthy
  <1>0. TypeOK /\ Births /\ Names
    BY DEF IInv
  <1>1. TypeOK'
    BY <1>0 DEF TypeOK, Names
  <1>2. Births'
    BY <1>0 DEF TypeOK, Births
  <1>3. Names'
    BY <1>0 DEF TypeOK, Births, Names
  <1>4. ASSUME AtWorst("unwatched")' PROVE Sound'
    <2>0. OneSupervisor /\ OneWatchdog /\ Booted /\ Hunts /\ Counts
      BY <1>4 DEF IInv, Sound, AtWorst
    <2>1. OneSupervisor'
      BY <1>0, <2>0 DEF TypeOK, Births, OneSupervisor, Hunts
    <2>2. OneWatchdog'
      BY <1>0, <2>0 DEF TypeOK, Births, Booted, OneWatchdog
    <2>3. Booted'
      BY <1>0, <2>0 DEF TypeOK, Births, Names, OneSupervisor, OneWatchdog, Booted, Hunts
    <2>4. Hunts'
      BY <1>0, <2>0 DEF TypeOK, Births, Names, OneSupervisor, OneWatchdog, Booted, Hunts
    <2>5. Counts'
      BY <1>0, <2>0 DEF TypeOK, Births, Names, OneSupervisor, OneWatchdog, Booted, Hunts, Counts
    <2> QED BY <2>1, <2>2, <2>3, <2>4, <2>5 DEF Sound
  <1>5. ASSUME trouble' = "none" PROVE Watched'
    <2>0. OneSupervisor /\ OneWatchdog /\ Booted /\ Hunts /\ Watched
      BY <1>5, NoneIsFine DEF IInv, Sound
    <2> QED
      BY <1>0, <2>0 DEF TypeOK, Births, Names, Watched, OneSupervisor, OneWatchdog, Booted, Hunts
  <1> QED BY <1>1, <1>2, <1>3, <1>4, <1>5 DEF IInv

LEMMA FailsKeeps ==
  ASSUME IInv, NEW p \in Procs, NEW at, NEW next, <<at, next>> \in Failures, Fails(p, at, next)
  PROVE  IInv'
  <1> USE WatchdogAssumption DEF Fails, Goto, files, client, Nobody, SupPCs, SupBoots,
          SupEnds, WdPCs, Sup, Wd, Alive, Active, Healthy
  <1>0. TypeOK /\ Births /\ Names
    BY DEF IInv
  <1>n. /\ trouble' \in DOMAIN Rank
        /\ AtWorst("unwatched")' => AtWorst("unwatched")
        /\ AtWorst("unwatched")' /\ "unwatched" # "unwatched" => ~((at = "clear" /\ sentinel) \/ at \in {"write", "fork", "respawn"})
        /\ trouble' = "none" => trouble = "none" /\ ~((at = "clear" /\ sentinel) \/ at \in {"write", "fork", "respawn"})
    <2>1. trouble \in DOMAIN Rank
      BY <1>0 DEF TypeOK
    <2>2. Note("unwatched", (at = "clear" /\ sentinel) \/ at \in {"write", "fork", "respawn"})
      OBVIOUS
    <2> HIDE DEF Fails
    <2> QED BY <2>1, <2>2, Notes
  <1>f. /\ pc[p] = at /\ pc' = [pc EXCEPT ![p] = next] /\ faults' \in {faults, faults + 1}
        /\ faults' = faults \/ faults < MaxFaults
        /\ supPid' = supPid \/ (at = "write" /\ supPid' = Nobody)
        /\ wdPid' \in {wdPid, Nobody}
    OBVIOUS
  <1> USE DEF Failures
  <1>1. TypeOK'
    <2>1. faults' \in 0..MaxFaults
      BY <1>0, <1>f DEF TypeOK
    <2>2. pc' \in [Procs -> SupPCs \cup WdPCs \cup {"unborn", "dead"}]
      BY <1>0, <1>f DEF TypeOK
    <2>3. supPid' \in Procs \cup {Nobody} /\ wdPid' \in Procs \cup {Nobody}
      BY <1>0, <1>f DEF TypeOK
    <2> QED BY <1>0, <1>n, <2>1, <2>2, <2>3 DEF TypeOK
  <1>2. Births'
    BY <1>0 DEF TypeOK, Births
  <1>3. Names'
    BY <1>0 DEF TypeOK, Births, Names
  <1>4. ASSUME AtWorst("unwatched")' PROVE Sound'
    <2>0. OneSupervisor /\ OneWatchdog /\ Booted /\ Hunts /\ Counts
      BY <1>4, <1>n DEF IInv, Sound
    <2>1. OneSupervisor'
      BY <1>0, <2>0 DEF TypeOK, Births, OneSupervisor, Hunts
    <2>2. OneWatchdog'
      BY <1>0, <2>0 DEF TypeOK, Births, Booted, OneWatchdog
    <2>3. Booted'
      BY <1>0, <2>0 DEF TypeOK, Births, Names, OneSupervisor, OneWatchdog, Booted, Hunts
    <2>4. Hunts'
      BY <1>0, <2>0 DEF TypeOK, Births, Names, OneSupervisor, OneWatchdog, Booted, Hunts
    <2>5. Counts'
      BY <1>0, <2>0 DEF TypeOK, Births, Names, OneSupervisor, OneWatchdog, Booted, Hunts, Counts
    <2> QED BY <2>1, <2>2, <2>3, <2>4, <2>5 DEF Sound
  <1>5. ASSUME trouble' = "none" PROVE Watched'
    <2>0. OneSupervisor /\ OneWatchdog /\ Booted /\ Hunts /\ Watched
      BY <1>5, <1>n, NoneIsFine DEF IInv, Sound
    <2>1. at \in {"clear", "sentinel", "announce"} /\ (at = "clear" => ~sentinel)
      BY <1>5, <1>n
    <2>2. supPid' = supPid /\ sentinel' = sentinel
      BY <1>f, <2>1
    <2>3. Active(p) => Active(p)'
      BY <1>0, <1>f, <2>1 DEF TypeOK
    <2>4. \A q \in Procs \ {p} : pc'[q] = pc[q]
      BY <1>0, <1>f DEF TypeOK
    <2> QED BY <1>0, <1>f, <2>0, <2>1, <2>2, <2>3, <2>4 DEF TypeOK, Watched
  <1> QED BY <1>1, <1>2, <1>3, <1>4, <1>5 DEF IInv

LEMMA WedgeKeeps ==
  ASSUME IInv, NEW p \in Procs, Wedge(p)
  PROVE  IInv'
  <1> USE WatchdogAssumption DEF Wedge, Goto, files, client, Nobody, SupPCs, SupBoots,
          SupEnds, WdPCs, Sup, Wd, Alive, Active, Healthy
  <1>0. TypeOK /\ Births /\ Names
    BY DEF IInv
  <1>1. TypeOK'
    BY <1>0 DEF TypeOK, Names
  <1>2. Births'
    BY <1>0 DEF TypeOK, Births
  <1>3. Names'
    BY <1>0 DEF TypeOK, Births, Names
  <1>4. ASSUME AtWorst("unwatched")' PROVE Sound'
    <2>0. OneSupervisor /\ OneWatchdog /\ Booted /\ Hunts /\ Counts
      BY <1>4 DEF IInv, Sound, AtWorst
    <2>1. OneSupervisor'
      BY <1>0, <2>0 DEF TypeOK, Births, OneSupervisor, Hunts
    <2>2. OneWatchdog'
      BY <1>0, <2>0 DEF TypeOK, Births, Booted, OneWatchdog
    <2>3. Booted'
      BY <1>0, <2>0 DEF TypeOK, Births, Names, OneSupervisor, OneWatchdog, Booted, Hunts
    <2>4. Hunts'
      BY <1>0, <2>0 DEF TypeOK, Births, Names, OneSupervisor, OneWatchdog, Booted, Hunts
    <2>5. Counts'
      BY <1>0, <2>0 DEF TypeOK, Births, Names, OneSupervisor, OneWatchdog, Booted, Hunts, Counts
    <2> QED BY <2>1, <2>2, <2>3, <2>4, <2>5 DEF Sound
  <1>5. ASSUME trouble' = "none" PROVE Watched'
    <2>0. OneSupervisor /\ OneWatchdog /\ Booted /\ Hunts /\ Watched
      BY <1>5, NoneIsFine DEF IInv, Sound
    <2> QED
      BY <1>0, <2>0 DEF TypeOK, Births, Names, Watched, OneSupervisor, OneWatchdog, Booted, Hunts
  <1> QED BY <1>1, <1>2, <1>3, <1>4, <1>5 DEF IInv

LEMMA CrashKeeps ==
  ASSUME IInv, NEW p \in Procs, Crash(p)
  PROVE  IInv'
  <1> USE WatchdogAssumption DEF Crash, Goto, files, client, Nobody, SupPCs, SupBoots,
          SupEnds, WdPCs, Sup, Wd, Alive, Active, Healthy
  <1>0. TypeOK /\ Births /\ Names
    BY DEF IInv
  <1>1. TypeOK'
    BY <1>0 DEF TypeOK, Names
  <1>2. Births'
    BY <1>0 DEF TypeOK, Births
  <1>3. Names'
    BY <1>0 DEF TypeOK, Births, Names
  <1>4. ASSUME AtWorst("unwatched")' PROVE Sound'
    <2>0. OneSupervisor /\ OneWatchdog /\ Booted /\ Hunts /\ Counts
      BY <1>4 DEF IInv, Sound, AtWorst
    <2>1. OneSupervisor'
      BY <1>0, <2>0 DEF TypeOK, Births, OneSupervisor, Hunts
    <2>2. OneWatchdog'
      BY <1>0, <2>0 DEF TypeOK, Births, Booted, OneWatchdog
    <2>3. Booted'
      BY <1>0, <2>0 DEF TypeOK, Births, Names, OneSupervisor, OneWatchdog, Booted, Hunts
    <2>4. Hunts'
      BY <1>0, <2>0 DEF TypeOK, Births, Names, OneSupervisor, OneWatchdog, Booted, Hunts
    <2>5. Counts'
      BY <1>0, <2>0 DEF TypeOK, Births, Names, OneSupervisor, OneWatchdog, Booted, Hunts, Counts
    <2> QED BY <2>1, <2>2, <2>3, <2>4, <2>5 DEF Sound
  <1>5. ASSUME trouble' = "none" PROVE Watched'
    <2>0. OneSupervisor /\ OneWatchdog /\ Booted /\ Hunts /\ Watched
      BY <1>5, NoneIsFine DEF IInv, Sound
    <2> QED
      BY <1>0, <2>0 DEF TypeOK, Births, Names, Watched, OneSupervisor, OneWatchdog, Booted, Hunts
  <1> QED BY <1>1, <1>2, <1>3, <1>4, <1>5 DEF IInv

LEMMA AnnounceKeeps ==
  ASSUME IInv, NEW p \in Procs, Announce(p)
  PROVE  IInv'
  <1> USE WatchdogAssumption DEF Announce, Goto, files, client, Nobody, SupPCs,
          SupBoots, SupEnds, WdPCs, Sup, Wd, Alive, Active, Healthy
  <1>0. TypeOK /\ Births /\ Names
    BY DEF IInv
  <1>1. TypeOK'
    BY <1>0 DEF TypeOK, Names
  <1>2. Births'
    BY <1>0 DEF TypeOK, Births
  <1>3. Names'
    BY <1>0 DEF TypeOK, Births, Names
  <1>4. ASSUME AtWorst("unwatched")' PROVE Sound'
    <2>0. OneSupervisor /\ OneWatchdog /\ Booted /\ Hunts /\ Counts
      BY <1>4 DEF IInv, Sound, AtWorst
    <2>1. OneSupervisor'
      BY <1>0, <2>0 DEF TypeOK, Births, OneSupervisor, Hunts
    <2>2. OneWatchdog'
      BY <1>0, <2>0 DEF TypeOK, Births, Booted, OneWatchdog
    <2>3. Booted'
      BY <1>0, <2>0 DEF TypeOK, Births, Names, OneSupervisor, OneWatchdog, Booted, Hunts
    <2>4. Hunts'
      BY <1>0, <2>0 DEF TypeOK, Births, Names, OneSupervisor, OneWatchdog, Booted, Hunts
    <2>5. Counts'
      BY <1>0, <2>0 DEF TypeOK, Births, Names, OneSupervisor, OneWatchdog, Booted, Hunts, Counts
    <2> QED BY <2>1, <2>2, <2>3, <2>4, <2>5 DEF Sound
  <1>5. ASSUME trouble' = "none" PROVE Watched'
    <2>0. OneSupervisor /\ OneWatchdog /\ Booted /\ Hunts /\ Watched
      BY <1>5, NoneIsFine DEF IInv, Sound
    <2> QED
      BY <1>0, <2>0 DEF TypeOK, Births, Names, Watched, OneSupervisor, OneWatchdog, Booted, Hunts
  <1> QED BY <1>1, <1>2, <1>3, <1>4, <1>5 DEF IInv

LEMMA LookKeeps ==
  ASSUME IInv, NEW p \in Procs, Look(p)
  PROVE  IInv'
  <1> USE WatchdogAssumption DEF Look, Goto, files, client, Nobody, SupPCs, SupBoots,
          SupEnds, WdPCs, Sup, Wd, Alive, Active, Healthy
  <1>0. TypeOK /\ Births /\ Names
    BY DEF IInv
  <1>1. TypeOK'
    BY <1>0 DEF TypeOK, Names
  <1>2. Births'
    BY <1>0 DEF TypeOK, Births
  <1>3. Names'
    BY <1>0 DEF TypeOK, Births, Names
  <1>4. ASSUME AtWorst("unwatched")' PROVE Sound'
    <2>0. OneSupervisor /\ OneWatchdog /\ Booted /\ Hunts /\ Counts
      BY <1>4 DEF IInv, Sound, AtWorst
    <2>1. OneSupervisor'
      BY <1>0, <2>0 DEF TypeOK, Births, OneSupervisor, Hunts
    <2>2. OneWatchdog'
      BY <1>0, <2>0 DEF TypeOK, Births, Booted, OneWatchdog
    <2>3. Booted'
      BY <1>0, <2>0 DEF TypeOK, Births, Names, OneSupervisor, OneWatchdog, Booted, Hunts
    <2>4. Hunts'
      BY <1>0, <2>0 DEF TypeOK, Births, Names, OneSupervisor, OneWatchdog, Booted, Hunts
    <2>5. Counts'
      BY <1>0, <2>0 DEF TypeOK, Births, Names, OneSupervisor, OneWatchdog, Booted, Hunts, Counts
    <2> QED BY <2>1, <2>2, <2>3, <2>4, <2>5 DEF Sound
  <1>5. ASSUME trouble' = "none" PROVE Watched'
    <2>0. OneSupervisor /\ OneWatchdog /\ Booted /\ Hunts /\ Watched
      BY <1>5, NoneIsFine DEF IInv, Sound
    <2> QED
      BY <1>0, <2>0 DEF TypeOK, Births, Names, Watched, OneSupervisor, OneWatchdog, Booted, Hunts
  <1> QED BY <1>1, <1>2, <1>3, <1>4, <1>5 DEF IInv

LEMMA TickKeeps ==
  ASSUME IInv, NEW p \in Procs, Tick(p)
  PROVE  IInv'
  <1> USE WatchdogAssumption DEF Tick, Goto, Gone, files, client, Nobody, SupPCs,
          SupBoots, SupEnds, WdPCs, Sup, Wd, Alive, Active, Healthy
  <1>0. TypeOK /\ Births /\ Names
    BY DEF IInv
  <1>1. TypeOK'
    BY <1>0 DEF TypeOK, Names
  <1>2. Births'
    BY <1>0 DEF TypeOK, Births
  <1>3. Names'
    BY <1>0 DEF TypeOK, Births, Names
  <1>4. ASSUME AtWorst("unwatched")' PROVE Sound'
    <2>0. OneSupervisor /\ OneWatchdog /\ Booted /\ Hunts /\ Counts
      BY <1>4 DEF IInv, Sound, AtWorst
    <2>1. OneSupervisor'
      BY <1>0, <2>0 DEF TypeOK, Births, OneSupervisor, Hunts
    <2>2. OneWatchdog'
      BY <1>0, <2>0 DEF TypeOK, Births, Booted, OneWatchdog
    <2>3. Booted'
      BY <1>0, <2>0 DEF TypeOK, Births, Names, OneSupervisor, OneWatchdog, Booted, Hunts
    <2>4. Hunts'
      BY <1>0, <2>0 DEF TypeOK, Births, Names, OneSupervisor, OneWatchdog, Booted, Hunts
    <2>5. Counts'
      BY <1>0, <2>0 DEF TypeOK, Births, Names, OneSupervisor, OneWatchdog, Booted, Hunts, Counts
    <2> QED BY <2>1, <2>2, <2>3, <2>4, <2>5 DEF Sound
  <1>5. ASSUME trouble' = "none" PROVE Watched'
    <2>0. OneSupervisor /\ OneWatchdog /\ Booted /\ Hunts /\ Watched
      BY <1>5, NoneIsFine DEF IInv, Sound
    <2>1. CASE sentinel \/ Gone
      <3>1. \A q \in Procs : pc[q] \notin {"unlink", "listen", "run"}
        <4> SUFFICES ASSUME NEW q \in Procs, pc[q] \in {"unlink", "listen", "run"} PROVE FALSE
          OBVIOUS
        <4>1. supPid = q /\ ~sentinel /\ q # 0
          BY <2>0 DEF Watched, Procs
        <4> QED BY <2>1, <4>1
      <3> QED BY <1>0, <2>0, <2>1, <3>1 DEF TypeOK, Watched
    <2>2. CASE ~(sentinel \/ Gone)
      BY <1>0, <2>0, <2>2 DEF TypeOK, Watched
    <2> QED BY <2>1, <2>2
  <1> QED BY <1>1, <1>2, <1>3, <1>4, <1>5 DEF IInv

LEMMA ProbeAnsweredKeeps ==
  ASSUME IInv, NEW p \in Procs, ProbeAnswered(p)
  PROVE  IInv'
  <1> USE WatchdogAssumption DEF ProbeAnswered, Goto, Answers, files, client, Nobody,
          SupPCs, SupBoots, SupEnds, WdPCs, Sup, Wd, Alive, Active, Healthy
  <1>0. TypeOK /\ Births /\ Names
    BY DEF IInv
  <1>1. TypeOK'
    BY <1>0 DEF TypeOK, Names
  <1>2. Births'
    BY <1>0 DEF TypeOK, Births
  <1>3. Names'
    BY <1>0 DEF TypeOK, Births, Names
  <1>4. ASSUME AtWorst("unwatched")' PROVE Sound'
    <2>0. OneSupervisor /\ OneWatchdog /\ Booted /\ Hunts /\ Counts
      BY <1>4 DEF IInv, Sound, AtWorst
    <2>1. OneSupervisor'
      BY <1>0, <2>0 DEF TypeOK, Births, OneSupervisor, Hunts
    <2>2. OneWatchdog'
      BY <1>0, <2>0 DEF TypeOK, Births, Booted, OneWatchdog
    <2>3. Booted'
      BY <1>0, <2>0 DEF TypeOK, Births, Names, OneSupervisor, OneWatchdog, Booted, Hunts
    <2>4. Hunts'
      BY <1>0, <2>0 DEF TypeOK, Births, Names, OneSupervisor, OneWatchdog, Booted, Hunts
    <2>5. Counts'
      BY <1>0, <2>0 DEF TypeOK, Births, Names, OneSupervisor, OneWatchdog, Booted, Hunts, Counts
    <2> QED BY <2>1, <2>2, <2>3, <2>4, <2>5 DEF Sound
  <1>5. ASSUME trouble' = "none" PROVE Watched'
    <2>0. OneSupervisor /\ OneWatchdog /\ Booted /\ Hunts /\ Watched
      BY <1>5, NoneIsFine DEF IInv, Sound
    <2> QED
      BY <1>0, <2>0 DEF TypeOK, Births, Names, Watched, OneSupervisor, OneWatchdog, Booted, Hunts
  <1> QED BY <1>1, <1>2, <1>3, <1>4, <1>5 DEF IInv

LEMMA ProbeMissedKeeps ==
  ASSUME IInv, NEW p \in Procs, ProbeMissed(p)
  PROVE  IInv'
  <1> USE WatchdogAssumption DEF ProbeMissed, Goto, Answers, files, client, Nobody,
          SupPCs, SupBoots, SupEnds, WdPCs, Sup, Wd, Alive, Active, Healthy
  <1>0. TypeOK /\ Births /\ Names
    BY DEF IInv
  <1>n. /\ trouble' \in DOMAIN Rank
        /\ AtWorst("unwatched")' => AtWorst("unwatched")
        /\ AtWorst("unwatched")' /\ "slow" # "unwatched" => ~(misses[p] + 2 >= MaxMisses /\ \E q \in Procs : pc[q] \in SupBoots \cup SupEnds)
        /\ trouble' = "none" => trouble = "none" /\ ~(misses[p] + 2 >= MaxMisses /\ \E q \in Procs : pc[q] \in SupBoots \cup SupEnds)
    <2>1. trouble \in DOMAIN Rank
      BY <1>0 DEF TypeOK
    <2>2. Note("slow", misses[p] + 2 >= MaxMisses /\ \E q \in Procs : pc[q] \in SupBoots \cup SupEnds)
      OBVIOUS
    <2> HIDE DEF ProbeMissed
    <2> QED BY <2>1, <2>2, Notes
  <1>1. TypeOK'
    BY <1>0, <1>n DEF TypeOK, Names
  <1>2. Births'
    BY <1>0 DEF TypeOK, Births
  <1>3. Names'
    BY <1>0 DEF TypeOK, Births, Names
  <1>4. ASSUME AtWorst("unwatched")' PROVE Sound'
    <2>0. OneSupervisor /\ OneWatchdog /\ Booted /\ Hunts /\ Counts
      BY <1>4, <1>n DEF IInv, Sound
    <2>1. OneSupervisor'
      BY <1>0, <2>0 DEF TypeOK, Births, OneSupervisor, Hunts
    <2>2. OneWatchdog'
      BY <1>0, <2>0 DEF TypeOK, Births, Booted, OneWatchdog
    <2>3. Booted'
      BY <1>0, <2>0 DEF TypeOK, Births, Names, OneSupervisor, OneWatchdog, Booted, Hunts
    <2>4. Hunts'
      <3>1. \A q \in Procs \ {p} : pc'[q] = pc[q]
        BY <1>0 DEF TypeOK
      <3>2. pc'[p] \in {"tick", "kill"} /\ pc[p] = "probe"
        BY <1>0 DEF TypeOK
      <3>3. (\A q \in Procs : ~Sup(q)) => pc'[p] = "tick"
        BY <1>0, <2>0 DEF TypeOK, Counts
      <3>4. ASSUME pc'[p] = "kill" PROVE \E q \in wedged : pc'[q] = "run"
        <4>1. misses[p] + 1 >= MaxMisses
          BY <1>0, <3>4 DEF TypeOK
        <4>2. PICK q \in Procs : Sup(q)
          BY <3>3, <3>4
        <4>3. pc[q] = "run"
          BY <1>0, <1>4, <1>n, <4>1, <4>2 DEF TypeOK
        <4>4. q \in wedged
          BY <1>0, <2>0, <4>1, <4>3 DEF TypeOK, Counts
        <4> QED BY <3>1, <3>2, <4>3, <4>4
      <3> QED BY <1>0, <2>0, <3>1, <3>2, <3>4 DEF TypeOK, Hunts
    <2>5. Counts'
      <3>1. /\ \A q \in Procs \ {p} : pc'[q] = pc[q] /\ misses'[q] = misses[q]
            /\ misses'[p] = misses[p] + 1 /\ misses[p] \in 0..MaxMisses
            /\ pc'[p] = IF misses[p] + 1 < MaxMisses THEN "tick" ELSE "kill"
        BY <1>0 DEF TypeOK
      <3>2. \A q \in Procs : Sup(q)' = Sup(q) /\ Healthy(q)' = Healthy(q)
        BY <3>1
      <3>3. ASSUME NEW q \in Procs, Healthy(q) PROVE misses[p] + 3 <= MaxMisses
        <4>1. pc[q] # "run"
          BY <2>0, <3>3 DEF Booted, Procs
        <4>2. pc[q] \in SupBoots \cup SupEnds
          BY <3>3, <4>1
        <4> QED BY <1>4, <1>n, <4>2, <3>1
      <3>4. ASSUME NEW w \in Procs, Active(w)', NEW q \in Procs, Healthy(q)'
            PROVE  misses'[w] + 2 <= MaxMisses
        <4>1. Active(w) /\ Healthy(q)
          BY <3>1, <3>2, <3>4
        <4>2. w = p
          BY <2>0, <4>1 DEF OneWatchdog
        <4> QED BY <3>1, <3>3, <4>1, <4>2
      <3>5. ASSUME NEW w \in Procs, pc'[w] = "probe", \A q \in Procs : ~Sup(q)'
            PROVE  misses'[w] + 2 <= MaxMisses
        <4>1. w # p /\ pc[w] = "probe" /\ misses'[w] = misses[w]
          BY <3>1, <3>5
        <4> QED BY <2>0, <3>2, <3>5, <4>1 DEF Counts
      <3> QED BY <3>4, <3>5 DEF Counts
    <2> QED BY <2>1, <2>2, <2>3, <2>4, <2>5 DEF Sound
  <1>5. ASSUME trouble' = "none" PROVE Watched'
    <2>0. OneSupervisor /\ OneWatchdog /\ Booted /\ Hunts /\ Watched
      BY <1>5, <1>n, NoneIsFine DEF IInv, Sound
    <2> QED
      BY <1>0, <2>0 DEF TypeOK, Births, Names, Watched, OneSupervisor, OneWatchdog, Booted, Hunts
  <1> QED BY <1>1, <1>2, <1>3, <1>4, <1>5 DEF IInv

LEMMA KillKeeps ==
  ASSUME IInv, NEW p \in Procs, Kill(p)
  PROVE  IInv'
  <1> USE WatchdogAssumption DEF Kill, Killed, files, client, Nobody, SupPCs,
          SupBoots, SupEnds, WdPCs, Sup, Wd, Alive, Active, Healthy
  <1>0. TypeOK /\ Births /\ Names
    BY DEF IInv
  <1>1. TypeOK'
    BY <1>0 DEF TypeOK, Names
  <1>2. Births'
    BY <1>0 DEF TypeOK, Births
  <1>3. Names'
    BY <1>0 DEF TypeOK, Births, Names
  <1>4. ASSUME AtWorst("unwatched")' PROVE Sound'
    <2>0. OneSupervisor /\ OneWatchdog /\ Booted /\ Hunts /\ Counts
      BY <1>4 DEF IInv, Sound, AtWorst
    <2>1. OneSupervisor'
      BY <1>0, <2>0 DEF TypeOK, Births, OneSupervisor, Hunts
    <2>2. OneWatchdog'
      BY <1>0, <2>0 DEF TypeOK, Births, Booted, OneWatchdog
    <2>3. Booted'
      BY <1>0, <2>0 DEF TypeOK, Births, Names, OneSupervisor, OneWatchdog, Booted, Hunts
    <2>4. Hunts'
      BY <1>0, <2>0 DEF TypeOK, Births, Names, OneSupervisor, OneWatchdog, Booted, Hunts
    <2>5. Counts'
      BY <1>0, <2>0 DEF TypeOK, Births, Names, OneSupervisor, OneWatchdog, Booted, Hunts, Counts
    <2> QED BY <2>1, <2>2, <2>3, <2>4, <2>5 DEF Sound
  <1>5. ASSUME trouble' = "none" PROVE Watched'
    <2>0. OneSupervisor /\ OneWatchdog /\ Booted /\ Hunts /\ Watched
      BY <1>5, NoneIsFine DEF IInv, Sound
    <2> QED
      BY <1>0, <2>0 DEF TypeOK, Births, Names, Watched, OneSupervisor, OneWatchdog, Booted, Hunts
  <1> QED BY <1>1, <1>2, <1>3, <1>4, <1>5 DEF IInv

LEMMA SweepKeeps ==
  ASSUME IInv, NEW p \in Procs, Sweep(p)
  PROVE  IInv'
  <1> USE WatchdogAssumption DEF Sweep, Goto, files, client, Nobody, SupPCs, SupBoots,
          SupEnds, WdPCs, Sup, Wd, Alive, Active, Healthy
  <1>0. TypeOK /\ Births /\ Names
    BY DEF IInv
  <1>1. TypeOK'
    BY <1>0 DEF TypeOK, Names
  <1>2. Births'
    BY <1>0 DEF TypeOK, Births
  <1>3. Names'
    BY <1>0 DEF TypeOK, Births, Names
  <1>4. ASSUME AtWorst("unwatched")' PROVE Sound'
    <2>0. OneSupervisor /\ OneWatchdog /\ Booted /\ Hunts /\ Counts
      BY <1>4 DEF IInv, Sound, AtWorst
    <2>1. OneSupervisor'
      BY <1>0, <2>0 DEF TypeOK, Births, OneSupervisor, Hunts
    <2>2. OneWatchdog'
      BY <1>0, <2>0 DEF TypeOK, Births, Booted, OneWatchdog
    <2>3. Booted'
      BY <1>0, <2>0 DEF TypeOK, Births, Names, OneSupervisor, OneWatchdog, Booted, Hunts
    <2>4. Hunts'
      BY <1>0, <2>0 DEF TypeOK, Births, Names, OneSupervisor, OneWatchdog, Booted, Hunts
    <2>5. Counts'
      BY <1>0, <2>0 DEF TypeOK, Births, Names, OneSupervisor, OneWatchdog, Booted, Hunts, Counts
    <2> QED BY <2>1, <2>2, <2>3, <2>4, <2>5 DEF Sound
  <1>5. ASSUME trouble' = "none" PROVE Watched'
    <2>0. OneSupervisor /\ OneWatchdog /\ Booted /\ Hunts /\ Watched
      BY <1>5, NoneIsFine DEF IInv, Sound
    <2> QED
      BY <1>0, <2>0 DEF TypeOK, Births, Names, Watched, OneSupervisor, OneWatchdog, Booted, Hunts
  <1> QED BY <1>1, <1>2, <1>3, <1>4, <1>5 DEF IInv

LEMMA RespawnKeeps ==
  ASSUME IInv, NEW p \in Procs, Respawn(p)
  PROVE  IInv'
  <1> USE WatchdogAssumption DEF Respawn, Forks, files, client, Nobody, SupPCs,
          SupBoots, SupEnds, WdPCs, Sup, Wd, Alive, Active, Healthy
  <1>0. TypeOK /\ Births /\ Names
    BY DEF IInv
  <1>1. TypeOK'
    <2>1. born \in 0..MaxProcs /\ born + 1 \in Procs /\ born + 1 \in 0..MaxProcs
      BY <1>0 DEF TypeOK, Procs
    <2>2. pc' = [pc EXCEPT ![p] = "retire", ![born + 1] = "clear"]
      OBVIOUS
    <2>3. pc' \in [Procs -> SupPCs \cup WdPCs \cup {"unborn", "dead"}]
      BY <1>0, <2>1, <2>2 DEF TypeOK
    <2> QED BY <1>0, <2>1, <2>3 DEF TypeOK
  <1>2. Births'
    <2>1. born \in Nat /\ born' = born + 1
      BY <1>0 DEF TypeOK
    <2>2. p <= born
      BY <1>0, <2>1 DEF Births, Procs
    <2>3. \A q \in Procs : q > born + 1 => q > born /\ q # born + 1 /\ q # p
      BY <2>1, <2>2 DEF Procs
    <2>4. \A q \in Procs : q > born + 1 => pc'[q] = pc[q]
      BY <1>0, <2>3 DEF TypeOK
    <2> QED BY <1>0, <2>1, <2>3, <2>4 DEF Births
  <1>3. Names'
    BY <1>0 DEF TypeOK, Births, Names
  <1>4. ASSUME AtWorst("unwatched")' PROVE Sound'
    <2>0. OneSupervisor /\ OneWatchdog /\ Booted /\ Hunts /\ Counts
      BY <1>4 DEF IInv, Sound, AtWorst
    <2>1. OneSupervisor'
      BY <1>0, <2>0 DEF TypeOK, Births, OneSupervisor, Hunts
    <2>2. OneWatchdog'
      BY <1>0, <2>0 DEF TypeOK, Births, Booted, OneWatchdog
    <2>3. Booted'
      BY <1>0, <2>0 DEF TypeOK, Births, Names, OneSupervisor, OneWatchdog, Booted, Hunts
    <2>4. Hunts'
      BY <1>0, <2>0 DEF TypeOK, Births, Names, OneSupervisor, OneWatchdog, Booted, Hunts
    <2>5. Counts'
      BY <1>0, <2>0 DEF TypeOK, Births, Names, OneSupervisor, OneWatchdog, Booted, Hunts, Counts
    <2> QED BY <2>1, <2>2, <2>3, <2>4, <2>5 DEF Sound
  <1>5. ASSUME trouble' = "none" PROVE Watched'
    <2>0. OneSupervisor /\ OneWatchdog /\ Booted /\ Hunts /\ Watched
      BY <1>5, NoneIsFine DEF IInv, Sound
    <2> QED
      BY <1>0, <2>0 DEF TypeOK, Births, Names, Watched, OneSupervisor, OneWatchdog, Booted, Hunts
  <1> QED BY <1>1, <1>2, <1>3, <1>4, <1>5 DEF IInv

LEMMA WatchdogDiesKeeps ==
  ASSUME IInv, NEW p \in Procs, WatchdogDies(p)
  PROVE  IInv'
  <1> USE WatchdogAssumption DEF WatchdogDies, Goto, files, client, Nobody, SupPCs,
          SupBoots, SupEnds, WdPCs, Sup, Wd, Alive, Active, Healthy
  <1>0. TypeOK /\ Births /\ Names
    BY DEF IInv
  <1>n. /\ trouble' \in DOMAIN Rank
        /\ AtWorst("unwatched")' => AtWorst("unwatched")
        /\ AtWorst("unwatched")' /\ "unwatched" # "unwatched" => ~(TRUE)
        /\ trouble' = "none" => trouble = "none" /\ ~(TRUE)
    <2>1. trouble \in DOMAIN Rank
      BY <1>0 DEF TypeOK
    <2>2. Note("unwatched", TRUE)
      OBVIOUS
    <2> HIDE DEF WatchdogDies
    <2> QED BY <2>1, <2>2, Notes
  <1>1. TypeOK'
    BY <1>0, <1>n DEF TypeOK, Names
  <1>2. Births'
    BY <1>0 DEF TypeOK, Births
  <1>3. Names'
    BY <1>0 DEF TypeOK, Births, Names
  <1>4. ASSUME AtWorst("unwatched")' PROVE Sound'
    <2>0. OneSupervisor /\ OneWatchdog /\ Booted /\ Hunts /\ Counts
      BY <1>4, <1>n DEF IInv, Sound
    <2>1. OneSupervisor'
      BY <1>0, <2>0 DEF TypeOK, Births, OneSupervisor, Hunts
    <2>2. OneWatchdog'
      BY <1>0, <2>0 DEF TypeOK, Births, Booted, OneWatchdog
    <2>3. Booted'
      BY <1>0, <2>0 DEF TypeOK, Births, Names, OneSupervisor, OneWatchdog, Booted, Hunts
    <2>4. Hunts'
      BY <1>0, <2>0 DEF TypeOK, Births, Names, OneSupervisor, OneWatchdog, Booted, Hunts
    <2>5. Counts'
      BY <1>0, <2>0 DEF TypeOK, Births, Names, OneSupervisor, OneWatchdog, Booted, Hunts, Counts
    <2> QED BY <2>1, <2>2, <2>3, <2>4, <2>5 DEF Sound
  <1>5. ASSUME trouble' = "none" PROVE Watched'
    <2> QED BY <1>5, <1>n
  <1> QED BY <1>1, <1>2, <1>3, <1>4, <1>5 DEF IInv

LEMMA RetireKeeps ==
  ASSUME IInv, NEW p \in Procs, Retire(p)
  PROVE  IInv'
  <1> USE WatchdogAssumption DEF Retire, Goto, files, client, Nobody, SupPCs,
          SupBoots, SupEnds, WdPCs, Sup, Wd, Alive, Active, Healthy
  <1>0. TypeOK /\ Births /\ Names
    BY DEF IInv
  <1>1. TypeOK'
    BY <1>0 DEF TypeOK, Names
  <1>2. Births'
    BY <1>0 DEF TypeOK, Births
  <1>3. Names'
    BY <1>0 DEF TypeOK, Births, Names
  <1>4. ASSUME AtWorst("unwatched")' PROVE Sound'
    <2>0. OneSupervisor /\ OneWatchdog /\ Booted /\ Hunts /\ Counts
      BY <1>4 DEF IInv, Sound, AtWorst
    <2>1. OneSupervisor'
      BY <1>0, <2>0 DEF TypeOK, Births, OneSupervisor, Hunts
    <2>2. OneWatchdog'
      BY <1>0, <2>0 DEF TypeOK, Births, Booted, OneWatchdog
    <2>3. Booted'
      BY <1>0, <2>0 DEF TypeOK, Births, Names, OneSupervisor, OneWatchdog, Booted, Hunts
    <2>4. Hunts'
      BY <1>0, <2>0 DEF TypeOK, Births, Names, OneSupervisor, OneWatchdog, Booted, Hunts
    <2>5. Counts'
      BY <1>0, <2>0 DEF TypeOK, Births, Names, OneSupervisor, OneWatchdog, Booted, Hunts, Counts
    <2> QED BY <2>1, <2>2, <2>3, <2>4, <2>5 DEF Sound
  <1>5. ASSUME trouble' = "none" PROVE Watched'
    <2>0. OneSupervisor /\ OneWatchdog /\ Booted /\ Hunts /\ Watched
      BY <1>5, NoneIsFine DEF IInv, Sound
    <2> QED
      BY <1>0, <2>0 DEF TypeOK, Births, Names, Watched, OneSupervisor, OneWatchdog, Booted, Hunts
  <1> QED BY <1>1, <1>2, <1>3, <1>4, <1>5 DEF IInv

LEMMA QuitKeeps ==
  ASSUME IInv, NEW p \in Procs, NEW hard \in BOOLEAN, Quit(p, hard)
  PROVE  IInv'
  <1> USE WatchdogAssumption DEF Quit, Goto, Answers, files, client, Nobody, SupPCs,
          SupBoots, SupEnds, WdPCs, Sup, Wd, Alive, Active, Healthy
  <1>0. TypeOK /\ Births /\ Names
    BY DEF IInv
  <1>1. TypeOK'
    <2>1. /\ (IF hard THEN all \cup {p} ELSE all) \subseteq Procs
          /\ (cleaning \/ hard) \in BOOLEAN
      BY <1>0 DEF TypeOK
    <2>2. pc' \in [Procs -> SupPCs \cup WdPCs \cup {"unborn", "dead"}]
      BY <1>0 DEF TypeOK
    <2> QED BY <1>0, <2>1, <2>2 DEF TypeOK
  <1>2. Births'
    BY <1>0 DEF TypeOK, Births
  <1>3. Names'
    BY <1>0 DEF TypeOK, Births, Names
  <1>4. ASSUME AtWorst("unwatched")' PROVE Sound'
    <2>0. OneSupervisor /\ OneWatchdog /\ Booted /\ Hunts /\ Counts
      BY <1>4 DEF IInv, Sound, AtWorst
    <2>1. OneSupervisor'
      BY <1>0, <2>0 DEF TypeOK, Births, OneSupervisor, Hunts
    <2>2. OneWatchdog'
      BY <1>0, <2>0 DEF TypeOK, Births, Booted, OneWatchdog
    <2>3. Booted'
      BY <1>0, <2>0 DEF TypeOK, Births, Names, OneSupervisor, OneWatchdog, Booted, Hunts
    <2>4. Hunts'
      BY <1>0, <2>0 DEF TypeOK, Births, Names, OneSupervisor, OneWatchdog, Booted, Hunts
    <2>5. Counts'
      BY <1>0, <2>0 DEF TypeOK, Births, Names, OneSupervisor, OneWatchdog, Booted, Hunts, Counts
    <2> QED BY <2>1, <2>2, <2>3, <2>4, <2>5 DEF Sound
  <1>5. ASSUME trouble' = "none" PROVE Watched'
    <2>0. OneSupervisor /\ OneWatchdog /\ Booted /\ Hunts /\ Watched
      BY <1>5, NoneIsFine DEF IInv, Sound
    <2> QED
      BY <1>0, <2>0 DEF TypeOK, Births, Names, Watched, OneSupervisor, OneWatchdog, Booted, Hunts
  <1> QED BY <1>1, <1>2, <1>3, <1>4, <1>5 DEF IInv

LEMMA ClientStartsKeeps ==
  ASSUME IInv, ClientStarts
  PROVE  IInv'
  <1> USE WatchdogAssumption DEF ClientStarts, files, client, Nobody, SupPCs,
          SupBoots, SupEnds, WdPCs, Sup, Wd, Alive, Active, Healthy
  <1>0. TypeOK /\ Births /\ Names
    BY DEF IInv
  <1>n. /\ trouble' \in DOMAIN Rank
        /\ AtWorst("unwatched")' => AtWorst("unwatched")
        /\ AtWorst("unwatched")' /\ "second" # "unwatched" => ~(cleaning \/ \E p \in Procs : Sup(p) \/ Active(p))
        /\ trouble' = "none" => trouble = "none" /\ ~(cleaning \/ \E p \in Procs : Sup(p) \/ Active(p))
    <2>1. trouble \in DOMAIN Rank
      BY <1>0 DEF TypeOK
    <2>2. Note("second", cleaning \/ \E p \in Procs : Sup(p) \/ Active(p))
      OBVIOUS
    <2> HIDE DEF ClientStarts
    <2> QED BY <2>1, <2>2, Notes
  <1>1. TypeOK'
    <2>1. born \in 0..MaxProcs /\ born + 1 \in Procs /\ born + 1 \in 0..MaxProcs
      BY <1>0 DEF TypeOK, Procs
    <2>2. pc' \in [Procs -> SupPCs \cup WdPCs \cup {"unborn", "dead"}]
      BY <1>0, <2>1 DEF TypeOK
    <2>3. starts' \in 0..MaxStarts
      BY <1>0 DEF TypeOK
    <2> QED BY <1>0, <1>n, <2>1, <2>2, <2>3 DEF TypeOK
  <1>2. Births'
    <2>1. born \in Nat /\ born' = born + 1
      BY <1>0 DEF TypeOK
    <2>3. \A q \in Procs : q > born + 1 => q > born /\ q # born + 1
      BY <2>1 DEF Procs
    <2>4. \A q \in Procs : q > born + 1 => pc'[q] = pc[q]
      BY <1>0, <2>3 DEF TypeOK
    <2> QED BY <1>0, <2>1, <2>3, <2>4 DEF Births
  <1>3. Names'
    BY <1>0 DEF TypeOK, Births, Names
  <1>4. ASSUME AtWorst("unwatched")' PROVE Sound'
    <2>0. OneSupervisor /\ OneWatchdog /\ Booted /\ Hunts /\ Counts
      BY <1>4, <1>n DEF IInv, Sound
    <2>1. OneSupervisor'
      BY <1>0, <2>0, <1>4, <1>n DEF TypeOK, Births, OneSupervisor, Hunts
    <2>2. OneWatchdog'
      BY <1>0, <2>0, <1>4, <1>n DEF TypeOK, Births, Booted, OneWatchdog
    <2>3. Booted'
      BY <1>0, <2>0, <1>4, <1>n DEF TypeOK, Births, Names, OneSupervisor, OneWatchdog, Booted, Hunts
    <2>4. Hunts'
      BY <1>0, <2>0, <1>4, <1>n DEF TypeOK, Births, Names, OneSupervisor, OneWatchdog, Booted, Hunts
    <2>5. Counts'
      BY <1>0, <2>0, <1>4, <1>n DEF TypeOK, Births, Names, OneSupervisor, OneWatchdog, Booted, Hunts, Counts
    <2> QED BY <2>1, <2>2, <2>3, <2>4, <2>5 DEF Sound
  <1>5. ASSUME trouble' = "none" PROVE Watched'
    <2>0. OneSupervisor /\ OneWatchdog /\ Booted /\ Hunts /\ Watched
      BY <1>5, <1>n, NoneIsFine DEF IInv, Sound
    <2> QED
      BY <1>0, <2>0, <1>5, <1>n DEF TypeOK, Births, Names, Watched, OneSupervisor, OneWatchdog, Booted, Hunts
  <1> QED BY <1>1, <1>2, <1>3, <1>4, <1>5 DEF IInv

LEMMA CleanupKeeps ==
  ASSUME IInv, Cleanup
  PROVE  IInv'
  <1> USE WatchdogAssumption DEF Cleanup, files, client, Nobody, SupPCs, SupBoots,
          SupEnds, WdPCs, Sup, Wd, Alive, Active, Healthy
  <1>0. TypeOK /\ Births /\ Names
    BY DEF IInv
  <1>1. TypeOK'
    BY <1>0 DEF TypeOK, Names
  <1>2. Births'
    BY <1>0 DEF TypeOK, Births
  <1>3. Names'
    BY <1>0 DEF TypeOK, Births, Names
  <1>4. ASSUME AtWorst("unwatched")' PROVE Sound'
    <2>0. OneSupervisor /\ OneWatchdog /\ Booted /\ Hunts /\ Counts
      BY <1>4 DEF IInv, Sound, AtWorst
    <2>1. OneSupervisor'
      BY <1>0, <2>0 DEF TypeOK, Births, OneSupervisor, Hunts
    <2>2. OneWatchdog'
      BY <1>0, <2>0 DEF TypeOK, Births, Booted, OneWatchdog
    <2>3. Booted'
      BY <1>0, <2>0 DEF TypeOK, Births, Names, OneSupervisor, OneWatchdog, Booted, Hunts
    <2>4. Hunts'
      BY <1>0, <2>0 DEF TypeOK, Births, Names, OneSupervisor, OneWatchdog, Booted, Hunts
    <2>5. Counts'
      BY <1>0, <2>0 DEF TypeOK, Births, Names, OneSupervisor, OneWatchdog, Booted, Hunts, Counts
    <2> QED BY <2>1, <2>2, <2>3, <2>4, <2>5 DEF Sound
  <1>5. ASSUME trouble' = "none" PROVE Watched'
    <2>0. OneSupervisor /\ OneWatchdog /\ Booted /\ Hunts /\ Watched
      BY <1>5, NoneIsFine DEF IInv, Sound
    <2> QED
      BY <1>0, <2>0 DEF TypeOK, Births, Names, Watched, OneSupervisor, OneWatchdog, Booted, Hunts
  <1> QED BY <1>1, <1>2, <1>3, <1>4, <1>5 DEF IInv

LEMMA InitIInv == ASSUME Init PROVE IInv
  <1> USE WatchdogAssumption DEF Init, Nobody, SupPCs, SupBoots, SupEnds, WdPCs, Sup, Wd,
          Alive, Active, Healthy
  <1>1. TypeOK
    <2>1. 0 \in 0..MaxProcs /\ 0 \in 0..MaxMisses /\ 0 \in 0..MaxStarts /\ 0 \in 0..MaxFaults
      OBVIOUS
    <2>2. pc \in [Procs -> SupPCs \cup WdPCs \cup {"unborn", "dead"}]
          /\ misses \in [Procs -> 0..MaxMisses]
      BY <2>1
    <2>3. trouble \in DOMAIN Rank
      BY DEF Rank
    <2> QED BY <2>1, <2>2, <2>3 DEF TypeOK
  <1>2. Births /\ Names /\ OneSupervisor /\ OneWatchdog
    BY DEF Births, Names, OneSupervisor, OneWatchdog
  <1>3. Booted /\ Hunts /\ Counts /\ Watched
    BY DEF Booted, Hunts, Counts, Watched
  <1> QED BY <1>1, <1>2, <1>3 DEF IInv, Sound

LEMMA StepIInv ==
  ASSUME IInv, [Next]_vars
  PROVE  IInv'
  <1>1. ASSUME NEW p \in Procs, SupStep(p) PROVE IInv'
    BY <1>1, ClearSentinelKeeps, WritePIDKeeps, StartWatchdogKeeps, UnlinkKeeps, ListenKeeps,
       BootFailsKeeps, DaemonsStoppedKeeps, SetSentinelKeeps, SignalWatchdogKeeps, LeaveKeeps
    DEF SupStep
  <1>2. ASSUME NEW w \in Procs, WdStep(w) PROVE IInv'
    BY <1>2, AnnounceKeeps, LookKeeps, TickKeeps, ProbeAnsweredKeeps, ProbeMissedKeeps,
       KillKeeps, SweepKeeps, RespawnKeeps, RetireKeeps
    DEF WdStep
  <1>3. ASSUME NEW p \in Procs, Wedge(p) \/ Crash(p) \/ WatchdogDies(p) PROVE IInv'
    BY <1>3, WedgeKeeps, CrashKeeps, WatchdogDiesKeeps
  <1>4. ASSUME NEW p \in Procs, NEW hard \in BOOLEAN, Quit(p, hard) PROVE IInv'
    BY <1>4, QuitKeeps
  <1>5. ASSUME NEW p \in Procs, Warns(p) PROVE IInv'
    <2>1. PICK at, next : <<at, next>> \in Failures /\ Fails(p, at, next)
      BY <1>5 DEF Warns, Failures
    <2> QED BY <2>1, FailsKeeps
  <1>6. CASE ClientStarts \/ Cleanup
    BY <1>6, ClientStartsKeeps, CleanupKeeps
  <1>7. CASE UNCHANGED vars
    BY <1>7 DEF IInv, TypeOK, Births, Names, Sound, OneSupervisor, OneWatchdog, Booted, Hunts,
       Counts, Watched, AtWorst, vars, files, client, Sup, Wd, Active, Healthy
  <1> QED BY <1>1, <1>2, <1>3, <1>4, <1>5, <1>6, <1>7 DEF Next

(* However many wedge, crash or fail at what: as long as no client starts  *)
(* a supervisor beside another or its watchdog (util.go:65), and none      *)
(* boots or leaves for longer than the watchdog has patience, there is one *)
(* at most; and the one that serves has a watchdog that goes on, until one *)
(* of the calls that only warn fails (commands.go:913, :924, :955).        *)
THEOREM SupervisorStaysGuarded == Spec => []OneGuardedSupervisor
  <1>1. Init => IInv
    BY InitIInv
  <1>2. IInv /\ [Next]_vars => IInv'
    BY StepIInv
  <1>3. IInv => OneGuardedSupervisor
    <2> SUFFICES ASSUME IInv PROVE OneGuardedSupervisor
      OBVIOUS
    <2>1. TypeOK /\ (AtWorst("unwatched") => OneSupervisor)
      BY DEF IInv, Sound
    <2>2. ASSUME trouble = "none" PROVE Guarded
      <3> SUFFICES ASSUME NEW p \in Procs, pc[p] = "run"
                   PROVE  supPid = p /\ \E w \in Procs : Wd(w) /\ pc[w] \notin {"retire", "respawn"}
        BY DEF Guarded
      <3>1. Sup(p)
        BY DEF Sup, SupPCs
      <3>2. supPid = p /\ \E w \in Procs : Active(w)
        BY <2>2 DEF IInv, Watched
      <3>3. \A w \in Procs : pc[w] # "respawn"
        BY <2>2, <3>1, NoneIsFine DEF IInv, Sound, Hunts
      <3> QED BY <3>2, <3>3 DEF Active, Wd
    <2> QED BY <2>1, <2>2 DEF OneGuardedSupervisor
  <1> QED BY <1>1, <1>2, <1>3, PTL DEF Spec

(* As long, the watchdog never undoes a stop, not even when the sentinel   *)
(* could not be written (supervisor.go:1005): what it respawns has not     *)
(* been told to end.                                                       *)
THEOREM StopsAreFinal == Spec => []StopIsFinal
  <1>1. Init => IInv
    BY InitIInv
  <1>2. IInv /\ [Next]_vars => IInv'
    BY StepIInv
  <1>3. IInv => StopIsFinal
    BY DEF IInv, Sound, Booted, StopIsFinal, Final
  <1> QED BY <1>1, <1>2, <1>3, PTL DEF Spec
====
