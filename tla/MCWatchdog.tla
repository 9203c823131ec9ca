---- MODULE MCWatchdog ----
(***************************************************************************)
(* Watchdog for TLC.                                                       *)
(***************************************************************************)
EXTENDS Watchdog

(* The run reaches the probe that is missed too late, and the supervisor a *)
(* client starts beside another, and goes no further: nothing is claimed   *)
(* of what comes then, of the liveness properties either.                  *)
Covered == AtWorst("unwatched")
====
