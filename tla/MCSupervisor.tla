---- MODULE MCSupervisor ----
(* Supervisor for TLC: its constants are small numbers and sets of model   *)
(* values.                                                                 *)
EXTENDS Supervisor
====
