---- MODULE MCDaemon ----
(***************************************************************************)
(* Daemon for TLC: it adds up to four lines to the log of earlier ones.    *)
(***************************************************************************)
EXTENDS Daemon

MCInit == Init /\ written = MaxLines - 4
MCSpec == MCInit /\ [][Next]_vars /\ Fairness
====
