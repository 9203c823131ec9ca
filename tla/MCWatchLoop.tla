---- MODULE MCWatchLoop ----
(***************************************************************************)
(* WatchLoop for TLC.                                                      *)
(***************************************************************************)
EXTENDS WatchLoop, TLC

CONSTANTS src,    \* a source file
          mod     \* go.mod

(* Two saves of a source file, so that one can land while the other is on  *)
(* its way, and one of go.mod.                                             *)
MCMaxVersion == src :> 2 @@ mod :> 1
====
