---- MODULE MCPollerSource ----
(***************************************************************************)
(* PollerSource for TLC: two files, one that is edited to a new stat, then *)
(* again with the same stat, and one that goes away and comes back.        *)
(***************************************************************************)
EXTENDS PollerSource, TLC

CONSTANTS a, b, s1, s2

MCMaxVersion == a :> 2 @@ b :> 2
MCStatOf == a :> (0 :> s1 @@ 1 :> s2 @@ 2 :> s2)
         @@ b :> (0 :> s1 @@ 1 :> Gone @@ 2 :> s1)
====
