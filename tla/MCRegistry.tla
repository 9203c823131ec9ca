---- MODULE MCRegistry ----
(***************************************************************************)
(* Registry for TLC: goroutines are interchangeable.                       *)
(***************************************************************************)
EXTENDS Registry, TLC

Symmetry == Permutations(Goroutines)
====
