---- MODULE MCIngest ----
(***************************************************************************)
(* Ingest for TLC: its constants are small numbers and sets of model       *)
(* values, so the instance needs no definitions of its own.                *)
(***************************************************************************)
EXTENDS Ingest
====
