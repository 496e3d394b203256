---- MODULE MCExec ----
(* The instance of Exec for TLC. *)
EXTENDS Exec
====
