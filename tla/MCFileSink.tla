---- MODULE MCFileSink ----
(* An instance of FileSink for TLC. *)
EXTENDS FileSink
====
