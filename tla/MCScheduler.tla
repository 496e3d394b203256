---- MODULE MCScheduler ----
(* The instance of Scheduler for TLC. *)
EXTENDS Scheduler
====
