---------------------------- MODULE MCScheduler ----------------------------
(***************************************************************************)
(* Two processes, a job that starts at once and one that is deferred.      *)
(***************************************************************************)
EXTENDS Scheduler

MCBudget == [overrun |-> 1, fault |-> 1, stop |-> 1, kill |-> 1]
MCOverrun == [overrun |-> 1, fault |-> 0, stop |-> 0, kill |-> 0]

=============================================================================
