-------------------------- MODULE MCSchedulerLease ---------------------------
(* SchedulerLease for TLC: a task that takes its time, and a short one that *)
(* every pass comes to after it.                                            *)
EXTENDS SchedulerLease, TLC

CONSTANTS slow, quick

MCTasks == <<slow, quick>>
MCTimeout == (slow :> 3) @@ (quick :> 1)
MCInterval == (slow :> 1) @@ (quick :> 1)
MCBackoff == <<1, 2>>
=============================================================================
