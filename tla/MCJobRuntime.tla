---------------------------- MODULE MCJobRuntime -----------------------------
(* JobRuntime for TLC: two keys of a handler that reruns and has a limit of *)
(* its own, and two of a handler with neither.                              *)
EXTENDS JobRuntime, TLC

CONSTANTS a1, a2, b1, b2, ingress, scheduler

MCHandlerOf == (a1 :> ingress) @@ (a2 :> ingress) @@ (b1 :> scheduler) @@ (b2 :> scheduler)
MCSlotLimit == ingress :> 1
=============================================================================
