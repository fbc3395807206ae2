----------------------------- MODULE SessionWork -----------------------------
(***************************************************************************)
(* What the durable record of a session promises to those who send wake-   *)
(* ups for it and to those who execute it: the interface between           *)
(* SessionBroker and SessionExecution, which both implement it.            *)
(*                                                                         *)
(* Anybody may bring work and wake the session.  Only the Worker whose     *)
(* claim is the latest begins a run, ends it, or lets the session rest;    *)
(* and it does so when nothing is left.                                    *)
(***************************************************************************)
CONSTANTS Workers

VARIABLES
    owners,  \* the Worker of the current owner generation, if it still is
    running, \* the session expects to be executed
    pending, \* an input or command that no run has taken up
    active   \* an unfinished run

vars == <<owners, running, pending, active>>

Init ==
    /\ owners = {}
    /\ running = FALSE
    /\ pending = FALSE
    /\ active = FALSE

Admit ==
    /\ pending' = TRUE
    /\ running' = TRUE
    /\ UNCHANGED <<owners, active>>

(* A run that failed is tried again, in a session at rest.                 *)
Retry ==
    /\ ~running /\ ~pending
    /\ active' = TRUE
    /\ running' = TRUE
    /\ UNCHANGED <<owners, pending>>

Wake ==
    /\ running' = TRUE
    /\ UNCHANGED <<owners, pending, active>>

(* The user withdraws it, or it asks for no run.                           *)
Drop ==
    /\ pending' = FALSE
    /\ UNCHANGED <<owners, running, active>>

Claim(w) ==
    /\ owners' = {w}
    /\ UNCHANGED <<running, pending, active>>

(* The owner is fenced off, ends or dies.                                  *)
Leave ==
    /\ owners' = {}
    /\ UNCHANGED <<running, pending, active>>

Begin(w) ==
    /\ w \in owners
    /\ running
    /\ active' = TRUE
    /\ pending' \in {pending, FALSE}
    /\ UNCHANGED <<owners, running>>

Finish(w) ==
    /\ w \in owners
    /\ active
    /\ active' = FALSE
    /\ UNCHANGED <<owners, running, pending>>

Done == ~pending /\ ~active

Rest(w) ==
    /\ w \in owners
    /\ Done
    /\ running' = FALSE
    /\ owners' \in {owners, {}}
    /\ UNCHANGED <<pending, active>>

(* A completed run is continued instead.                                   *)
Continue(w) ==
    /\ w \in owners
    /\ Done
    /\ pending' = TRUE
    /\ running' = TRUE
    /\ owners' \in {owners, {}}
    /\ UNCHANGED active

Next ==
    \/ Admit \/ Retry \/ Wake \/ Drop \/ Leave
    \/ \E w \in Workers :
          Claim(w) \/ Begin(w) \/ Finish(w) \/ Rest(w) \/ Continue(w)

Spec == Init /\ [][Next]_vars

(* A session at rest has nothing left to do, and one Worker owns it at     *)
(* most: what both implementations inherit.                                *)
RestMeansDone ==
    /\ ~running => Done
    /\ \A v, w \in owners : v = w
=============================================================================
