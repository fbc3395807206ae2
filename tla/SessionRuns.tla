----------------------------- MODULE SessionRuns -----------------------------
(***************************************************************************)
(* What a session promises of its AgentRuns, whoever executes them: they   *)
(* form a sequence.  A run starts only when no other run is unfinished, a  *)
(* finished run stays finished, and the session rests only between runs.   *)
(* A completed run opens one continuation boundary, which is closed when   *)
(* the session consumes it or when the next run is activated.              *)
(***************************************************************************)
CONSTANTS Runs, NoRun

VARIABLES
    resting,   \* nothing is expected to happen
    active,    \* the unfinished run, if any
    finished,  \* the runs that have ended
    boundary   \* the completed run whose idle outcome is still open

vars == <<resting, active, finished, boundary>>

Init ==
    /\ resting = TRUE
    /\ active = NoRun
    /\ finished = {}
    /\ boundary = NoRun

Wake ==
    /\ resting' = FALSE
    /\ UNCHANGED <<active, finished, boundary>>

(* A run is created, by the executor or by the request that wakes it.      *)
Start(r) ==
    /\ active = NoRun
    /\ r \notin finished
    /\ active' = r
    /\ resting' = FALSE
    /\ UNCHANGED <<finished, boundary>>

(* The run begins to work; an older boundary did not remain idle.          *)
Activate ==
    /\ active # NoRun
    /\ boundary' = NoRun
    /\ UNCHANGED <<resting, active, finished>>

Finish(completed) ==
    /\ active # NoRun
    /\ finished' = finished \cup {active}
    /\ active' = NoRun
    /\ boundary' = IF completed THEN active ELSE boundary
    /\ UNCHANGED resting

Rest ==
    /\ active = NoRun
    /\ resting' = TRUE
    /\ UNCHANGED <<active, finished, boundary>>

(* The idle outcome of the completed run: continue, or rest.               *)
Consume ==
    /\ active = NoRun
    /\ boundary # NoRun
    /\ boundary' = NoRun
    /\ resting' \in BOOLEAN
    /\ UNCHANGED <<active, finished>>

Next ==
    \/ Wake \/ Activate \/ Rest \/ Consume
    \/ \E r \in Runs : Start(r)
    \/ \E c \in BOOLEAN : Finish(c)

Spec == Init /\ [][Next]_vars
=============================================================================
