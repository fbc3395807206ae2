----------------------------- MODULE TaskAttempts ----------------------------
(* What the Scheduler promises of a registered task, as if one process ran  *)
(* it: attempts follow one another, each when the task is due; the result   *)
(* of an attempt, and of no other, sets the next time; an attempt whose     *)
(* result is lost is followed by another.  SchedulerLease implements it     *)
(* with several processes, leases, and passes whose clock is old.           *)
EXTENDS Integers

CONSTANTS
    Tasks,
    Interval,  \* of a task
    Backoff,   \* delay after a failure, by the streak
    MaxAge,    \* saturation of times
    MaxStreak  \* saturation of streaks

VARIABLES
    phase,  \* of the latest attempt: "free" when it is settled, "claimed",
            \* "working", "succeeded", "failed", or "lost"
    wait,   \* time until the task is due
    streak  \* failures since the last success

vars == <<phase, wait, streak>>

Longer(n) == IF n < MaxStreak THEN n + 1 ELSE n

Becomes(t, p) == phase' = [phase EXCEPT ![t] = p]

Init ==
    /\ phase = [t \in Tasks |-> "free"]
    /\ wait = [t \in Tasks |-> 0]
    /\ streak = [t \in Tasks |-> 0]

(* An attempt that nobody works on any more may be taken over.              *)
Claim(t) ==
    /\ phase[t] # "working" /\ wait[t] <= 0
    /\ Becomes(t, "claimed")
    /\ UNCHANGED <<wait, streak>>

Start(t) ==
    /\ phase[t] = "claimed"
    /\ Becomes(t, "working")
    /\ UNCHANGED <<wait, streak>>

Return(t) ==
    /\ phase[t] = "working"
    /\ Becomes(t, "succeeded") \/ Becomes(t, "failed")
    /\ UNCHANGED <<wait, streak>>

\* Its deadline was over before it could start.
GiveUp(t) ==
    /\ phase[t] = "claimed"
    /\ Becomes(t, "failed")
    /\ UNCHANGED <<wait, streak>>

\* Who made the attempt dies, leaves, or cannot record it.
Lose(t) ==
    /\ phase[t] # "free"
    /\ Becomes(t, "lost")
    /\ UNCHANGED <<wait, streak>>

\* A task with more to do is due at once.
Succeed(t) ==
    /\ phase[t] = "succeeded"
    /\ Becomes(t, "free")
    /\ \E n \in {0, Interval[t]} : wait' = [wait EXCEPT ![t] = n]
    /\ streak' = [streak EXCEPT ![t] = 0]

Fail(t) ==
    /\ phase[t] = "failed"
    /\ Becomes(t, "free")
    /\ wait' = [wait EXCEPT ![t] = Backoff[Longer(streak[t])]]
    /\ streak' = [streak EXCEPT ![t] = Longer(streak[t])]

Trigger(t) ==
    /\ wait' = [wait EXCEPT ![t] = 0]
    /\ UNCHANGED <<phase, streak>>

Tick ==
    /\ wait' = [t \in Tasks |->
           IF wait[t] > -MaxAge THEN wait[t] - 1 ELSE wait[t]]
    /\ UNCHANGED <<phase, streak>>

Next ==
    \/ \E t \in Tasks :
           \/ Claim(t) \/ Start(t) \/ Return(t) \/ GiveUp(t) \/ Lose(t)
           \/ Succeed(t) \/ Fail(t) \/ Trigger(t)
    \/ Tick

Spec == Init /\ [][Next]_vars

(* A task is attempted when it is due, and not before: neither a claim that *)
(* is taken over nor a retry shortens a delay.                              *)
AttemptedWhenDue ==
    \A t \in Tasks : phase[t] # "free" => wait[t] <= 0
=============================================================================
