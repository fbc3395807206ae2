--------------------------- MODULE SchedulerLease ----------------------------
(* The Scheduler.  Several processes run the same registered maintenance    *)
(* tasks; a row per task says when it is due and who has leased it.  A pass *)
(* reads the clock once and then claims, runs and records one task after    *)
(* the other, so that its time grows old while its tasks run.               *)
(*                                                                          *)
(* Times are distances from now, in units of Tick, and saturate at MaxAge:  *)
(* next_run_at, lease_until and the deadline of a job in the future, the    *)
(* time of a pass in the past.  The unit is the poll interval; a database   *)
(* statement takes no time next to it, and timers are punctual: time passes *)
(* while the schedulers sleep or wait for jobs, and never over a deadline   *)
(* or the end of a grace period.                                            *)
EXTENDS Integers, Sequences

CONSTANTS
    Schedulers, \* scheduler processes
    Tasks,      \* get_task_definitions: the tasks in order
    Timeout,    \* timeout of every task
    Interval,   \* interval of every task
    Backoff,    \* delay after a failure, by the streak
    Margin,     \* what a lease outlasts the timeout (30 seconds)
    Grace,      \* cancellation grace of the Job Runtime (5 seconds)
    MaxAge,     \* saturation of times
    MaxStreak,  \* saturation of failure_streak
    MaxTroubles, \* bound on crashes, shutdowns, failed recordings and manual
                 \* triggers, all together
    None,       \* no lease
    Gone        \* the identity of a process that has ended

Keys == {Tasks[i] : i \in DOMAIN Tasks}

ASSUME SchedulerAssumption ==
    /\ Tasks \in Seq(Keys) /\ Len(Tasks) > 0
    /\ Timeout \in [Keys -> Nat \ {0}]
    /\ Interval \in [Keys -> Nat \ {0}]
    /\ Backoff \in [1..MaxStreak -> Nat \ {0}]
    /\ Grace \in Nat /\ Margin \in Nat /\ Grace < Margin
    /\ MaxAge \in Nat /\ Margin < MaxAge
    /\ MaxStreak \in Nat \ {0}
    /\ MaxTroubles \in Nat
    /\ None \notin Schedulers /\ Gone \notin Schedulers /\ None # Gone

VARIABLES
    row,       \* scheduled_task_states of every task
    pc,        \* what the loop of a scheduler does
    position,  \* the task its pass has come to
    age,       \* how long ago its pass read the clock (kept until the last
               \* claim of the pass)
    streak,    \* failure_streak as its claim returned it
    job,       \* its accepted job
    troubles   \* crashes, shutdowns, failed recordings and triggers so far

loop == <<pc, position, age, streak>>
vars == <<row, loop, job, troubles>>

Idle == [phase |-> "none", left |-> 0]
Live == {"running", "grace"}

Task(s) == Tasks[position[s]]
Goto(s, p) == pc' = [pc EXCEPT ![s] = p]

\* A distance into the future, one unit later.
Sooner(d) == IF d > -MaxAge THEN d - 1 ELSE d
Older(a) == IF a < MaxAge THEN a + 1 ELSE a
Longer(n) == IF n < MaxStreak THEN n + 1 ELSE n

\* A pass begins at p, or the loop sleeps until the next one.
Restart(s, p) ==
    /\ Goto(s, p)
    /\ position' = [position EXCEPT ![s] = 1]
    /\ age' = [age EXCEPT ![s] = 0]

\* The pass goes on with the next definition, or ends.
NextTask(s) ==
    /\ streak' = [streak EXCEPT ![s] = 0]
    /\ IF position[s] < Len(Tasks)
       THEN /\ Goto(s, "claim")
            /\ position' = [position EXCEPT ![s] = @ + 1]
            /\ UNCHANGED age
       ELSE Restart(s, "idle")

-----------------------------------------------------------------------------
\* The lease of another scheduler counts while it is held, not until it is
\* over (a mutant of Claimable).
ClaimableUnleased(s, t) ==
    /\ row[t].next + age[s] <= 0
    /\ row[t].owner = None

\* claim_due compares with the time of the pass.
Claimable(s, t) ==
    /\ row[t].next + age[s] <= 0
    /\ row[t].owner = None \/ row[t].lease + age[s] < 0

\* The timeout counts from the submission (a mutant of JobFor).
JobFromNow(s, t) == [phase |-> "queued", left |-> Timeout[t]]

\* The deadline counts from last_started_at, which is the time of the pass.
JobFor(s, t) == [phase |-> "queued", left |-> Timeout[t] - age[s]]

Claim(s) ==
    /\ pc[s] = "claim" /\ Claimable(s, Task(s))
    /\ row' = [row EXCEPT
           ![Task(s)].owner = s,
           ![Task(s)].lease = Timeout[Task(s)] + Margin - age[s]]
    /\ streak' = [streak EXCEPT ![s] = row[Task(s)].streak]
    /\ job' = [job EXCEPT ![s] = JobFor(s, Task(s))]
    /\ Goto(s, "wait")
    /\ UNCHANGED <<position, age, troubles>>

ClaimsNothing(s) ==
    /\ pc[s] = "claim" /\ ~Claimable(s, Task(s))
    /\ NextTask(s)
    /\ UNCHANGED <<row, job, troubles>>

-----------------------------------------------------------------------------
(* The Job Runtime of the process (see JobRuntime) runs the claimed task.   *)

\* The job is over; a scheduler that no longer waits does not hear of it.
Outcome(s, result) ==
    /\ job' = [job EXCEPT ![s] = Idle]
    /\ IF pc[s] = "wait" THEN Goto(s, result) ELSE UNCHANGED pc

Starts(s) ==
    /\ job[s].phase = "queued" /\ job[s].left > 0
    /\ job' = [job EXCEPT ![s].phase = "running"]
    /\ UNCHANGED <<row, loop, troubles>>

\* The deadline passed before the handler was called.
NeverStarts(s) ==
    /\ job[s].phase = "queued" /\ job[s].left <= 0
    /\ Outcome(s, "failed")
    /\ UNCHANGED <<row, position, age, streak, troubles>>

HandlerReturns(s) ==
    /\ job[s].phase = "running"
    /\ \E result \in {"succeeded", "failed"} : Outcome(s, result)
    /\ UNCHANGED <<row, position, age, streak, troubles>>

\* The scheduler is told at the deadline, while the handler is still in its
\* grace period (a mutant of Cutoff).
CutoffReports(s) ==
    /\ job[s].phase = "running" /\ job[s].left <= 0
    /\ job' = [job EXCEPT ![s].phase = "grace"]
    /\ IF pc[s] = "wait" THEN Goto(s, "failed") ELSE UNCHANGED pc
    /\ UNCHANGED <<row, position, age, streak, troubles>>

Cutoff(s) ==
    /\ job[s].phase = "running" /\ job[s].left <= 0
    /\ job' = [job EXCEPT ![s].phase = "grace"]
    /\ UNCHANGED <<row, loop, troubles>>

HandlerHeeds(s) ==
    /\ job[s].phase = "grace"
    /\ Outcome(s, "failed")
    /\ UNCHANGED <<row, position, age, streak, troubles>>

HandlerIgnores(s) ==
    /\ job[s].phase = "grace" /\ job[s].left <= -Grace
    /\ Outcome(s, "failed")
    /\ UNCHANGED <<row, position, age, streak, troubles>>

-----------------------------------------------------------------------------
\* Any result settles the row (a mutant of Settles).
SettlesAlways(s) == TRUE

\* Both settlements go by the task and the owner of its lease only.
Settles(s) == row[Task(s)].owner = s

\* latest_status is "running" as long as there is an owner.
Settled(n, next) ==
    [owner |-> None, lease |-> 0, streak |-> n, next |-> next]

RecordSuccess(s) ==
    /\ pc[s] = "succeeded"
    /\ \/ /\ Settles(s)
          /\ \E next \in {0, Interval[Task(s)]} :
                 row' = [row EXCEPT ![Task(s)] = Settled(0, next)]
       \/ ~Settles(s) /\ UNCHANGED row
    /\ NextTask(s)
    /\ UNCHANGED <<job, troubles>>

\* The delay goes by the streak that the claim returned, the row by its own.
RecordFailure(s) ==
    /\ pc[s] = "failed"
    /\ \/ /\ Settles(s)
          /\ row' = [row EXCEPT
                 ![Task(s)] = Settled(Longer(@.streak),
                                      Backoff[Longer(streak[s])])]
       \/ ~Settles(s) /\ UNCHANGED row
    /\ NextTask(s)
    /\ UNCHANGED <<job, troubles>>

Trouble ==
    /\ troubles < MaxTroubles
    /\ troubles' = troubles + 1

\* The recording raises: the lease is left to expire.
RecordingFails(s) ==
    /\ pc[s] \in {"succeeded", "failed"}
    /\ Trouble
    /\ NextTask(s)
    /\ UNCHANGED <<row, job>>

-----------------------------------------------------------------------------
Trigger(t) ==
    /\ Trouble
    /\ row' = [row EXCEPT ![t].next = 0]
    /\ UNCHANGED <<loop, job>>

\* The loop is cancelled; the job that it waited for goes on.
Shutdown(s) ==
    /\ pc[s] # "off"
    /\ Trouble
    /\ Goto(s, "off")
    /\ UNCHANGED <<row, position, age, streak, job>>

\* A process ends with all its handlers and starts again under another id.
Restarted(s) ==
    /\ row' = [t \in Keys |->
           IF row[t].owner = s THEN [row[t] EXCEPT !.owner = Gone] ELSE row[t]]
    /\ Restart(s, "claim")
    /\ streak' = [streak EXCEPT ![s] = 0]
    /\ job' = [job EXCEPT ![s] = Idle]

Crash(s) == Trouble /\ Restarted(s)

Exit(s) == pc[s] = "off" /\ Restarted(s) /\ UNCHANGED troubles

\* A loop that slept for the poll interval begins a pass.
Tick ==
    /\ \A s \in Schedulers :
           /\ pc[s] \in {"idle", "wait", "off"}
           /\ job[s].phase \in {"queued", "running"} => job[s].left > 0
           /\ job[s].phase = "grace" => job[s].left > -Grace
    /\ row' = [t \in Keys |-> [row[t] EXCEPT
           !.next = Sooner(@),
           !.lease = IF row[t].owner = None THEN 0 ELSE Sooner(@)]]
    /\ age' = [s \in Schedulers |->
           IF pc[s] = "wait" /\ position[s] < Len(Tasks)
           THEN Older(age[s]) ELSE age[s]]
    /\ job' = [s \in Schedulers |->
           IF job[s].phase = "none" THEN job[s]
           ELSE [job[s] EXCEPT !.left = Sooner(@)]]
    /\ pc' = [s \in Schedulers |->
           IF pc[s] = "idle" THEN "claim" ELSE pc[s]]
    /\ UNCHANGED <<position, streak, troubles>>

-----------------------------------------------------------------------------
Init ==
    /\ row = [t \in Keys |-> Settled(0, 0)]
    /\ pc = [s \in Schedulers |-> "claim"]
    /\ position = [s \in Schedulers |-> 1]
    /\ age = [s \in Schedulers |-> 0]
    /\ streak = [s \in Schedulers |-> 0]
    /\ job = [s \in Schedulers |-> Idle]
    /\ troubles = 0

JobStep(s) ==
    \/ Starts(s) \/ NeverStarts(s) \/ HandlerReturns(s)
    \/ Cutoff(s) \/ HandlerHeeds(s) \/ HandlerIgnores(s)

LoopStep(s) ==
    \/ Claim(s) \/ ClaimsNothing(s) \/ RecordSuccess(s) \/ RecordFailure(s)

Next ==
    \/ \E s \in Schedulers :
           \/ LoopStep(s) \/ JobStep(s)
           \/ RecordingFails(s) \/ Shutdown(s) \/ Crash(s) \/ Exit(s)
    \/ \E t \in Keys : Trigger(t)
    \/ Tick

\* The loop polls, jobs are bounded by their deadlines, time passes and a
\* process that was shut down is replaced.
Spec ==
    /\ Init /\ [][Next]_vars
    /\ \A s \in Schedulers :
           WF_vars(LoopStep(s)) /\ WF_vars(JobStep(s)) /\ WF_vars(Exit(s))
    /\ WF_vars(Tick)

-----------------------------------------------------------------------------
Rows == [owner : Schedulers \cup {None, Gone}, lease : Int,
         streak : 0..MaxStreak, next : Int]
Jobs == [phase : {"none", "queued"} \cup Live, left : Int]
Places == {"idle", "claim", "wait", "succeeded", "failed", "off"}

(* The types of the variables; and a scheduler that is not off waits for    *)
(* its job, grace period included, before it does anything else.            *)
TypeOK ==
    /\ row \in [Keys -> Rows]
    /\ pc \in [Schedulers -> Places]
    /\ position \in [Schedulers -> DOMAIN Tasks]
    /\ age \in [Schedulers -> 0..MaxAge]
    /\ streak \in [Schedulers -> 0..MaxStreak]
    /\ job \in [Schedulers -> Jobs]
    /\ troubles \in 0..MaxTroubles
    /\ \A s \in Schedulers : job[s].phase # "none" => pc[s] \in {"wait", "off"}

(* Two schedulers never run the same task at once, unless its handler       *)
(* ignored a cancellation: leases are granted and deadlines set by the time *)
(* of a pass, however old it is.                                            *)
OneAttempt ==
    \A s, u \in Schedulers :
        job[s].phase \in Live /\ job[u].phase \in Live /\ Task(s) = Task(u)
            => s = u

(* A failure is retried after the delay of its streak, although the delay   *)
(* is computed from the claim and the streak counted in the row.            *)
DelayFitsStreak ==
    [][\A t \in Keys :
          row'[t].streak > row[t].streak =>
              row'[t].next = Backoff[row'[t].streak]]_vars

(* Where the latest attempt at a task stands, if somebody's lease names it. *)
Attempt(t) ==
    LET owner == row[t].owner
        Owns(s) == owner = s /\ Task(s) = t
    IN  IF owner = None THEN "free"
        ELSE IF \E s \in Schedulers : Owns(s) /\ job[s].phase = "queued"
        THEN "claimed"
        ELSE IF \E s \in Schedulers : Task(s) = t /\ job[s].phase \in Live
        THEN "working"
        ELSE IF \E s \in Schedulers : Owns(s) /\ pc[s] = "succeeded"
        THEN "succeeded"
        ELSE IF \E s \in Schedulers : Owns(s) /\ pc[s] = "failed"
        THEN "failed"
        ELSE "lost"

(* Processes, leases and clocks aside, the tasks are those of TaskAttempts. *)
Attempts == INSTANCE TaskAttempts WITH
    Tasks <- Keys,
    phase <- [t \in Keys |-> Attempt(t)],
    wait <- [t \in Keys |-> row[t].next],
    streak <- [t \in Keys |-> row[t].streak]

AttemptsFollowOneAnother == Attempts!Spec

(* A claim is settled, whatever becomes of the scheduler that made it: a    *)
(* crash, a shutdown or a recording that fails leaves it to be taken over.  *)
ClaimIsSettled ==
    \A t \in Keys : row[t].owner # None ~> row[t].owner = None
=============================================================================
