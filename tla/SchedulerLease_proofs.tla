------------------------ MODULE SchedulerLease_proofs ------------------------
(* Proofs about SchedulerLease.  A lease and the job that runs under it     *)
(* count down together, Margin apart, until the lease can be taken over; by *)
(* then the job is over.                                                    *)
EXTENDS SchedulerLease, TLAPS

\* The lease of a job outlasts it by Margin.
Leased(s) ==
    job[s].phase # "none" /\ job[s].left > -Margin =>
        /\ row[Task(s)].owner = s
        /\ row[Task(s)].lease = job[s].left + Margin

\* A handler runs to its deadline, or to the end of its grace period.
Punctual(s) ==
    /\ job[s].phase = "running" => job[s].left >= 0
    /\ job[s].phase = "grace" => job[s].left >= -Grace

\* As long as a scheduler owns the lease of its task it knows the streak.
Informed(s) ==
    pc[s] \in {"wait", "succeeded", "failed"} /\ row[Task(s)].owner = s =>
        row[Task(s)].streak = streak[s]

Kept(s) == Leased(s) /\ Punctual(s) /\ Informed(s)

IInv == TypeOK /\ \A s \in Schedulers : Kept(s)

-----------------------------------------------------------------------------
(* What the proofs use of the assumptions on the constants.                 *)
LEMMA Numbers ==
  /\ MaxStreak \in Nat /\ MaxStreak > 0 /\ MaxAge \in Nat /\ MaxTroubles \in Nat
  /\ Grace \in Nat /\ Margin \in Nat /\ Grace < Margin /\ Margin < MaxAge
  /\ Len(Tasks) \in Nat /\ Len(Tasks) > 0 /\ DOMAIN Tasks = 1..Len(Tasks)
  /\ \A t \in Keys : Timeout[t] \in Nat /\ Interval[t] \in Nat
  /\ \A n \in 1..MaxStreak : Backoff[n] \in Nat
  /\ None \notin Schedulers /\ Gone \notin Schedulers
BY SchedulerAssumption

(* A pass is always at one of the registered tasks.                         *)
LEMMA TaskIsKey ==
  ASSUME position \in [Schedulers -> DOMAIN Tasks], NEW s \in Schedulers
  PROVE  Task(s) \in Keys
BY DEF Task, Keys

(* Going on with the next task, or resting, keeps the types of the loop.    *)
LEMMA NextTaskTypes ==
  ASSUME TypeOK, NEW s \in Schedulers, NextTask(s)
  PROVE  /\ pc' \in [Schedulers -> Places]
         /\ position' \in [Schedulers -> DOMAIN Tasks]
         /\ age' \in [Schedulers -> 0..MaxAge]
         /\ streak' \in [Schedulers -> 0..MaxStreak]
         /\ \A u \in Schedulers : u # s =>
                /\ pc'[u] = pc[u] /\ position'[u] = position[u]
                /\ age'[u] = age[u] /\ streak'[u] = streak[u]
         /\ pc'[s] \in {"idle", "claim"}
<1>1. streak' \in [Schedulers -> 0..MaxStreak]
  BY Numbers DEF TypeOK, NextTask
<1>2. /\ position' \in [Schedulers -> DOMAIN Tasks]
      /\ age' \in [Schedulers -> 0..MaxAge]
  <2>1. CASE position[s] < Len(Tasks)
    <3>1. position[s] \in 1..Len(Tasks)
      BY Numbers DEF TypeOK
    <3>2. position[s] + 1 \in DOMAIN Tasks
      BY <2>1, <3>1, Numbers
    <3> QED
      BY <2>1, <3>2 DEF TypeOK, NextTask
  <2>2. CASE ~(position[s] < Len(Tasks))
    <3>1. 1 \in DOMAIN Tasks /\ 0 \in 0..MaxAge
      BY Numbers
    <3> QED
      BY <2>2, <3>1 DEF TypeOK, NextTask, Restart
  <2> QED
    BY <2>1, <2>2
<1>3. pc' \in [Schedulers -> Places] /\ pc'[s] \in {"idle", "claim"}
  BY DEF TypeOK, NextTask, Restart, Goto, Places
<1>4. \A u \in Schedulers : u # s =>
          /\ pc'[u] = pc[u] /\ position'[u] = position[u]
          /\ age'[u] = age[u] /\ streak'[u] = streak[u]
  BY DEF TypeOK, NextTask, Restart, Goto
<1> QED
  BY <1>1, <1>2, <1>3, <1>4

(* Settling a row gives a row.                                              *)
LEMMA SettledIsRow ==
  ASSUME NEW n \in 0..MaxStreak, NEW next \in Int
  PROVE  Settled(n, next) \in Rows
BY DEF Settled, Rows

(* A failure more is counted up to MaxStreak.                               *)
LEMMA LongerStreak ==
  ASSUME NEW n \in 0..MaxStreak
  PROVE  Longer(n) \in 0..MaxStreak /\ Backoff[Longer(n)] \in Int
BY Numbers DEF Longer

(* A unit of time keeps times integers.                                     *)
LEMMA SoonerTypes ==
  /\ \A d \in Int : Sooner(d) \in Int
  /\ \A a \in 0..MaxAge : Older(a) \in 0..MaxAge
BY Numbers DEF Sooner, Older

-----------------------------------------------------------------------------
(* The steps of a loop keep the types of the variables.                     *)
LEMMA LoopTypes ==
  ASSUME TypeOK, NEW s \in Schedulers, LoopStep(s) \/ RecordingFails(s)
  PROVE  TypeOK'
<1>0. /\ Task(s) \in Keys /\ row[Task(s)] \in Rows
      /\ streak[s] \in 0..MaxStreak /\ age[s] \in 0..MaxAge
      /\ row[Task(s)].streak \in 0..MaxStreak /\ row[Task(s)].next \in Int
  BY TaskIsKey DEF TypeOK, Rows
<1>1. CASE Claim(s)
  <2>1. JobFor(s, Task(s)) \in Jobs
    BY <1>0, Numbers DEF JobFor, Jobs
  <2>2. Timeout[Task(s)] + Margin - age[s] \in Int
    BY <1>0, Numbers
  <2>3. [row[Task(s)] EXCEPT
            !.owner = s, !.lease = Timeout[Task(s)] + Margin - age[s]] \in Rows
    BY <1>0, <2>2 DEF Rows
  <2>4. row' = [row EXCEPT ![Task(s)] = [@ EXCEPT
            !.owner = s, !.lease = Timeout[Task(s)] + Margin - age[s]]]
    BY <1>1 DEF Claim
  <2>5. row' \in [Keys -> Rows]
    BY <1>0, <2>3, <2>4 DEF TypeOK
  <2>6. /\ job' \in [Schedulers -> Jobs]
        /\ \A u \in Schedulers : job'[u].phase # "none" => pc'[u] \in {"wait", "off"}
    BY <1>1, <2>1 DEF TypeOK, Claim, Goto
  <2> QED
    BY <1>0, <1>1, <2>5, <2>6 DEF TypeOK, Claim, Goto, Places
<1>2. CASE ClaimsNothing(s)
  BY <1>2, NextTaskTypes DEF TypeOK, ClaimsNothing
<1>3. CASE RecordSuccess(s)
  <2>1. ASSUME NEW next \in {0, Interval[Task(s)]}
        PROVE  Settled(0, next) \in Rows
    BY <1>0, Numbers, SettledIsRow
  <2>2. row' \in [Keys -> Rows]
    BY <1>0, <1>3, <2>1 DEF TypeOK, RecordSuccess
  <2> QED
    BY <1>3, <2>2, NextTaskTypes DEF TypeOK, RecordSuccess
<1>4. CASE RecordFailure(s)
  <2>1. Settled(Longer(row[Task(s)].streak), Backoff[Longer(streak[s])]) \in Rows
    BY <1>0, LongerStreak, SettledIsRow
  <2>2. row' \in [Keys -> Rows]
    BY <1>0, <1>4, <2>1 DEF TypeOK, RecordFailure
  <2> QED
    BY <1>4, <2>2, NextTaskTypes DEF TypeOK, RecordFailure
<1>5. CASE RecordingFails(s)
  <2>1. troubles' \in 0..MaxTroubles
    BY <1>5, Numbers DEF TypeOK, RecordingFails, Trouble
  <2> QED
    BY <1>5, <2>1, NextTaskTypes DEF TypeOK, RecordingFails
<1> QED
  BY <1>1, <1>2, <1>3, <1>4, <1>5 DEF LoopStep

(* Every step keeps the types of the variables.                             *)
LEMMA TypesKept == TypeOK /\ [Next]_vars => TypeOK'
<1> SUFFICES ASSUME TypeOK, [Next]_vars PROVE TypeOK'
  OBVIOUS
<1>2. ASSUME NEW s \in Schedulers, JobStep(s) PROVE TypeOK'
  <2>0. /\ Idle \in Jobs
        /\ \A p \in Live : [job[s] EXCEPT !.phase = p] \in Jobs
    BY DEF TypeOK, Jobs, Live, Idle
  <2>1. job' \in [Schedulers -> Jobs]
    BY <1>2, <2>0 DEF TypeOK, JobStep, Starts, NeverStarts, HandlerReturns,
                      Cutoff, HandlerHeeds, HandlerIgnores, Outcome, Live
  <2>2. pc' \in [Schedulers -> Places]
    BY <1>2 DEF TypeOK, JobStep, Starts, NeverStarts, HandlerReturns, Cutoff,
                HandlerHeeds, HandlerIgnores, Outcome, Goto, Places, loop
  <2>3. \A u \in Schedulers : job'[u].phase # "none" => pc'[u] \in {"wait", "off"}
    BY <1>2 DEF TypeOK, JobStep, Starts, NeverStarts, HandlerReturns, Cutoff,
                HandlerHeeds, HandlerIgnores, Outcome, Goto, Places, loop,
                Jobs, Live, Idle
  <2> QED
    BY <1>2, <2>1, <2>2, <2>3
    DEF TypeOK, JobStep, Starts, NeverStarts, HandlerReturns, Cutoff,
        HandlerHeeds, HandlerIgnores, loop
<1>3. ASSUME NEW s \in Schedulers, Shutdown(s) PROVE TypeOK'
  BY <1>3, Numbers DEF TypeOK, Shutdown, Trouble, Goto, Places
<1>4. ASSUME NEW s \in Schedulers, Restarted(s),
             UNCHANGED troubles \/ Trouble
      PROVE  TypeOK'
  <2>1. 1 \in DOMAIN Tasks /\ 0 \in 0..MaxAge /\ 0 \in 0..MaxStreak
    BY Numbers
  <2>2. \A r \in Rows : [r EXCEPT !.owner = Gone] \in Rows
    BY DEF Rows
  <2>3. row' \in [Keys -> Rows]
    BY <1>4, <2>2 DEF TypeOK, Restarted
  <2>4. job' \in [Schedulers -> Jobs]
    BY <1>4 DEF TypeOK, Restarted, Idle, Jobs
  <2>5. \A u \in Schedulers : job'[u].phase # "none" => pc'[u] \in {"wait", "off"}
    BY <1>4 DEF TypeOK, Restarted, Restart, Goto, Idle
  <2>6. troubles' \in 0..MaxTroubles
    BY <1>4, Numbers DEF TypeOK, Trouble
  <2>7. pc' \in [Schedulers -> Places]
    BY <1>4 DEF TypeOK, Restarted, Restart, Goto, Places
  <2> QED
    BY <1>4, <2>1, <2>3, <2>4, <2>5, <2>6, <2>7 DEF TypeOK, Restarted, Restart
<1>5. ASSUME NEW t \in Keys, Trigger(t) PROVE TypeOK'
  <2>1. [row[t] EXCEPT !.next = 0] \in Rows
    BY DEF TypeOK, Rows
  <2>2. row' \in [Keys -> Rows]
    BY <1>5, <2>1 DEF TypeOK, Trigger
  <2> QED
    BY <1>5, <2>2, Numbers DEF TypeOK, Trigger, Trouble, loop
<1>6. CASE Tick
  <2>1. \A t \in Keys :
            [row[t] EXCEPT
                !.next = Sooner(@),
                !.lease = IF row[t].owner = None THEN 0 ELSE Sooner(@)] \in Rows
    <3> SUFFICES ASSUME NEW t \in Keys
        PROVE  [row[t] EXCEPT
                   !.next = Sooner(@),
                   !.lease = IF row[t].owner = None THEN 0 ELSE Sooner(@)]
               \in Rows
      OBVIOUS
    <3>1. /\ row[t] \in Rows
          /\ Sooner(row[t].next) \in Int /\ Sooner(row[t].lease) \in Int
      BY SoonerTypes DEF TypeOK, Rows
    <3>2. \A r \in Rows, next, lease \in Int :
              [r EXCEPT !.next = next, !.lease = lease] \in Rows
      BY DEF Rows
    <3> DEFINE lease == IF row[t].owner = None THEN 0 ELSE Sooner(row[t].lease)
    <3>3. lease \in Int
      BY <3>1
    <3> HIDE DEF lease
    <3>4. [row[t] EXCEPT !.next = Sooner(@), !.lease = lease] \in Rows
      BY <3>1, <3>2, <3>3
    <3> QED
      BY <3>4 DEF lease
  <2>2. row' \in [Keys -> Rows]
    BY <1>6, <2>1 DEF Tick
  <2>3. \A s \in Schedulers : [job[s] EXCEPT !.left = Sooner(@)] \in Jobs
    BY SoonerTypes DEF TypeOK, Jobs
  <2>4. job' \in [Schedulers -> Jobs]
    BY <1>6, <2>3 DEF Tick, TypeOK
  <2>5. age' \in [Schedulers -> 0..MaxAge]
    BY <1>6, SoonerTypes DEF Tick, TypeOK
  <2>6. \A s \in Schedulers : job'[s].phase = job[s].phase
    BY <1>6 DEF TypeOK, Tick, Jobs
  <2>7. /\ pc' \in [Schedulers -> Places]
        /\ \A s \in Schedulers : pc[s] \in {"wait", "off"} => pc'[s] = pc[s]
    BY <1>6 DEF TypeOK, Tick, Places
  <2> QED
    BY <1>6, <2>2, <2>4, <2>5, <2>6, <2>7 DEF TypeOK, Tick
<1>7. CASE UNCHANGED vars
  BY <1>7 DEF TypeOK, vars, loop
<1> QED
  BY <1>2, <1>3, <1>4, <1>5, <1>6, <1>7, LoopTypes DEF Next, Crash, Exit

-----------------------------------------------------------------------------
(* Kept(u) speaks of the loop and the job of u and of the row of its task.  *)
LEMMA Frame ==
  ASSUME NEW u \in Schedulers, Kept(u),
         position'[u] = position[u], pc'[u] = pc[u], streak'[u] = streak[u],
         job'[u] = job[u],
         row'[Task(u)].owner = row[Task(u)].owner,
         row'[Task(u)].lease = row[Task(u)].lease,
         row'[Task(u)].streak = row[Task(u)].streak
  PROVE  Kept(u)'
BY DEF Kept, Leased, Punctual, Informed, Task

(* A claim takes a lease over from no job that it still covers.             *)
LEMMA ClaimKeeps ==
  ASSUME IInv, NEW s \in Schedulers, NEW u \in Schedulers, Claim(s)
  PROVE  Kept(u)'
<1>0. /\ TypeOK /\ Kept(u)
      /\ Task(s) \in Keys /\ Task(u) \in Keys
      /\ row \in [Keys -> Rows] /\ job \in [Schedulers -> Jobs]
  BY TaskIsKey DEF IInv, TypeOK
<1>1. Task(u)' = Task(u) /\ Task(s)' = Task(s)
  BY DEF Claim, Task
<1>2. CASE u = s
  <2>1. /\ job'[s] = JobFor(s, Task(s))
        /\ row'[Task(s)].owner = s
        /\ row'[Task(s)].lease = Timeout[Task(s)] + Margin - age[s]
        /\ row'[Task(s)].streak = row[Task(s)].streak
        /\ streak'[s] = row[Task(s)].streak
    BY <1>0 DEF Claim, TypeOK, Rows
  <2>2. Timeout[Task(s)] \in Nat /\ Margin \in Nat /\ age[s] \in Nat
    BY <1>0, Numbers DEF TypeOK
  <2> QED
    BY <1>1, <1>2, <2>1, <2>2
    DEF Kept, Leased, Punctual, Informed, JobFor
<1>3. CASE u # s /\ Task(u) # Task(s)
  BY <1>0, <1>3, Frame DEF Claim, TypeOK, Goto
<1>4. CASE u # s /\ Task(u) = Task(s)
  <2>1. /\ job'[u] = job[u] /\ pc'[u] = pc[u] /\ streak'[u] = streak[u]
        /\ row'[Task(u)].owner = s
    BY <1>0, <1>4 DEF Claim, TypeOK, Goto
  <2>2. Informed(u)'
    BY <1>1, <1>4, <2>1 DEF Informed
  <2>3. Leased(u)'
    <3>1. row[Task(u)].owner = None \/ row[Task(u)].lease + age[s] < 0
      BY <1>4 DEF Claim, Claimable
    <3>2. /\ age[s] \in Nat /\ row[Task(u)].lease \in Int /\ job[u].left \in Int
          /\ None # u /\ Margin \in Nat
      BY <1>0, Numbers DEF TypeOK, Rows, Jobs
    <3>3. ~(job[u].phase # "none" /\ job[u].left > -Margin)
      BY <1>0, <3>1, <3>2 DEF Kept, Leased
    <3> QED
      BY <2>1, <3>3 DEF Leased
  <2> QED
    BY <1>0, <2>1, <2>2, <2>3 DEF Kept, Punctual
<1> QED
  BY <1>2, <1>3, <1>4

(* A settlement ends no lease but that of the job that is over.             *)
LEMMA SettlementKeeps ==
  ASSUME IInv, NEW s \in Schedulers, NEW u \in Schedulers,
         NextTask(s), UNCHANGED job,
         pc[s] \in {"claim", "succeeded", "failed"},
         \/ UNCHANGED row
         \/ /\ Settles(s)
            /\ \E n, next \in Int :
                   row' = [row EXCEPT ![Task(s)] = Settled(n, next)]
  PROVE  Kept(u)'
<1>0. /\ TypeOK /\ Kept(u) /\ Kept(s)
      /\ Task(s) \in Keys /\ Task(u) \in Keys
      /\ row \in [Keys -> Rows]
  BY TaskIsKey DEF IInv, TypeOK
<1>1. CASE u = s
  <2>1. job'[s].phase = "none"
    BY DEF IInv, TypeOK
  <2>2. pc'[s] \notin {"wait", "succeeded", "failed"}
    BY <1>0, NextTaskTypes
  <2> QED
    BY <1>1, <2>1, <2>2 DEF Kept, Leased, Punctual, Informed
<1>2. CASE u # s
  <2>0. /\ position'[u] = position[u] /\ pc'[u] = pc[u]
        /\ streak'[u] = streak[u] /\ job'[u] = job[u]
    BY <1>0, <1>2, NextTaskTypes
  <2>1. CASE UNCHANGED row
    BY <1>0, <2>0, <2>1, Frame
  <2>2. ASSUME Settles(s), NEW n \in Int, NEW next \in Int,
               row' = [row EXCEPT ![Task(s)] = Settled(n, next)]
        PROVE  Kept(u)'
    <3>1. CASE Task(u) # Task(s)
      BY <1>0, <2>0, <2>2, <3>1, Frame
    <3>2. CASE Task(u) = Task(s)
      <4>1. Task(u)' = Task(u) /\ row'[Task(u)].owner = None /\ None # u
        BY <1>0, <2>0, <2>2, <3>2, Numbers DEF Settled, Task
      <4>2. row[Task(u)].owner # u
        BY <1>2, <2>2, <3>2 DEF Settles
      <4> QED
        BY <1>0, <2>0, <4>1, <4>2 DEF Kept, Leased, Punctual, Informed
    <3> QED
      BY <3>1, <3>2
  <2> QED
    BY <2>1, <2>2
<1> QED
  BY <1>1, <1>2

(* The steps of a loop keep what the leases and the streaks say.            *)
LEMMA LoopKeeps ==
  ASSUME IInv, NEW s \in Schedulers, NEW u \in Schedulers,
         LoopStep(s) \/ RecordingFails(s)
  PROVE  Kept(u)'
<1>0. /\ Task(s) \in Keys /\ row[Task(s)].streak \in 0..MaxStreak
      /\ streak[s] \in 0..MaxStreak
  BY TaskIsKey DEF IInv, TypeOK, Rows
<1>1. CASE Claim(s)
  BY <1>1, ClaimKeeps
<1>2. CASE ClaimsNothing(s)
  BY <1>2, SettlementKeeps DEF ClaimsNothing
<1>3. CASE RecordSuccess(s)
  <2>1. 0 \in Int /\ Interval[Task(s)] \in Int
    BY <1>0, Numbers
  <2> QED
    BY <1>3, <2>1, SettlementKeeps DEF RecordSuccess
<1>4. CASE RecordFailure(s)
  <2>1. /\ Longer(row[Task(s)].streak) \in Int
        /\ Backoff[Longer(streak[s])] \in Int
    BY <1>0, LongerStreak
  <2> QED
    BY <1>4, <2>1, SettlementKeeps DEF RecordFailure
<1>5. CASE RecordingFails(s)
  BY <1>5, SettlementKeeps DEF RecordingFails
<1> QED
  BY <1>1, <1>2, <1>3, <1>4, <1>5 DEF LoopStep

(* A job starts in time, and its handler is stopped in time.                *)
LEMMA JobKeeps ==
  ASSUME IInv, NEW s \in Schedulers, NEW u \in Schedulers, JobStep(s)
  PROVE  Kept(u)'
<1>0. TypeOK /\ Kept(u) /\ job[s] \in Jobs /\ Grace \in Nat
  BY Numbers DEF IInv, TypeOK
<1>1. UNCHANGED <<row, position, streak>>
  BY DEF JobStep, Starts, NeverStarts, HandlerReturns, Cutoff, HandlerHeeds,
         HandlerIgnores, loop
<1>2. CASE u # s
  <2>1. job'[u] = job[u] /\ pc'[u] = pc[u]
    BY <1>0, <1>2 DEF TypeOK, JobStep, Starts, NeverStarts, HandlerReturns,
                      Cutoff, HandlerHeeds, HandlerIgnores, Outcome, Goto, loop
  <2> QED
    BY <1>0, <1>1, <2>1, Frame
<1>3. CASE u = s
  <2>1. CASE Starts(s) \/ Cutoff(s)
    <3>1. /\ job'[s].left = job[s].left
          /\ \/ job'[s].phase = "running" /\ job[s].left > 0
             \/ job'[s].phase = "grace" /\ job[s].phase = "running"
          /\ job[s].phase # "none" /\ pc' = pc
      BY <1>0, <2>1 DEF TypeOK, Starts, Cutoff, loop, Jobs
    <3> QED
      BY <1>0, <1>1, <1>3, <3>1
      DEF Kept, Leased, Punctual, Informed, Task, Jobs
  <2>2. CASE NeverStarts(s) \/ HandlerReturns(s) \/ HandlerHeeds(s)
             \/ HandlerIgnores(s)
    <3>1. /\ job'[s].phase = "none"
          /\ \/ pc'[s] = pc[s]
             \/ pc[s] = "wait" /\ pc'[s] \in {"succeeded", "failed"}
      BY <1>0, <2>2 DEF TypeOK, NeverStarts, HandlerReturns, HandlerHeeds,
                        HandlerIgnores, Outcome, Goto, Idle
    <3> QED
      BY <1>0, <1>1, <1>3, <3>1 DEF Kept, Leased, Punctual, Informed, Task
  <2> QED
    BY <2>1, <2>2 DEF JobStep
<1> QED
  BY <1>2, <1>3

(* A process that ends takes its job along, and its leases keep their time. *)
LEMMA RestartKeeps ==
  ASSUME IInv, NEW s \in Schedulers, NEW u \in Schedulers, Restarted(s)
  PROVE  Kept(u)'
<1>0. /\ TypeOK /\ Kept(u) /\ Task(u) \in Keys
      /\ row \in [Keys -> Rows]
  BY TaskIsKey DEF IInv, TypeOK
<1>1. CASE u = s
  BY <1>0, <1>1 DEF TypeOK, Restarted, Restart, Goto, Idle, Kept, Leased,
                    Punctual, Informed
<1>2. CASE u # s
  <2>1. /\ position'[u] = position[u] /\ pc'[u] = pc[u]
        /\ streak'[u] = streak[u] /\ job'[u] = job[u] /\ Task(u)' = Task(u)
    BY <1>0, <1>2 DEF TypeOK, Restarted, Restart, Goto, Task
  <2>2. CASE row[Task(u)].owner # s
    BY <1>0, <2>1, <2>2, Frame DEF Restarted
  <2>3. CASE row[Task(u)].owner = s
    <3>1. row'[Task(u)].owner = Gone /\ Gone # u
      BY <1>0, <2>3, Numbers DEF Restarted, Rows
    <3> QED
      BY <1>0, <1>2, <2>1, <2>3, <3>1 DEF Kept, Leased, Punctual, Informed
  <2> QED
    BY <2>2, <2>3
<1> QED
  BY <1>1, <1>2

(* A unit of time shortens a job and its lease alike.                       *)
LEMMA TickKeeps ==
  ASSUME IInv, NEW u \in Schedulers, Tick
  PROVE  Kept(u)'
<1>0. /\ TypeOK /\ Kept(u) /\ Task(u) \in Keys /\ Task(u)' = Task(u)
      /\ row[Task(u)] \in Rows /\ job[u] \in Jobs
  BY TaskIsKey DEF IInv, TypeOK, Tick, Task
<1>1. /\ row'[Task(u)].owner = row[Task(u)].owner
      /\ row'[Task(u)].streak = row[Task(u)].streak
      /\ row[Task(u)].owner # None =>
             row'[Task(u)].lease = Sooner(row[Task(u)].lease)
  BY <1>0 DEF Tick, Rows, TypeOK
<1>2. /\ job'[u].phase = job[u].phase
      /\ job[u].phase # "none" => job'[u].left = Sooner(job[u].left)
  BY <1>0 DEF Tick, Jobs, TypeOK
<1>3. /\ streak'[u] = streak[u]
      /\ pc'[u] \in {"wait", "succeeded", "failed"} => pc'[u] = pc[u]
  BY <1>0 DEF Tick, TypeOK
<1>4. Punctual(u)'
  <2>1. job[u].left \in Int /\ Grace \in Nat /\ MaxAge \in Nat /\ Grace < MaxAge
    BY <1>0, Numbers DEF Jobs
  <2>2. /\ job[u].phase = "running" => job[u].left > 0
        /\ job[u].phase = "grace" => job[u].left > -Grace
    BY DEF Tick
  <2> QED
    BY <1>2, <2>1, <2>2 DEF Punctual, Sooner
<1>5. Leased(u)'
  <2>1. SUFFICES ASSUME job'[u].phase # "none", job'[u].left > -Margin
                 PROVE  /\ row'[Task(u)].owner = u
                        /\ row'[Task(u)].lease = job'[u].left + Margin
    BY <1>0 DEF Leased
  <2>2. /\ job[u].left \in Int /\ row[Task(u)].lease \in Int
        /\ Margin \in Nat /\ MaxAge \in Nat /\ Margin < MaxAge /\ None # u
    BY <1>0, Numbers DEF Jobs, Rows
  <2>3. job[u].phase # "none" /\ job[u].left - 1 > -Margin
        /\ job'[u].left = job[u].left - 1
    BY <1>2, <2>1, <2>2 DEF Sooner
  <2>4. row[Task(u)].owner = u /\ row[Task(u)].lease = job[u].left + Margin
    BY <1>0, <2>2, <2>3 DEF Kept, Leased
  <2>5. row'[Task(u)].lease = row[Task(u)].lease - 1
    BY <1>1, <2>2, <2>3, <2>4 DEF Sooner
  <2> QED
    BY <1>1, <2>2, <2>3, <2>4, <2>5
<1>6. Informed(u)'
  BY <1>0, <1>1, <1>3 DEF Kept, Informed
<1> QED
  BY <1>4, <1>5, <1>6 DEF Kept

-----------------------------------------------------------------------------
(* The invariant the theorems rest on.                                      *)
THEOREM Invariance == Spec => []IInv
<1>1. Init => IInv
  <2> SUFFICES ASSUME Init PROVE IInv
    OBVIOUS
  <2>1. Settled(0, 0) \in Rows /\ Idle \in Jobs /\ Idle.phase = "none"
    BY Numbers, SettledIsRow DEF Idle, Jobs
  <2>2. TypeOK
    BY <2>1, Numbers DEF Init, TypeOK, Places
  <2>3. \A s \in Schedulers : Kept(s)
    BY <2>1, Numbers DEF Init, Kept, Leased, Punctual, Informed
  <2> QED
    BY <2>2, <2>3 DEF IInv
<1>2. IInv /\ [Next]_vars => IInv'
  <2> SUFFICES ASSUME IInv, [Next]_vars PROVE IInv'
    OBVIOUS
  <2>1. TypeOK'
    BY TypesKept DEF IInv
  <2>2. ASSUME NEW u \in Schedulers PROVE Kept(u)'
    <3>0. Kept(u) /\ Task(u) \in Keys /\ TypeOK
      BY TaskIsKey DEF IInv, TypeOK
    <3>1. ASSUME NEW s \in Schedulers, LoopStep(s) \/ RecordingFails(s)
          PROVE  Kept(u)'
      BY <3>1, LoopKeeps
    <3>2. ASSUME NEW s \in Schedulers, JobStep(s) PROVE Kept(u)'
      BY <3>2, JobKeeps
    <3>3. ASSUME NEW s \in Schedulers, Shutdown(s) PROVE Kept(u)'
      BY <3>0, <3>3 DEF TypeOK, Shutdown, Goto, Kept, Leased, Punctual,
                        Informed, Task
    <3>4. ASSUME NEW s \in Schedulers, Crash(s) \/ Exit(s) PROVE Kept(u)'
      BY <3>4, RestartKeeps DEF Crash, Exit
    <3>5. ASSUME NEW t \in Keys, Trigger(t) PROVE Kept(u)'
      BY <3>0, <3>5, Frame DEF TypeOK, Rows, Trigger, loop
    <3>6. CASE Tick
      BY <3>6, TickKeeps
    <3>7. CASE UNCHANGED vars
      BY <3>0, <3>7, Frame DEF vars, loop
    <3> QED
      BY <3>1, <3>2, <3>3, <3>4, <3>5, <3>6, <3>7 DEF Next
  <2> QED
    BY <2>1, <2>2 DEF IInv
<1> QED
  BY <1>1, <1>2, PTL DEF Spec

(* The variables keep their types, and a scheduler waits for its job.       *)
THEOREM TypeCorrect == Spec => []TypeOK
<1>1. IInv => TypeOK
  BY DEF IInv
<1> QED
  BY <1>1, Invariance, PTL

(* Two schedulers never run one task at once, whatever the timeouts, the    *)
(* number of tasks and the age of the pass that claimed.                    *)
THEOREM OneAttemptAlways == Spec => []OneAttempt
<1>1. IInv => OneAttempt
  <2> SUFFICES ASSUME IInv, NEW s \in Schedulers, NEW u \in Schedulers,
                      job[s].phase \in Live, job[u].phase \in Live,
                      Task(s) = Task(u)
               PROVE  s = u
    BY DEF OneAttempt
  <2>1. ASSUME NEW v \in Schedulers, job[v].phase \in Live
        PROVE  row[Task(v)].owner = v
    <3>1. job[v].left \in Int /\ Grace \in Nat /\ Margin \in Nat /\ Grace < Margin
      BY Numbers DEF IInv, TypeOK, Jobs
    <3>2. job[v].left > -Margin /\ job[v].phase # "none"
      BY <2>1, <3>1 DEF IInv, Kept, Punctual, Live
    <3> QED
      BY <3>2 DEF IInv, Kept, Leased
  <2> QED
    BY <2>1
<1> QED
  BY <1>1, Invariance, PTL

(* The delay before a retry fits the streak that the row counts.            *)
THEOREM DelayAlwaysFits == Spec => DelayFitsStreak
<1>1. IInv /\ [Next]_vars =>
          [\A t \in Keys : row'[t].streak > row[t].streak =>
               row'[t].next = Backoff[row'[t].streak]]_vars
  <2> SUFFICES ASSUME IInv, Next, NEW t \in Keys,
                      row'[t].streak > row[t].streak
               PROVE  row'[t].next = Backoff[row'[t].streak]
    OBVIOUS
  <2>0. /\ TypeOK /\ row \in [Keys -> Rows] /\ row[t].streak \in Nat
    <3>1. TypeOK
      BY DEF IInv
    <3>2. row \in [Keys -> Rows]
      BY <3>1 DEF TypeOK
    <3>3. row[t] \in Rows
      BY <3>2
    <3>4. row[t].streak \in 0..MaxStreak
      BY <3>3 DEF Rows
    <3>5. row[t].streak \in Nat
      BY <3>4, Numbers
    <3> QED
      BY <3>1, <3>2, <3>5
  <2>1. ASSUME NEW s \in Schedulers, RecordFailure(s)
        PROVE  row'[t].next = Backoff[row'[t].streak]
    <3>1. Kept(s) /\ Task(s) \in Keys
      BY <2>0, TaskIsKey DEF IInv, TypeOK
    <3>2. /\ Settles(s) /\ t = Task(s)
          /\ row'[t] = Settled(Longer(row[t].streak), Backoff[Longer(streak[s])])
      BY <2>0, <2>1, <3>1 DEF RecordFailure
    <3>3. row[t].streak = streak[s]
      BY <2>1, <3>1, <3>2 DEF Kept, Informed, Settles, RecordFailure
    <3> QED
      BY <3>2, <3>3 DEF Settled
  <2>2. ASSUME NEW s \in Schedulers, RecordSuccess(s) PROVE FALSE
    <3>1. CASE UNCHANGED row
      BY <2>0, <3>1
    <3>2. ASSUME NEW next, row' = [row EXCEPT ![Task(s)] = Settled(0, next)]
          PROVE  FALSE
      BY <2>0, <3>2 DEF Settled
    <3> QED
      BY <2>2, <3>1, <3>2 DEF RecordSuccess
  <2>3. ASSUME NEW s \in Schedulers, Claim(s) PROVE FALSE
    BY <2>0, <2>3 DEF Claim, Rows
  <2>4. ASSUME NEW s \in Schedulers, Crash(s) \/ Exit(s) PROVE FALSE
    BY <2>0, <2>4 DEF Crash, Exit, Restarted, Rows
  <2>5. ASSUME NEW k \in Keys, Trigger(k) PROVE FALSE
    BY <2>0, <2>5 DEF Trigger, Rows
  <2>6. CASE Tick
    <3>1. row[t] \in Rows
      BY <2>0
    <3>2. row'[t].streak = row[t].streak
      BY <2>6, <3>1 DEF Tick, Rows
    <3> QED
      BY <2>0, <3>2
  <2>7. CASE UNCHANGED row
    BY <2>0, <2>7
  <2>8. ASSUME NEW s \in Schedulers,
               \/ JobStep(s) \/ ClaimsNothing(s) \/ RecordingFails(s)
               \/ Shutdown(s)
        PROVE  row' = row
    BY <2>8 DEF JobStep, ClaimsNothing, RecordingFails, Shutdown, Starts,
                NeverStarts, HandlerReturns, Cutoff, HandlerHeeds,
                HandlerIgnores
  <2>9. CASE \E s \in Schedulers : LoopStep(s)
    BY <2>1, <2>2, <2>3, <2>7, <2>8, <2>9 DEF LoopStep
  <2> QED
    BY <2>4, <2>5, <2>6, <2>7, <2>8, <2>9 DEF Next
<1> QED
  BY <1>1, Invariance, PTL DEF Spec, DelayFitsStreak

-----------------------------------------------------------------------------
(* SchedulerLease implements TaskAttempts.  The attempt at a task is that   *)
(* of the scheduler whose lease it is, as long as it is at the task.        *)
Stage(s) ==
    IF job[s].phase = "queued" THEN "claimed"
    ELSE IF job[s].phase \in Live THEN "working"
    ELSE IF pc[s] \in {"succeeded", "failed"} THEN pc[s]
    ELSE "lost"

Seen(t) ==
    IF row[t].owner = None THEN "free"
    ELSE IF row[t].owner \in Schedulers /\ Task(row[t].owner) = t
    THEN Stage(row[t].owner)
    ELSE "lost"

\* The variables of TaskAttempts.
Phases == [t \in Keys |-> Attempt(t)]
Waits == [t \in Keys |-> row[t].next]
Streaks == [t \in Keys |-> row[t].streak]

Stutters == Phases' = Phases /\ Waits' = Waits /\ Streaks' = Streaks
Shows == Attempts!Next \/ Stutters

\* A step of s, and of nobody else.
StepOf(s) ==
    \A u \in Schedulers : u # s =>
        position'[u] = position[u] /\ pc'[u] = pc[u] /\ job'[u] = job[u]
SameTimes ==
    \A t \in Keys : row'[t].next = row[t].next /\ row'[t].streak = row[t].streak

(* A job that is still in time has the lease of its task.                   *)
LEMMA JobHasLease ==
  ASSUME IInv, NEW s \in Schedulers,
         \/ job[s].phase \in Live
         \/ job[s].phase = "queued" /\ job[s].left > 0
  PROVE  /\ row[Task(s)].owner = s
         /\ job[s].phase \in Live => row[Task(s)].lease > 0
<1>1. /\ job[s].left \in Int /\ Grace \in Nat /\ Margin \in Nat
      /\ Grace < Margin
  BY Numbers DEF IInv, TypeOK, Jobs
<1>2. job[s].left > -Margin /\ job[s].phase # "none"
  BY <1>1 DEF IInv, Kept, Punctual, Live
<1>3. row[Task(s)].owner = s /\ row[Task(s)].lease = job[s].left + Margin
  BY <1>2 DEF IInv, Kept, Leased
<1> QED
  BY <1>1, <1>2, <1>3

(* No handler works at a task without its lease.                            *)
LEMMA AttemptSeen == IInv => \A t \in Keys : Attempt(t) = Seen(t)
<1> SUFFICES ASSUME IInv, NEW t \in Keys PROVE Attempt(t) = Seen(t)
  OBVIOUS
<1>1. None \notin Schedulers
  BY Numbers
<1>2. \A u \in Schedulers : job[u].phase \in Live => row[Task(u)].owner = u
  BY JobHasLease
<1>3. CASE row[t].owner = None
  BY <1>3 DEF Attempt, Seen
<1>4. CASE row[t].owner \in Schedulers /\ Task(row[t].owner) = t
  <2>1. PICK s \in Schedulers : s = row[t].owner
    BY <1>4
  <2>2. Task(s) = t /\ row[t].owner = s /\ s # None
    BY <1>1, <1>4, <2>1
  <2>3. \A u \in Schedulers : row[t].owner = u /\ Task(u) = t <=> u = s
    BY <2>2
  <2>4. \A u \in Schedulers : Task(u) = t /\ job[u].phase \in Live => u = s
    BY <1>2, <2>2
  <2> QED
    BY <2>2, <2>3, <2>4 DEF Attempt, Seen, Stage, Live
<1>5. CASE row[t].owner # None
           /\ ~(row[t].owner \in Schedulers /\ Task(row[t].owner) = t)
  <2>1. \A u \in Schedulers : ~(row[t].owner = u /\ Task(u) = t)
    BY <1>5
  <2>2. \A u \in Schedulers : ~(Task(u) = t /\ job[u].phase \in Live)
    BY <1>2, <2>1
  <2> QED
    BY <1>5, <2>1, <2>2 DEF Attempt, Seen
<1> QED
  BY <1>3, <1>4, <1>5

LEMMA AttemptSeenNext == IInv' => \A t \in Keys : Attempt(t)' = Seen(t)'
<1>1. (IInv => \A t \in Keys : Attempt(t) = Seen(t))'
  BY AttemptSeen, PTL
<1> QED
  BY <1>1

(* How the attempts look after a step that concerns one task, or none.      *)
LEMMA OneAttemptMoves ==
  ASSUME IInv, IInv', NEW k \in Keys, NEW p, Seen(k)' = p,
         \A t \in Keys : t # k => Seen(t)' = Seen(t)
  PROVE  Phases' = [Phases EXCEPT ![k] = p]
<1>1. \A t \in Keys : Attempt(t) = Seen(t) /\ Attempt(t)' = Seen(t)'
  BY AttemptSeen, AttemptSeenNext
<1>2. Phases' = [t \in Keys |-> IF t = k THEN p ELSE Attempt(t)]
  BY <1>1 DEF Phases
<1> QED
  BY <1>2 DEF Phases

LEMMA NoAttemptMoves ==
  ASSUME IInv, IInv', \A t \in Keys : Seen(t)' = Seen(t)
  PROVE  Phases' = Phases
<1>1. \A t \in Keys : Attempt(t) = Seen(t) /\ Attempt(t)' = Seen(t)'
  BY AttemptSeen, AttemptSeenNext
<1> QED
  BY <1>1 DEF Phases

LEMMA TimesStay ==
  ASSUME SameTimes
  PROVE  Waits' = Waits /\ Streaks' = Streaks
BY DEF SameTimes, Waits, Streaks

(* A step of s touches no attempt but its own.                              *)
LEMMA AttemptOfOthers ==
  ASSUME NEW s \in Schedulers, NEW t \in Keys, StepOf(s),
         \/ row'[t].owner = row[t].owner
         \/ row[t].owner = s /\ row'[t].owner = Gone,
         row[t].owner = s =>
             /\ Task(s) = t => Stage(s) = "lost"
             /\ Task(s)' = t => Stage(s)' = "lost"
  PROVE  Seen(t)' = Seen(t)
<1>0. None \notin Schedulers /\ Gone \notin Schedulers /\ None # Gone
  BY SchedulerAssumption
<1>1. CASE row[t].owner = s
  BY <1>0, <1>1 DEF Seen
<1>2. CASE row[t].owner # s
  <2>1. row'[t].owner = row[t].owner
    BY <1>2
  <2>2. \A u \in Schedulers : u # s => Task(u)' = Task(u) /\ Stage(u)' = Stage(u)
    BY DEF StepOf, Task, Stage
  <2> QED
    BY <1>2, <2>1, <2>2 DEF Seen
<1> QED
  BY <1>1, <1>2

(* A scheduler that has lost its job, its process or the record of its      *)
(* result loses the attempt, if the lease is still its own.                 *)
LEMMA LosesAttempt ==
  ASSUME IInv, IInv', NEW s \in Schedulers, StepOf(s), SameTimes,
         job'[s].phase = "none", pc'[s] \notin {"succeeded", "failed"},
         \A t \in Keys :
             \/ row'[t].owner = row[t].owner
             \/ row[t].owner = s /\ row'[t].owner = Gone
  PROVE  Shows
<1>0. None \notin Schedulers /\ Gone \notin Schedulers /\ None # Gone
  BY SchedulerAssumption
<1>1. Stage(s)' = "lost"
  BY DEF Stage, Live
<1>2. PICK k \in Keys : k = Task(s)
  BY TaskIsKey DEF IInv, TypeOK
<1>3. \A t \in Keys : t # k => Seen(t)' = Seen(t)
  BY <1>1, <1>2, AttemptOfOthers
<1>4. CASE row[k].owner = s
  <2>1. Seen(k)' = "lost"
    <3>1. row'[k].owner = s \/ row'[k].owner = Gone
      BY <1>4
    <3> QED
      BY <1>0, <1>1, <3>1 DEF Seen
  <2>2. Phases' = [Phases EXCEPT ![k] = "lost"]
    BY <1>3, <2>1, OneAttemptMoves
  <2>3. Phases[k] # "free"
    BY <1>0, <1>4 DEF Phases, Attempt
  <2>4. Waits' = Waits /\ Streaks' = Streaks
    BY TimesStay
  <2>5. Attempts!Lose(k)
    BY <2>2, <2>3, <2>4
       DEF Attempts!Lose, Attempts!Becomes, Phases, Waits, Streaks
  <2> QED
    BY <2>5 DEF Shows, Attempts!Next
<1>5. CASE row[k].owner # s
  <2>1. Seen(k)' = Seen(k)
    BY <1>5, AttemptOfOthers
  <2> QED
    BY <1>3, <2>1, NoAttemptMoves, TimesStay DEF Shows, Stutters
<1> QED
  BY <1>4, <1>5

(* The rest of an attempt is a matter of its job and its loop.              *)
LEMMA AttemptGoesOn ==
  ASSUME IInv, IInv', NEW s \in Schedulers, StepOf(s), UNCHANGED row,
         position'[s] = position[s],
         NEW k \in Keys, k = Task(s), row[k].owner = s,
         NEW p, Stage(s)' = p
  PROVE  /\ Phases' = [Phases EXCEPT ![k] = p]
         /\ Phases[k] = Stage(s)
         /\ Waits' = Waits /\ Streaks' = Streaks
<1>0. None \notin Schedulers /\ Task(s)' = Task(s)
  BY Numbers DEF Task
<1>1. \A t \in Keys : t # k => Seen(t)' = Seen(t)
  BY <1>0, AttemptOfOthers
<1>2. Seen(k)' = p /\ Seen(k) = Stage(s)
  BY <1>0 DEF Seen
<1>3. Phases[k] = Seen(k)
  BY AttemptSeen DEF Phases
<1> QED
  BY <1>1, <1>2, <1>3, OneAttemptMoves, TimesStay DEF SameTimes

LEMMA ClaimShows ==
  ASSUME IInv, IInv', NEW s \in Schedulers, Claim(s)
  PROVE  Shows
<1>0. /\ TypeOK /\ None \notin Schedulers
      /\ row \in [Keys -> Rows] /\ job \in [Schedulers -> Jobs]
      /\ pc \in [Schedulers -> Places]
  BY Numbers DEF IInv, TypeOK
<1>1. PICK k \in Keys : k = Task(s)
  BY <1>0, TaskIsKey DEF TypeOK
<1>2. StepOf(s) /\ Task(s)' = Task(s)
  BY <1>0 DEF Claim, StepOf, Goto, Task
<1>3. /\ row'[k].owner = s
      /\ \A t \in Keys : t # k => row'[t] = row[t]
      /\ row'[k].next = row[k].next /\ row'[k].streak = row[k].streak
  BY <1>0, <1>1 DEF Claim, Rows
<1>4. \A t \in Keys : t # k => Seen(t)' = Seen(t)
  BY <1>1, <1>2, <1>3, AttemptOfOthers
<1>5. Seen(k)' = "claimed"
  <2>1. job'[s].phase = "queued"
    BY <1>0 DEF Claim, JobFor
  <2> QED
    BY <1>0, <1>1, <1>2, <1>3, <2>1 DEF Seen, Stage
<1>6. row[k].next <= 0 /\ (row[k].owner = None \/ row[k].lease < 0)
  <2>1. /\ row[k].next \in Int /\ row[k].lease \in Int /\ age[s] \in Nat
    BY <1>0, Numbers DEF TypeOK, Rows
  <2>2. /\ row[k].next + age[s] <= 0
        /\ row[k].owner = None \/ row[k].lease + age[s] < 0
    BY <1>1 DEF Claim, Claimable
  <2> QED
    BY <2>1, <2>2
<1>7. Phases[k] # "working"
  <2>1. SUFFICES Seen(k) # "working"
    BY AttemptSeen DEF Phases
  <2>2. ASSUME NEW u \in Schedulers, row[k].owner = u, Task(u) = k,
               job[u].phase \in Live
        PROVE  FALSE
    <3>1. row[k].lease > 0 /\ row[k].lease \in Int
      BY <1>0, <2>2, JobHasLease DEF Rows
    <3> QED
      BY <1>0, <1>6, <2>2, <3>1
  <2>3. \A u \in Schedulers : Stage(u) = "working" => job[u].phase \in Live
    BY DEF Stage
  <2> QED
    BY <2>2, <2>3 DEF Seen
<1>8. /\ Phases' = [Phases EXCEPT ![k] = "claimed"]
      /\ Waits' = Waits /\ Streaks' = Streaks
  BY <1>3, <1>4, <1>5, OneAttemptMoves, TimesStay DEF SameTimes
<1>9. Attempts!Claim(k)
  BY <1>6, <1>7, <1>8
     DEF Attempts!Claim, Attempts!Becomes, Phases, Waits, Streaks
<1> QED
  BY <1>9 DEF Shows, Attempts!Next

(* A step that leaves every scheduler where it is leaves the attempts.      *)
LEMMA StagesStay ==
  ASSUME IInv, IInv',
         \A t \in Keys : row'[t].owner = row[t].owner,
         \A u \in Schedulers : Task(u)' = Task(u) /\ Stage(u)' = Stage(u)
  PROVE  Phases' = Phases
<1>1. \A t \in Keys : Seen(t)' = Seen(t)
  BY DEF Seen
<1> QED
  BY <1>1, NoAttemptMoves

(* The result of a job, told to who waits for it.                           *)
LEMMA OutcomeShows ==
  ASSUME IInv, IInv', NEW s \in Schedulers, NEW r \in {"succeeded", "failed"},
         Outcome(s, r), UNCHANGED <<row, position, age, streak, troubles>>,
         \/ job[s].phase \in Live
         \/ job[s].phase = "queued" /\ r = "failed"
  PROVE  Shows
<1>0. /\ TypeOK /\ None \notin Schedulers
      /\ job \in [Schedulers -> Jobs] /\ pc \in [Schedulers -> Places]
      /\ pc[s] \in {"wait", "off"}
  BY Numbers DEF IInv, TypeOK, Live
<1>1. PICK k \in Keys : k = Task(s)
  BY <1>0, TaskIsKey DEF TypeOK
<1>2. StepOf(s) /\ job'[s].phase = "none" /\ SameTimes
  BY <1>0 DEF Outcome, StepOf, Goto, Idle, SameTimes
<1>3. CASE pc[s] = "off"
  <2>1. pc'[s] = "off"
    BY <1>3 DEF Outcome
  <2> QED
    BY <1>2, <2>1, LosesAttempt
<1>4. CASE pc[s] = "wait" /\ row[k].owner # s
  <2>1. \A t \in Keys : Seen(t)' = Seen(t)
    <3>1. Task(s)' = Task(s)
      BY DEF Task
    <3> QED
      BY <1>1, <1>2, <1>4, <3>1, AttemptOfOthers
  <2> QED
    BY <1>2, <2>1, NoAttemptMoves, TimesStay DEF Shows, Stutters
<1>5. CASE pc[s] = "wait" /\ row[k].owner = s
  <2>1. Stage(s)' = r
    <3>1. pc'[s] = r
      BY <1>0, <1>5 DEF Outcome, Goto
    <3> QED
      BY <1>2, <3>1 DEF Stage, Live
  <2>2. /\ Phases' = [Phases EXCEPT ![k] = r]
        /\ Phases[k] = Stage(s)
        /\ Waits' = Waits /\ Streaks' = Streaks
    BY <1>1, <1>2, <1>5, <2>1, AttemptGoesOn
  <2>3. CASE job[s].phase \in Live
    <3>1. Phases[k] = "working"
      BY <2>2, <2>3 DEF Stage, Live
    <3>2. Attempts!Return(k)
      BY <2>2, <3>1
         DEF Attempts!Return, Attempts!Becomes, Phases, Waits, Streaks
    <3> QED
      BY <3>2 DEF Shows, Attempts!Next
  <2>4. CASE job[s].phase = "queued" /\ r = "failed"
    <3>1. Phases[k] = "claimed"
      BY <2>2, <2>4 DEF Stage
    <3>2. Attempts!GiveUp(k)
      BY <2>2, <2>4, <3>1
         DEF Attempts!GiveUp, Attempts!Becomes, Phases, Waits, Streaks
    <3> QED
      BY <3>2 DEF Shows, Attempts!Next
  <2> QED
    BY <2>3, <2>4
<1> QED
  BY <1>0, <1>3, <1>4, <1>5

LEMMA JobShows ==
  ASSUME IInv, IInv', NEW s \in Schedulers, JobStep(s)
  PROVE  Shows
<1>0. /\ TypeOK /\ job \in [Schedulers -> Jobs]
  BY DEF IInv, TypeOK
<1>1. PICK k \in Keys : k = Task(s)
  BY <1>0, TaskIsKey DEF TypeOK
<1>2. CASE Starts(s)
  <2>1. /\ StepOf(s) /\ UNCHANGED row /\ position'[s] = position[s]
        /\ job'[s].phase = "running"
    BY <1>0, <1>2 DEF Starts, StepOf, loop, Jobs
  <2>2. row[k].owner = s /\ Stage(s) = "claimed" /\ Stage(s)' = "working"
    BY <1>1, <1>2, <2>1, JobHasLease DEF Starts, Stage, Live
  <2>3. /\ Phases' = [Phases EXCEPT ![k] = "working"]
        /\ Phases[k] = "claimed"
        /\ Waits' = Waits /\ Streaks' = Streaks
    BY <1>1, <2>1, <2>2, AttemptGoesOn
  <2>4. Attempts!Start(k)
    BY <2>3 DEF Attempts!Start, Attempts!Becomes, Phases, Waits, Streaks
  <2> QED
    BY <2>4 DEF Shows, Attempts!Next
<1>3. CASE Cutoff(s)
  <2>1. \A u \in Schedulers : Task(u)' = Task(u) /\ Stage(u)' = Stage(u)
    BY <1>0, <1>3 DEF Cutoff, loop, Task, Stage, Live, Jobs
  <2>2. row' = row
    BY <1>3 DEF Cutoff
  <2> QED
    BY <2>1, <2>2, StagesStay, TimesStay DEF Shows, Stutters, SameTimes
<1>4. CASE NeverStarts(s)
  BY <1>4, OutcomeShows DEF NeverStarts
<1>5. CASE HandlerReturns(s)
  BY <1>5, OutcomeShows DEF HandlerReturns, Live
<1>6. CASE HandlerHeeds(s) \/ HandlerIgnores(s)
  BY <1>6, OutcomeShows DEF HandlerHeeds, HandlerIgnores, Live
<1> QED
  BY <1>2, <1>3, <1>4, <1>5, <1>6 DEF JobStep

(* A result settles the attempt it is about, and no other.                  *)
LEMMA SettlementShows ==
  ASSUME IInv, IInv', NEW s \in Schedulers, NextTask(s), UNCHANGED job,
         pc[s] \in {"succeeded", "failed"}, Settles(s),
         NEW k \in Keys, k = Task(s), row'[k].owner = None,
         \A t \in Keys : t # k => row'[t] = row[t]
  PROVE  /\ Phases[k] = pc[s]
         /\ Phases' = [Phases EXCEPT ![k] = "free"]
         /\ Waits' = [Waits EXCEPT ![k] = row'[k].next]
         /\ Streaks' = [Streaks EXCEPT ![k] = row'[k].streak]
<1>0. /\ TypeOK /\ None \notin Schedulers /\ row \in [Keys -> Rows]
      /\ job[s].phase = "none"
  BY Numbers DEF IInv, TypeOK
<1>2. StepOf(s) /\ Stage(s)' = "lost"
  <2>1. StepOf(s) /\ pc'[s] \in {"idle", "claim"}
    BY <1>0, NextTaskTypes DEF StepOf
  <2> QED
    BY <1>0, <2>1 DEF Stage, Live
<1>3. \A t \in Keys : t # k => Seen(t)' = Seen(t)
  BY <1>2, AttemptOfOthers
<1>4. Seen(k)' = "free"
  BY DEF Seen
<1>5. Phases[k] = pc[s]
  <2>1. Phases[k] = Seen(k)
    BY AttemptSeen DEF Phases
  <2>2. row[k].owner = s
    BY DEF Settles
  <2> QED
    BY <1>0, <2>1, <2>2 DEF Seen, Stage, Live
<1>6. /\ Waits' = [Waits EXCEPT ![k] = row'[k].next]
      /\ Streaks' = [Streaks EXCEPT ![k] = row'[k].streak]
  BY DEF Waits, Streaks
<1> QED
  BY <1>3, <1>4, <1>5, <1>6, OneAttemptMoves

LEMMA RecordShows ==
  ASSUME IInv, IInv', NEW s \in Schedulers, RecordSuccess(s) \/ RecordFailure(s)
  PROVE  Shows
<1>0. /\ TypeOK /\ job[s].phase = "none"
      /\ UNCHANGED job /\ NextTask(s) /\ pc[s] \in {"succeeded", "failed"}
  BY DEF IInv, TypeOK, RecordSuccess, RecordFailure
<1>1. PICK k \in Keys : k = Task(s)
  BY <1>0, TaskIsKey DEF TypeOK
<1>2. CASE UNCHANGED row
  <2>1. StepOf(s) /\ pc'[s] \in {"idle", "claim"} /\ SameTimes
    BY <1>0, <1>2, NextTaskTypes DEF StepOf, SameTimes
  <2> QED
    BY <1>0, <1>2, <2>1, LosesAttempt
<1>3. ASSUME RecordSuccess(s), ~UNCHANGED row PROVE Shows
  <2>1. Settles(s) /\ pc[s] = "succeeded"
    BY <1>3 DEF RecordSuccess
  <2>2. PICK next \in {0, Interval[k]} : row' = [row EXCEPT ![k] = Settled(0, next)]
    BY <1>1, <1>3 DEF RecordSuccess
  <2>3. /\ row'[k] = Settled(0, next)
        /\ \A t \in Keys : t # k => row'[t] = row[t]
    BY <1>0, <2>2 DEF TypeOK
  <2>4. row'[k].owner = None /\ row'[k].next = next /\ row'[k].streak = 0
    BY <2>3 DEF Settled
  <2>5. /\ Phases[k] = "succeeded"
        /\ Phases' = [Phases EXCEPT ![k] = "free"]
        /\ Waits' = [Waits EXCEPT ![k] = next]
        /\ Streaks' = [Streaks EXCEPT ![k] = 0]
    BY <1>0, <1>1, <2>1, <2>3, <2>4, SettlementShows
  <2>6. Attempts!Succeed(k)
    BY <2>5 DEF Attempts!Succeed, Attempts!Becomes, Phases, Waits, Streaks
  <2> QED
    BY <2>6 DEF Shows, Attempts!Next
<1>4. ASSUME RecordFailure(s), ~UNCHANGED row PROVE Shows
  <2>1. Settles(s) /\ pc[s] = "failed"
    BY <1>4 DEF RecordFailure
  <2>2. row[k].streak = streak[s]
    BY <1>1, <2>1 DEF IInv, Kept, Informed, Settles
  <2>3. /\ row'[k] = Settled(Longer(row[k].streak),
                             Backoff[Longer(row[k].streak)])
        /\ \A t \in Keys : t # k => row'[t] = row[t]
    BY <1>0, <1>1, <1>4, <2>2 DEF RecordFailure, TypeOK
  <2>4. /\ row'[k].owner = None
        /\ row'[k].next = Backoff[Attempts!Longer(Streaks[k])]
        /\ row'[k].streak = Attempts!Longer(Streaks[k])
    BY <2>3 DEF Settled, Attempts!Longer, Longer, Streaks
  <2>5. /\ Phases[k] = "failed"
        /\ Phases' = [Phases EXCEPT ![k] = "free"]
        /\ Waits' = [Waits EXCEPT ![k] = Backoff[Attempts!Longer(Streaks[k])]]
        /\ Streaks' = [Streaks EXCEPT ![k] = Attempts!Longer(Streaks[k])]
    BY <1>0, <1>1, <2>1, <2>3, <2>4, SettlementShows
  <2>6. Attempts!Fail(k)
    BY <2>5 DEF Attempts!Fail, Attempts!Becomes, Phases, Waits, Streaks
  <2> QED
    BY <2>6 DEF Shows, Attempts!Next
<1> QED
  BY <1>2, <1>3, <1>4

\* The loop goes on or ends without a record of a result.
LEMMA LeavingShows ==
  ASSUME IInv, IInv', NEW s \in Schedulers,
         ClaimsNothing(s) \/ RecordingFails(s) \/ Shutdown(s) \/ Crash(s) \/ Exit(s)
  PROVE  Shows
<1>0. /\ TypeOK /\ job \in [Schedulers -> Jobs] /\ pc \in [Schedulers -> Places]
      /\ row \in [Keys -> Rows]
  BY DEF IInv, TypeOK
<1>1. CASE ClaimsNothing(s) \/ RecordingFails(s)
  <2>1. /\ NextTask(s) /\ UNCHANGED <<row, job>>
        /\ pc[s] \in {"claim", "succeeded", "failed"}
    BY <1>1 DEF ClaimsNothing, RecordingFails
  <2>2. /\ StepOf(s) /\ pc'[s] \in {"idle", "claim"} /\ SameTimes
        /\ job'[s].phase = "none"
    BY <1>0, <2>1, NextTaskTypes DEF TypeOK, StepOf, SameTimes
  <2> QED
    BY <2>1, <2>2, LosesAttempt
<1>2. CASE Shutdown(s)
  <2>1. /\ StepOf(s) /\ SameTimes /\ pc'[s] = "off"
        /\ UNCHANGED <<row, position, job>>
    BY <1>0, <1>2 DEF Shutdown, Goto, StepOf, SameTimes
  <2>2. CASE job[s].phase = "none"
    BY <2>1, <2>2, LosesAttempt
  <2>3. CASE job[s].phase # "none"
    <3>1. job[s].phase = "queued" \/ job[s].phase \in Live
      BY <1>0, <2>3 DEF Jobs
    <3>2. \A u \in Schedulers : Task(u)' = Task(u) /\ Stage(u)' = Stage(u)
      BY <2>1, <3>1 DEF StepOf, Task, Stage
    <3> QED
      BY <2>1, <3>2, StagesStay, TimesStay DEF Shows, Stutters
  <2> QED
    BY <2>2, <2>3
<1>3. CASE Crash(s) \/ Exit(s)
  <2>1. Restarted(s)
    BY <1>3 DEF Crash, Exit
  <2>2. /\ StepOf(s) /\ pc'[s] = "claim" /\ job'[s].phase = "none"
    BY <1>0, <2>1 DEF TypeOK, Restarted, Restart, Goto, StepOf, Idle
  <2>3. \A t \in Keys :
            \/ row'[t].owner = row[t].owner
            \/ row[t].owner = s /\ row'[t].owner = Gone
    BY <1>0, <2>1 DEF Restarted, Rows
  <2>4. SameTimes
    BY <1>0, <2>1 DEF Restarted, Rows, SameTimes
  <2> QED
    BY <2>2, <2>3, <2>4, LosesAttempt
<1> QED
  BY <1>1, <1>2, <1>3

(* Time passes for all tasks alike, and for nobody's attempt.               *)
LEMMA TickShows ==
  ASSUME IInv, IInv', Tick
  PROVE  Shows
<1>0. /\ TypeOK /\ job \in [Schedulers -> Jobs] /\ pc \in [Schedulers -> Places]
      /\ row \in [Keys -> Rows]
  BY DEF IInv, TypeOK
<1>1. \A t \in Keys :
          /\ row'[t].owner = row[t].owner
          /\ row'[t].streak = row[t].streak
          /\ row'[t].next = Sooner(row[t].next)
  BY <1>0 DEF Tick, Rows
<1>2. \A u \in Schedulers : Task(u)' = Task(u) /\ Stage(u)' = Stage(u)
  <2> TAKE u \in Schedulers
  <2>1. position' = position /\ job'[u].phase = job[u].phase
    BY <1>0 DEF Tick, Jobs
  <2>2. pc'[u] = pc[u] \/ (pc[u] = "idle" /\ pc'[u] = "claim")
    BY <1>0 DEF Tick
  <2> QED
    BY <2>1, <2>2 DEF Task, Stage
<1>3. Phases' = Phases
  BY <1>1, <1>2, StagesStay
<1>4. Streaks' = Streaks
  BY <1>1 DEF Streaks
<1>5. Waits' = [t \in Keys |->
                  IF Waits[t] > -MaxAge THEN Waits[t] - 1 ELSE Waits[t]]
  BY <1>1 DEF Waits, Sooner
<1>6. Attempts!Tick
  BY <1>3, <1>4, <1>5 DEF Attempts!Tick, Phases, Waits, Streaks
<1> QED
  BY <1>6 DEF Shows, Attempts!Next

LEMMA TriggerShows ==
  ASSUME IInv, IInv', NEW k \in Keys, Trigger(k)
  PROVE  Shows
<1>0. row \in [Keys -> Rows]
  BY DEF IInv, TypeOK
<1>1. \A t \in Keys :
          /\ row'[t].owner = row[t].owner
          /\ row'[t].streak = row[t].streak
          /\ row'[t].next = IF t = k THEN 0 ELSE row[t].next
  BY <1>0 DEF Trigger, Rows
<1>2. Phases' = Phases
  BY <1>1, StagesStay DEF Trigger, loop, Task, Stage
<1>3. Streaks' = Streaks /\ Waits' = [Waits EXCEPT ![k] = 0]
  BY <1>1 DEF Streaks, Waits
<1>4. Attempts!Trigger(k)
  BY <1>2, <1>3 DEF Attempts!Trigger, Phases, Waits, Streaks
<1> QED
  BY <1>4 DEF Shows, Attempts!Next

(* Whatever becomes of the processes, their leases and their clocks: an     *)
(* attempt is made when its task is due and nobody works at it, the next    *)
(* time of a task is set by the attempt that is recorded, and an attempt    *)
(* whose result is lost is lost as a whole.                                 *)
THEOREM ImplementsTaskAttempts == Spec => AttemptsFollowOneAnother
<1>1. Init => Attempts!Init
  <2> SUFFICES ASSUME Init PROVE Attempts!Init
    OBVIOUS
  <2>1. \A t \in Keys :
            row[t].owner = None /\ row[t].next = 0 /\ row[t].streak = 0
    BY DEF Init, Settled
  <2> QED
    BY <2>1 DEF Attempts!Init, Attempt
<1>2. IInv /\ IInv' /\ [Next]_vars => [Attempts!Next]_(Attempts!vars)
  <2> SUFFICES ASSUME IInv, IInv', [Next]_vars
               PROVE  [Attempts!Next]_(Attempts!vars)
    OBVIOUS
  <2>1. ASSUME NEW s \in Schedulers, LoopStep(s) PROVE Shows
    BY <2>1, ClaimShows, LeavingShows, RecordShows DEF LoopStep
  <2>2. ASSUME NEW s \in Schedulers, JobStep(s) PROVE Shows
    BY <2>2, JobShows
  <2>3. ASSUME NEW s \in Schedulers,
               RecordingFails(s) \/ Shutdown(s) \/ Crash(s) \/ Exit(s)
        PROVE  Shows
    BY <2>3, LeavingShows
  <2>4. ASSUME NEW t \in Keys, Trigger(t) PROVE Shows
    BY <2>4, TriggerShows
  <2>5. ASSUME Tick PROVE Shows
    BY <2>5, TickShows
  <2>6. ASSUME UNCHANGED vars PROVE Shows
    <3>1. UNCHANGED <<row, pc, position, job>>
      BY <2>6 DEF vars, loop
    <3> QED
      BY <3>1, StagesStay, TimesStay
         DEF Shows, Stutters, SameTimes, Task, Stage
  <2>7. Shows
    BY <2>1, <2>2, <2>3, <2>4, <2>5, <2>6 DEF Next
  <2> QED
    BY <2>7 DEF Shows, Stutters, Attempts!vars, Phases, Waits, Streaks
<1> QED
  BY <1>1, <1>2, Invariance, PTL DEF Spec, AttemptsFollowOneAnother, Attempts!Spec

\* The law of TaskAttempts that a task under attempt is due.
Due == \A t \in Keys : Phases[t] # "free" => Waits[t] <= 0

LEMMA AttemptsStayDue ==
  ASSUME TypeOK, Due, Attempts!Next
  PROVE  Due'
<1>0. /\ \A t \in Keys : Waits[t] \in Int
      /\ Phases = [t \in Keys |-> Phases[t]] /\ Waits = [t \in Keys |-> Waits[t]]
  BY DEF TypeOK, Rows, Waits, Phases
<1>1. ASSUME NEW k \in Keys,
             \/ Attempts!Claim(k) \/ Attempts!Start(k) \/ Attempts!Return(k)
             \/ Attempts!GiveUp(k) \/ Attempts!Lose(k)
      PROVE  Due'
  <2>1. /\ Waits' = Waits
        /\ Phases[k] # "free" \/ Waits[k] <= 0
        /\ \A t \in Keys : t # k => Phases'[t] = Phases[t]
    BY <1>0, <1>1
       DEF Attempts!Claim, Attempts!Start, Attempts!Return, Attempts!GiveUp,
           Attempts!Lose, Attempts!Becomes, Phases, Waits
  <2> QED
    BY <2>1 DEF Due
<1>2. ASSUME NEW k \in Keys, Attempts!Succeed(k) \/ Attempts!Fail(k)
      PROVE  Due'
  <2>1. /\ Phases'[k] = "free"
        /\ \A t \in Keys : t # k => Phases'[t] = Phases[t] /\ Waits'[t] = Waits[t]
    BY <1>0, <1>2
       DEF Attempts!Succeed, Attempts!Fail, Attempts!Becomes, Phases, Waits
  <2> QED
    BY <2>1 DEF Due
<1>3. ASSUME NEW k \in Keys, Attempts!Trigger(k) PROVE Due'
  <2>1. Phases' = Phases /\ Waits' = [Waits EXCEPT ![k] = 0]
    BY <1>3 DEF Attempts!Trigger, Phases, Waits
  <2> QED
    BY <1>0, <2>1 DEF Due
<1>4. ASSUME Attempts!Tick PROVE Due'
  <2>1. /\ Phases' = Phases
        /\ Waits' = [t \in Keys |->
               IF Waits[t] > -MaxAge THEN Waits[t] - 1 ELSE Waits[t]]
    BY <1>4 DEF Attempts!Tick, Phases, Waits
  <2> QED
    BY <1>0, <2>1 DEF Due
<1> QED
  BY <1>1, <1>2, <1>3, <1>4 DEF Attempts!Next

(* No task is attempted before it is due, by however many schedulers: not   *)
(* by a takeover, and not before the delay after a failure is over.         *)
THEOREM AttemptedOnlyWhenDue == Spec => []Attempts!AttemptedWhenDue
<1>1. Attempts!Init => Due
  BY DEF Attempts!Init, Due, Phases, Waits
<1>2. TypeOK /\ Due /\ [Attempts!Next]_(Attempts!vars) => Due'
  <2>1. TypeOK /\ Due /\ Attempts!Next => Due'
    BY AttemptsStayDue
  <2>2. Due /\ UNCHANGED Attempts!vars => Due'
    BY DEF Due, Attempts!vars, Phases, Waits
  <2> QED
    BY <2>1, <2>2
<1>3. Due => Attempts!AttemptedWhenDue
  BY DEF Due, Attempts!AttemptedWhenDue, Phases, Waits
<1> QED
  BY <1>1, <1>2, <1>3, TypeCorrect, ImplementsTaskAttempts, PTL
     DEF AttemptsFollowOneAnother, Attempts!Spec
=============================================================================
