--------------------------- MODULE ScheduledTasks ----------------------------
(* The scheduled tasks of a user's session.  Dispatcher passes claim due    *)
(* tasks under a lease and admit their occurrences: a cycle and a trigger   *)
(* in the mailbox of the session.  A run of the session takes the trigger,  *)
(* which starts the cycle; later runs continue it until one submits its     *)
(* result.  Meanwhile tasks are edited and deleted, pending items are       *)
(* deleted and the session is archived.                                     *)
(*                                                                          *)
(* An action is a transaction.  Time is counted in occurrences: every       *)
(* instant is one of a cron schedule.                                       *)
EXTENDS Naturals

CONSTANTS
    Tasks,        \* ids of tasks
    Dispatchers,  \* dispatcher passes that run at the same time
    Cycles,       \* ids of cycles
    Runs,         \* ids of runs
    MaxTime,      \* bound on the clock
    MaxEdits,     \* bound on replacements and on deletions of pending items
    MaxTroubles,  \* bound on dispatchers that stop, leases that expire under
                  \* a claim and runs that fail, all together
    None

ASSUME TasksAssumption ==
    /\ MaxTime \in Nat /\ MaxEdits \in Nat /\ MaxTroubles \in Nat
    /\ None \notin Tasks \cup Dispatchers \cup Cycles \cup Runs \cup Nat

VARIABLES
    clock,
    task,      \* scheduled_tasks
    cycle,     \* cycle states of the Toolkit State
    mailbox,   \* scheduled items of the session's mailbox
    run,       \* agent_runs
    boundary,  \* pending_idle_continuation_run_id
    session,   \* status of the session
    claim,     \* the task a dispatcher pass has claimed
    edits, troubles,
    owed,      \* history: the occurrence of a task that is to be admitted next
    lost       \* history: cycles whose continuation a failed run or a user
               \* has taken away

vars == <<clock, task, cycle, mailbox, run, boundary, session, claim, edits,
          troubles, owed, lost>>
bounds == <<edits, troubles>>

Exists(t) == task[t].kind \in {"once", "cron"}
NoTask(kind) == [kind |-> kind, next |-> 0, pending |-> None, active |-> None,
                 lease |-> None, live |-> FALSE]
NoCycle == [phase |-> "none", task |-> None, for |-> 0, host |-> None]
NoRun == [status |-> "none", cycle |-> None, result |-> FALSE]

Item(kind, c) == [kind |-> kind, cycle |-> c]
Items == [kind : {"trigger", "continuation"}, cycle : Cycles]
Triggers == [kind : {"trigger"}, cycle : Cycles]

Admitted == {c \in Cycles : cycle[c].phase = "admitted"}
Started == {c \in Cycles : cycle[c].phase = "started"}
Active == {r \in Runs : run[r].status = "active"}

InMailbox(c) == \E i \in mailbox : i.cycle = c

\* Not in use: uuid7 makes a new identity.
UnusedCycle(c) ==
    /\ cycle[c].phase = "none" /\ ~InMailbox(c)
    /\ \A r \in Active : run[r].cycle # c
UnusedRun(r) ==
    run[r].status # "active" /\ \A c \in Cycles : cycle[c].host # r

Edit == edits < MaxEdits /\ edits' = edits + 1
Trouble == troubles < MaxTroubles /\ troubles' = troubles + 1

-----------------------------------------------------------------------------
(* Users and agents edit tasks.                                             *)

FirstFuture == clock + 1

\* validate_schedule
Schedules(pastAllowed) ==
    {[kind |-> "cron", at |-> FirstFuture]} \cup
    [kind : {"once"}, at : {n \in 0..MaxTime : pastAllowed \/ n >= clock}]

\* The fence of a started cycle is forgotten (a mutant of Scheduled).
ScheduledFresh(s, active) == [NoTask(s.kind) EXCEPT !.next = s.at]

\* A definition with its fence, and no lease.
Scheduled(s, active) ==
    [NoTask(s.kind) EXCEPT !.next = s.at, !.active = active]

Create(t) ==
    /\ session = "active" /\ task[t].kind = "new"
    /\ \E s \in Schedules(FALSE) :
           /\ task' = [task EXCEPT ![t] = Scheduled(s, None)]
           /\ owed' = [owed EXCEPT ![t] = s.at]
    /\ UNCHANGED <<clock, cycle, mailbox, run, boundary, session, claim,
                   bounds, lost>>

\* Started cycles go as well (a mutant of RemoveAdmitted).
RemoveCycles(cs) ==
    /\ cycle' = [c \in Cycles |-> IF c \in cs THEN NoCycle ELSE cycle[c]]
    /\ mailbox' = {i \in mailbox : i.cycle \notin cs}

\* Only the triggers go (a mutant of RemoveAdmitted).
RemoveTriggers(cs) ==
    /\ mailbox' = {i \in mailbox : i.cycle \notin cs \cap Admitted}
    /\ UNCHANGED cycle

\* The admitted cycles among cs go, and their triggers.
RemoveAdmitted(cs) ==
    /\ cycle' = [c \in Cycles |-> IF c \in cs \cap Admitted THEN NoCycle
                                                             ELSE cycle[c]]
    /\ mailbox' = {i \in mailbox : i.cycle \notin cs \cap Admitted}

HasStarted(t) == task[t].active \in Started

Replace(t) ==
    /\ session = "active" /\ Exists(t)
    /\ ~(task[t].kind = "once" /\ HasStarted(t))
    /\ RemoveAdmitted({task[t].active})
    /\ \E s \in Schedules(HasStarted(t)) :
           /\ task' = [task EXCEPT ![t] =
                  Scheduled(s, IF HasStarted(t) THEN @.active ELSE None)]
           /\ owed' = [owed EXCEPT ![t] = s.at]
    /\ Edit
    /\ UNCHANGED <<clock, run, boundary, session, claim, troubles, lost>>

Delete(t) ==
    /\ session = "active" /\ Exists(t)
    /\ RemoveAdmitted({task[t].active})
    /\ task' = [task EXCEPT ![t] = NoTask("gone")]
    /\ UNCHANGED <<clock, run, boundary, session, claim, bounds, owed, lost>>

\* A user deletes an item of the mailbox, of whatever kind.
DeleteItem(i) ==
    /\ session = "active" /\ i \in mailbox
    /\ mailbox' = mailbox \ {i}
    /\ lost' = lost \cup {i.cycle}
    /\ Edit
    /\ UNCHANGED <<clock, task, cycle, run, boundary, session, claim,
                   troubles, owed>>

-----------------------------------------------------------------------------
(* Dispatcher passes.                                                       *)

\* A claim is good as long as it exists (a mutant of Fenced).
Unfenced(d) == claim[d] # None /\ Exists(claim[d])

\* Owner and token of the lease are those of the claim, and it has time left.
Fenced(d) ==
    /\ claim[d] # None /\ Exists(claim[d])
    /\ task[claim[d]].lease = d /\ task[claim[d]].live

Due(t) == Exists(t) /\ task[t].next <= clock

\* A lease is not taken over (a mutant of Leased).
LeasedForEver(t) == task[t].lease # None

Leased(t) == task[t].lease # None /\ task[t].live

Claim(d) ==
    /\ claim[d] = None
    /\ \E t \in Tasks :
           /\ Due(t)
           /\ task[t].active = None \/ task[t].kind = "cron"
           /\ ~Leased(t)
           /\ task' = [task EXCEPT ![t].lease = d, ![t].live = TRUE]
           /\ claim' = [claim EXCEPT ![d] = t]
    /\ UNCHANGED <<clock, cycle, mailbox, run, boundary, session, bounds,
                   owed, lost>>

\* complete_claim; a one-time task stays at its instant.
Completed(t, active, pending) ==
    [task[t] EXCEPT
        !.next = IF @ <= clock /\ task[t].kind = "cron" THEN FirstFuture ELSE @,
        !.active = active, !.pending = pending,
        !.lease = None, !.live = FALSE]

Admit(d) ==
    /\ Fenced(d) /\ task[claim[d]].active = None
    /\ \E c \in Cycles :
           /\ UnusedCycle(c)
           /\ cycle' = [cycle EXCEPT ![c] =
                  [phase |-> "admitted", task |-> claim[d],
                   for |-> task[claim[d]].next, host |-> None]]
           /\ mailbox' = mailbox \cup {Item("trigger", c)}
           /\ task' = [task EXCEPT ![claim[d]] = Completed(claim[d], c, None)]
           /\ lost' = lost \ {c}
    /\ owed' = [owed EXCEPT ![claim[d]] =
           IF task[claim[d]].kind = "cron" THEN FirstFuture ELSE None]
    /\ claim' = [claim EXCEPT ![d] = None]
    /\ UNCHANGED <<clock, run, boundary, session, bounds>>

\* The latest occurrence is kept (a mutant of Pending).
PendingLatest(t) == task[t].next

\* The first occurrence that came while the cycle was active.
Pending(t) ==
    IF task[t].pending = None THEN task[t].next ELSE task[t].pending

\* Only a recurring task can be claimed with a cycle.
Coalesce(d) ==
    /\ Fenced(d) /\ task[claim[d]].active # None
    /\ task' = [task EXCEPT ![claim[d]] =
           Completed(claim[d], @.active, Pending(claim[d]))]
    /\ claim' = [claim EXCEPT ![d] = None]
    /\ UNCHANGED <<clock, cycle, mailbox, run, boundary, session, bounds, owed,
                   lost>>

\* The workspace, the agent or the binding of the task is gone.
DeleteUnauthorized(d) ==
    /\ Fenced(d)
    /\ task' = [task EXCEPT ![claim[d]] = NoTask("gone")]
    /\ claim' = [claim EXCEPT ![d] = None]
    /\ UNCHANGED <<clock, cycle, mailbox, run, boundary, session, bounds, owed,
                   lost>>

\* The fence is lost: the pass fails.
LoseClaim(d) ==
    /\ claim[d] # None /\ ~Fenced(d)
    /\ claim' = [claim EXCEPT ![d] = None]
    /\ UNCHANGED <<clock, task, cycle, mailbox, run, boundary, session, bounds,
                   owed, lost>>

StopDispatcher(d) ==
    /\ claim[d] # None
    /\ Trouble
    /\ claim' = [claim EXCEPT ![d] = None]
    /\ UNCHANGED <<clock, task, cycle, mailbox, run, boundary, session, edits,
                   owed, lost>>

ExpireLease(t) ==
    /\ task[t].live
    /\ IF claim[task[t].lease] = t THEN Trouble ELSE UNCHANGED troubles
    /\ task' = [task EXCEPT ![t].live = FALSE]
    /\ UNCHANGED <<clock, cycle, mailbox, run, boundary, session, claim, edits,
                   owed, lost>>

-----------------------------------------------------------------------------
(* Runs of the session (see SessionExecution).                              *)

\* The run that is active is not looked for (a mutant of StartRun).
StartAnyRun(r) ==
    /\ UnusedRun(r) /\ session = "active"
    /\ run' = [run EXCEPT ![r] = [NoRun EXCEPT !.status = "active"]]
    /\ boundary' = None
    /\ UNCHANGED <<clock, task, cycle, mailbox, session, claim, bounds, owed,
                   lost>>

\* For its mailbox or for other work; an archived session runs for the
\* continuations of started cycles only.
StartRun(r) ==
    /\ Active = {} /\ UnusedRun(r)
    /\ session = "active"
       \/ \E c \in Started : Item("continuation", c) \in mailbox
    /\ run' = [run EXCEPT ![r] = [NoRun EXCEPT !.status = "active"]]
    /\ boundary' = None
    /\ UNCHANGED <<clock, task, cycle, mailbox, session, claim, bounds, owed,
                   lost>>

\* The item is taken by the run, which binds the cycle of the item.
Bind(i, r) ==
    /\ cycle' = [cycle EXCEPT ![i.cycle].phase = "started",
                              ![i.cycle].host = r]
    /\ run' = [run EXCEPT ![r].cycle = i.cycle]

Polls(r) == r \in Active /\ ~run[r].result

\* Does the trigger still start its cycle?
Starts(c) ==
    /\ c \in Admitted /\ Exists(cycle[c].task)
    /\ task[cycle[c].task].active = c

PromoteTrigger(i, r) ==
    /\ Polls(r) /\ i \in mailbox /\ i.kind = "trigger"
    /\ mailbox' = mailbox \ {i}
    /\ \/ /\ Starts(i.cycle)
          /\ Bind(i, r)
       \/ /\ ~Starts(i.cycle)
          /\ cycle' = [cycle EXCEPT ![i.cycle] =
                 IF i.cycle \in Admitted THEN NoCycle ELSE @]
          /\ UNCHANGED run
    /\ UNCHANGED <<clock, task, boundary, session, claim, bounds, owed, lost>>

PromoteContinuation(i, r) ==
    /\ Polls(r) /\ i \in mailbox /\ i.kind = "continuation"
    /\ mailbox' = mailbox \ {i}
    /\ \/ i.cycle \in Started /\ Bind(i, r)
       \/ i.cycle \notin Started /\ UNCHANGED <<cycle, run>>
    /\ UNCHANGED <<clock, task, boundary, session, claim, bounds, owed, lost>>

\* The row after the result of its cycle.
Released(t) ==
    IF task[t].kind = "once" THEN NoTask("gone")
    ELSE [task[t] EXCEPT
        !.next = IF task[t].pending = None THEN @ ELSE task[t].pending,
        !.active = None, !.pending = None, !.lease = None, !.live = FALSE]

Submit(r) ==
    /\ Polls(r) /\ run[r].cycle \in Started
    /\ cycle[run[r].cycle].host = r
    /\ cycle' = [cycle EXCEPT ![run[r].cycle] = NoCycle]
    /\ task' = [t \in Tasks |->
           IF Exists(t) /\ task[t].active = run[r].cycle
           THEN Released(t) ELSE task[t]]
    /\ run' = [run EXCEPT ![r].result = TRUE]
    /\ UNCHANGED <<clock, mailbox, boundary, session, claim, bounds, owed,
                   lost>>

Complete(r) ==
    /\ r \in Active
    /\ run' = [run EXCEPT ![r].status = "completed"]
    /\ boundary' = r
    /\ UNCHANGED <<clock, task, cycle, mailbox, session, claim, bounds, owed,
                   lost>>

\* The run fails, is stopped or is interrupted: no continuation.
Fail(r) ==
    /\ r \in Active
    /\ Trouble
    /\ run' = [run EXCEPT ![r].status = "failed"]
    /\ lost' = lost \cup {c \in Started : ~InMailbox(c)}
    /\ UNCHANGED <<clock, task, cycle, mailbox, boundary, session, claim, edits,
                   owed>>

\* Only the cycle of the completed run goes on (a mutant of Continued).
ContinuedHost == {c \in Started : run[boundary].cycle = c}

\* Every started cycle goes on, in an archived session that of the run.
Continued ==
    IF session = "active" THEN Started
    ELSE {c \in Started : run[boundary].cycle = c /\ cycle[c].host = boundary}

\* idle_continuation.finalize
CloseBoundary ==
    /\ boundary # None /\ Active = {} /\ mailbox = {}
    /\ session = "archived" => Continued # {}
    /\ mailbox' = {Item("continuation", c) : c \in Continued}
    /\ boundary' = None
    /\ lost' = lost \ Continued
    /\ UNCHANGED <<clock, task, cycle, run, session, claim, bounds, owed>>

-----------------------------------------------------------------------------
Hosts(r) ==
    /\ run[r].cycle \in Started
    /\ cycle[run[r].cycle].host = r

\* archive_allows_active_runs
MayArchive ==
    /\ \A r \in Active : Hosts(r)
    /\ \A i \in mailbox \ Triggers : i.cycle \in Started
    /\ boundary # None => Hosts(boundary) \/ mailbox # {}

Archive ==
    /\ session = "active" /\ MayArchive
    /\ session' = "archived"
    /\ task' = [t \in Tasks |-> NoTask("gone")]
    /\ cycle' = [c \in Cycles |-> IF c \in Admitted THEN NoCycle ELSE cycle[c]]
    /\ mailbox' = mailbox \ Triggers
    /\ UNCHANGED <<clock, run, boundary, claim, bounds, owed, lost>>

Tick ==
    /\ clock < MaxTime
    /\ clock' = clock + 1
    /\ UNCHANGED <<task, cycle, mailbox, run, boundary, session, claim, bounds,
                   owed, lost>>

-----------------------------------------------------------------------------
Init ==
    /\ clock = 0
    /\ task = [t \in Tasks |-> NoTask("new")]
    /\ cycle = [c \in Cycles |-> NoCycle]
    /\ mailbox = {}
    /\ run = [r \in Runs |-> NoRun]
    /\ boundary = None /\ session = "active"
    /\ claim = [d \in Dispatchers |-> None]
    /\ edits = 0 /\ troubles = 0
    /\ owed = [t \in Tasks |-> None] /\ lost = {}

Dispatch(d) == Claim(d) \/ Admit(d) \/ Coalesce(d) \/ LoseClaim(d)

Promote(i) == \E r \in Runs : PromoteTrigger(i, r) \/ PromoteContinuation(i, r)

Next ==
    \/ \E t \in Tasks : Create(t) \/ Replace(t) \/ Delete(t) \/ ExpireLease(t)
    \/ \E d \in Dispatchers :
           Dispatch(d) \/ DeleteUnauthorized(d) \/ StopDispatcher(d)
    \/ \E i \in Items : DeleteItem(i) \/ Promote(i)
    \/ \E r \in Runs : StartRun(r) \/ Submit(r) \/ Complete(r) \/ Fail(r)
    \/ CloseBoundary
    \/ Archive
    \/ Tick

\* The dispatcher polls, leases end, a session with input runs, a run polls
\* its mailbox before it asks the model, and one with a result completes.
Spec ==
    /\ Init /\ [][Next]_vars
    /\ \A d \in Dispatchers : WF_vars(Dispatch(d))
    /\ \A t \in Tasks : WF_vars(ExpireLease(t))
    /\ WF_vars(mailbox # {} /\ \E r \in Runs : StartRun(r))
    /\ \A i \in Items : SF_vars(Promote(i))
    /\ \A r \in Runs : WF_vars(run[r].result /\ Complete(r))
    /\ WF_vars(CloseBoundary)

-----------------------------------------------------------------------------
Times == 0..(MaxTime + 1)
Rows == [kind : {"new", "once", "cron", "gone"}, next : Times,
         pending : Times \cup {None}, active : Cycles \cup {None},
         lease : Dispatchers \cup {None}, live : BOOLEAN]
CycleStates == [phase : {"none", "admitted", "started"},
                task : Tasks \cup {None}, for : Times, host : Runs \cup {None}]
RunStates == [status : {"none", "active", "completed", "failed"},
              cycle : Cycles \cup {None}, result : BOOLEAN]

(* The types of the variables; and the session has one active run at most.  *)
TypeOK ==
    /\ clock \in 0..MaxTime
    /\ task \in [Tasks -> Rows]
    /\ cycle \in [Cycles -> CycleStates]
    /\ mailbox \subseteq Items
    /\ run \in [Runs -> RunStates]
    /\ boundary \in Runs \cup {None}
    /\ session \in {"active", "archived"}
    /\ claim \in [Dispatchers -> Tasks \cup {None}]
    /\ edits \in 0..MaxEdits /\ troubles \in 0..MaxTroubles
    /\ owed \in [Tasks -> Times \cup {None}]
    /\ lost \subseteq Cycles
    /\ \A r, q \in Active : r = q

(* A task has one live cycle at most, and its fence names it: late claims,  *)
(* edits and results leave neither a second cycle nor a fence that nobody   *)
(* will release.                                                            *)
OneLiveCycle ==
    \A t \in Tasks, c \in Cycles :
        Exists(t) => (task[t].active = c <=>
                      c \in Admitted \cup Started /\ cycle[c].task = t)

(* The dispatcher knows the occurrence that is owed: what comes while a     *)
(* cycle is active is coalesced into the first of it, and nothing else is   *)
(* skipped or forgotten.                                                    *)
OwedIsKept ==
    \A t \in Tasks :
        /\ task[t].kind = "cron" =>
               owed[t] = (IF task[t].pending = None THEN task[t].next
                                                     ELSE task[t].pending)
        /\ task[t].kind = "once" /\ task[t].active = None =>
               owed[t] = task[t].next

(* Occurrences are admitted in their order, each of them once and none      *)
(* before its time.                                                         *)
AdmitsWhatIsOwed ==
    [][\A c \in Cycles :
          cycle[c].phase = "none" /\ cycle'[c].phase = "admitted" =>
              /\ cycle'[c].for = owed[cycle'[c].task]
              /\ cycle'[c].for <= clock
              /\ owed'[cycle'[c].task] # cycle'[c].for]_vars

(* Once it has started, only a result ends a cycle, of the run that it      *)
(* names: not the deletion of its task nor the archival of its session.     *)
StartedIsKept ==
    [][\A c \in Started :
          c \notin Started' =>
              \E r \in Active : /\ r = cycle[c].host /\ run[r].cycle = c
                                /\ ~run[r].result /\ run'[r].result]_vars

(* Admitted and started cycles are not forgotten: a trigger, a run, a       *)
(* continuation or the boundary before it stands for each of them, unless a *)
(* run failed or a user deleted the item.                                   *)
WorkHasFuture ==
    /\ \A c \in Admitted \ lost : Item("trigger", c) \in mailbox
    /\ session = "active" =>
           \A c \in Started \ lost :
               \/ Active # {} \/ boundary # None
               \/ Item("continuation", c) \in mailbox

(* A due task gets its cycle, whatever dispatchers stop with a claim.       *)
DueIsAdmitted ==
    \A t \in Tasks :
        Due(t) /\ task[t].active = None ~> ~(Due(t) /\ task[t].active = None)

(* An admitted cycle starts, or is deleted with its task.                   *)
AdmittedStarts ==
    \A c \in Cycles : c \in Admitted ~> c \notin Admitted \/ c \in lost

(* Leases, items, runs and archival aside, the tasks are those of           *)
(* TaskCycles.                                                              *)
Promise == INSTANCE TaskCycles WITH
    Instants <- Times,
    kind <- [t \in Tasks |-> task[t].kind],
    cycle <- [c \in Cycles |-> [phase |-> cycle[c].phase,
                               task |-> cycle[c].task, for |-> cycle[c].for]]

TasksKeepPromise == Promise!Spec

(* design/scheduled-260816-agent-scheduled-tasks.md: a one-time task "will  *)
(* be deleted when that cycle terminalizes", its own.                       *)
OnceRunsBeforeItIsGone ==
    [][\A t \in Tasks :
          task[t].kind = "once" /\ owed[t] # None /\ task'[t].kind = "gone"
              => \A r \in Runs : run'[r].result = run[r].result]_vars

(* design/scheduled-260816-agent-scheduled-tasks.md: "the recovery-stable   *)
(* binding between one AgentRun and the one cycle its terminal tool may     *)
(* affect".  Does not hold (README, section 5).                             *)
HostsAgree == \A c \in Started : run[cycle[c].host].cycle = c

(* design/scheduled-260816-agent-scheduled-tasks.md: "mailbox_items is the  *)
(* durable authority for admitted trigger and continuation input".  Does    *)
(* not hold (README, section 5).                                            *)
AdmittedHasTrigger == \A c \in Admitted : Item("trigger", c) \in mailbox
=============================================================================
