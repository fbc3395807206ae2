# A TLA+ verification of azents' session core and its schedulers

azents runs AI agents for teams. Users, schedules, other agents and external
channels put work into an *AgentSession*; Worker processes execute it as a
sequence of *AgentRuns*. Everything a user relies on (work is not lost, not
done twice, a stop stops, a session that looks idle is idle) depends on a
protocol between API servers, a scheduler, several Worker processes, PostgreSQL
and Redis. Around it stand a fallback of models that several sessions share, a
scheduler of maintenance tasks with a runtime for their jobs, and the scheduled
tasks of users. This directory models these protocols, checks them with TLC on
small instances, and proves their central facts with TLAPS for every number of
processes, tasks, inputs and runs.

Paths below are relative to `python/apps/azents/src/azents/` unless they start
with `docs/`.

## 1. Inventory

| Component | State it keeps | Operations | Hard behaviour | Correct when |
| --- | --- | --- | --- | --- |
| Durable session record: `repos/session_execution*`, `repos/worker_session.py`, `repos/agent_session`, `repos/agent_execution` | one row per session (run state, owner generation, stop request, command, continuation boundary), its runs | claim a generation, fence a mutation, create, activate and end runs, mark idle | transactions of several Workers and API servers in any order; stale owners | one active run; terminal statuses final; idle only without work |
| Mailbox: `repos/mailbox` | queued inputs in FIFO order | admit, withdraw, promote | admission against idling, withdrawal against promotion | every input is executed or withdrawn |
| Runner and executor: `worker/session`, `worker/run/executor.py` | an asyncio task per session and Worker: inbox, generation, snapshot, stop controller | dequeue, claim, load, prepare, execute, finalize, idle, hand over | an await between any two steps; exceptions; cancellation at shutdown | the owner acts on current facts, and only the owner acts |
| User stop: `worker/session/user_stop_finalizer.py`, `supervisor.py` | durable request and a volatile signal | request, detect, finalize in three transactions | crash between the transactions; a stop that comes early or late | a stop ends the run it was meant for, and no other |
| Idle continuation: `repos/idle_continuation.py` | pointer to the completed run | open at completion, consume once | hand-over and crash in between | one continuation per completed run |
| Broker: `broker/redis.py` | LIST of messages per session, stream of notifications per Worker and a global one, lock and heartbeat keys, cutover barrier | send, route, read, acquire, drain, renew, release, purge | non-atomic sequences of Redis commands, expiry, theft of leases, dead Workers | keys agree; queued messages are announced; work is taken up in the end |
| Worker process: `worker/worker.py` | receive loop, map of runners | dispatch, shut down | shutdown racing with a receive; a dying runner that still gets messages | nothing received is lost for good |
| Stuck recovery: `worker/session/recovery.py` | list of stuck sessions | list, mark running, send | old list, failed send, several Workers at once | repairs every loss, does no harm |
| Cutover replay: `services/team_session_cutover_replay.py` | barrier per session | fence, purge, announce | Workers that still hold notifications and leases | no old owner survives the purge |
| Model candidate health: `repos/model_candidate_health`, `model_candidate_selection.py`, `session_model_availability.py` | per model candidate a cooldown, a generation and a claim; per session a reservation and the operations of its run | fall back on quota errors, probe, reserve, cancel, transfer, expire, recover | several sessions on one candidate; late results; generations that start again after recovery; labels that change under a reservation | late results change nothing; reservations are kept; one bypass per cooldown |
| Scheduler: `scheduler`, `repos/scheduled_task_state` | next run, lease, failure streak per registered task; a loop per process | claim, execute, record, trigger, shut down | a pass whose clock is old; deadline, grace period and lease against each other; a scheduler that dies or is replaced | one attempt at a time; a retry waits for its delay; every claim is settled |
| Job runtime: `job_runtime/local.py` | registry of execution keys, two semaphores, coalesced reruns, detached handlers, all of one process | submit, execute, time out, cancel, detach, close | handlers that ignore their cancellation; close while tasks rerun; close cancelled, twice | keys and permits stay taken until the handler ends; outcomes in time; close leaves nothing |
| User scheduled tasks: `repos/scheduled_task`, `repos/scheduled_task_cycle`, `services/scheduled_task` | a row per task (next and pending occurrence, fence, lease), a cycle state per occurrence under way, triggers and continuations in the mailbox | create, replace, delete, claim, admit, coalesce, start, continue, submit, archive | leases taken over; edits, deletions and archival while a cycle runs; runs that fail | one live cycle per task; no occurrence skipped or repeated; no cycle forgotten |
| Runtime coordination: `runtime`, `proto/` | desired and observed generation of a sandbox | reconcile, observe, repair | late observations | not modelled yet |
| API, services, engine, proxies, clients | | | mostly one transaction, or I/O | not modelled; see section 8 |

How they interact: an API server or the scheduler commits work and the
transition of the session to RUNNING, then sends a wake-up through the broker.
The wake-up carries no data; it makes a Worker look at the durable record. The
Worker holds a lease in Redis, which is only an optimisation, and claims an
*owner generation* in PostgreSQL, which is what later transactions are checked
against. A runner that finds its generation superseded stops without touching
anything. Recovery sends the wake-up again for sessions that claim to be
running and have no fresh heartbeat.

## 2. Modules

| Module | What it is |
| --- | --- |
| `SessionRuns` | Abstract: the runs of a session form a sequence, with one continuation boundary per completed run. |
| `SessionWork` | Abstract: work of a session is owed until an owner is done with it. |
| `TaskCycles` | Abstract: the occurrences of a scheduled task, each worked on by one cycle at most. |
| `CircuitBreaker` | Abstract: a model candidate is closed, open or half-open, and one request at a time may try it. |
| `TaskAttempts` | Abstract: the attempts at a registered task follow one another, as if one process made them. |
| `SessionExecution` | The durable record, mailbox, stop, runner and executor of one session with several Workers. Redis is not trusted: a wake-up may reach any live Worker at any time. |
| `SessionExecution_proofs` | Inductive invariant, safety, action properties and the refinements of `SessionRuns` and `SessionWork`, proved. |
| `SessionBroker` | How wake-ups of one session reach a Worker: Redis keys and queues, receive loops, lease, hand-over, recovery, cutover. What a runner does is reduced to taking up pending work and ending a run. |
| `SessionBroker_proofs` | The lease, types, announced messages and the refinement of `SessionWork`, proved. |
| `CandidateHealth` | Quota fallback of several sessions over shared model candidates: health rows, operations, reservations. |
| `CandidateHealth_proofs` | Types, the history invariant, the three action properties, `OneProbe` and the refinement of `CircuitBreaker`, proved. |
| `CircuitBreaker_proofs` | `OneTrial`, proved for every implementation of `CircuitBreaker`. |
| `JobRuntime` | The Job Runtime of one process: executions by key, two limits, deadlines, detached handlers, close. |
| `JobRuntime_proofs` | Types and four safety invariants, proved. |
| `SchedulerLease` | Several schedulers over the same registered tasks, in discrete time. A job is what `JobRuntime` makes of it for its caller: an outcome by the end of the grace period. |
| `SchedulerLease_proofs` | Types, mutual exclusion of attempts, the delay after failures and the refinement of `TaskAttempts`, proved. |
| `ScheduledTasks` | The scheduled tasks of a user's session, from creation to result. |
| `ScheduledTasks_proofs` | All safety properties and the refinement of `TaskCycles`, proved. |
| `TaskCycles_proofs` | That occurrences advance, proved for every implementation of `TaskCycles`. |
| `MCSessionExecution`, `MCSessionBroker`, `MCCandidateHealth`, `MCJobRuntime`, `MCSchedulerLease`, `MCScheduledTasks` | Instances for TLC: values of the constants, symmetry and state constraints. |

The modules meet at narrow places. `SessionExecution` shows that
safety needs nothing from the broker, so its `Deliver` is unconditional;
`SessionBroker` shows that wake-ups come as long as work is there, with a runner
of a few steps. That the two speak of the same session is stated as `SessionWork`: a
record of what is owed (pending input, an active run), of whether the session is
awake and of whose runner owns it. Both implement it (`OwnersDoTheWork` in each, proved),
the one with every transaction of the runner, the other with every step of the
broker, so neither's runner does anything to the work that the other's may not.
`ScheduledTasks` takes the runs of a session as `SessionExecution` leaves them: one
active at most, completed with a boundary or failed without; and its admissions are
the triggers of `SessionExecution`. `SchedulerLease` relies on `JobRuntime` for the
outcome of a job by its deadline and grace period (`OutcomesInTime`); the dispatcher
whose passes are in `ScheduledTasks` is one of its registered tasks.

### SessionExecution and the code

One action is one transaction, or one synchronous stretch of a runner between
two awaits that matter. `pc[w]` says where the runner of Worker `w` is:

| `pc` | Code |
| --- | --- |
| `none`, `wait`, `claim`, `load` | `SessionRunner._tick`, `SessionRunnerWaiter`, `claim_owner_generation`, the snapshot loader |
| `recover`, `prepareNew`, `prepare` | `RunExecutor._execute` up to the engine: recovery of a leftover run, promotion, creation and cancellation of a PENDING run |
| `engine`, `settle`, `cancelled` | the engine task under `RunTaskSupervisor` and its outcomes |
| `stopMark`, `stopEvents`, `stopClear`, `afterStop`, `discard` | `UserStopFinalizer.finalize` and what the runner does after it |
| `unhandled` | `finalize_unhandled_active_run` |
| `boundary`, `idle` | follow-up check, `mark_session_idle`, idle continuation |

`Fenced(w)` is `fence_owned_session_mutation`: the row is locked and the
generation compared. A transaction that fails it becomes `LoseOwnership`,
`LoadRejected` or `StaleAtIdle`, i.e. `_handle_canonical_execution_error`.
The ordinary admissions lock the session row, so insert and transition are one
step (`Admit`). The scheduled-task admission does not lock a row that is already
RUNNING and is two steps (`TriggerSeesRunning`, `TriggerCommits`).

Abstracted: what is in an input, a transcript or a snapshot; the engine (it ends
completed, interrupted, failed, or is cancelled); retries inside a run; the order
of inputs in the mailbox (any pending input may be promoted, which allows more
than FIFO does); memory consolidation, bridge continuations and archived
routines, which reuse the same generation fence.

### SessionBroker and the code

A Redis command or script is one action, with two reductions: the XADD that
follows the routing script is one step with it, because an entry that comes
later could as well be read later; and the LPOPs of one drain are one step,
because a message that arrives between two of them could as well have come
before the first. Reading and acknowledging a notification are one step, because
nothing ever claims unacknowledged entries again.

Counters of queues saturate: the value `MaxQueue` means "this many or more".
A Worker process that ends gets a new id when it starts again; the id of the dead
one is `Gone`, and so are its stream and its share of the keys.

Time is reduced to what it can bring about. `GrowsStale` (the heartbeat in
PostgreSQL passes the stuck threshold), `HeartbeatExpires` (120 s), `Ages`
with `LockExpires` (30 min) and the idle timeout of a waiting runner (30 min) are
actions. While something is under way that takes seconds (`Busy`), the long ones
do not happen by themselves; a process that is too slow to renew in time is a
*trouble*, and `MaxTroubles` bounds those, with the stops, crashes, failed sends
and drifted snapshots. An idle exit that takes place while work arrives is not
excluded by this: the runner decides to leave in a quiet moment and carries the
decision out whenever it likes.

Abstracted: mailbox activity hints, the live-activity hash and stop signals (no
work depends on them; the durable stop request is in `SessionExecution`), the
24 h and 6 h retention of LIST and streams, and all sessions but one.

### CandidateHealth and the code

Quota fallback touches the session core nowhere but in the lifetime of a run:
`Begin` is the preparation of an operation by `prepare_fresh`, `RunEnds` and
`ForegroundSucceeds` are the terminal transitions of the run. It is a module of
its own, with several sessions, because its subject is what sessions do to each
other's candidates.

Every action is one transaction. `select_model_operation_candidate` locks the
health row of each candidate it looks at and gives up the locks at the commit, so
a walk down a chain sees and claims rows in one step; the session row is locked
before. Background operations (here the compaction of a run) read without locks;
their reads are taken at one moment.

| Model | Code |
| --- | --- |
| `row[c]`, `Healthy` | `model_candidate_health`; no row is generation 0 |
| `cooling`, `live` | whether `cooldown_until` and `claim_until` are in the future |
| `kind`, `owner`, `token` | `claim_kind`, `claim_owner_id`, `claim_token` |
| `foreground[s]`, `compaction[s]` | the two slots of the run's `ModelOperationState`; the claim of an operation is its `transferred_probe_claim` |
| `reservation[s]` | `primary_model_reservation` of the conversation |
| `Matches` | the comparison of generation, kind, owner and token before every settlement of a claim |

Time passes by `CooldownEnds` and `ClaimExpires`. Both intervals are five minutes,
a claim is taken after its cooldown began, and a quota result that renews the
cooldown ends the claim; so a cooldown is over before a claim on it is, which is
the guard of `ClaimExpires`.

An operation is prepared for a label. `Begin(s, o)` takes any option `o`: the one of
the session's label or, in the retry of a failed run, the one of that run's label
(`RETRY_ORIGINAL`, the `override` of `prepare_fresh`), which leaves the session's label
alone. A reservation is transferred only if its label and Primary are those of the
operation (`Transferable`). Two options of one label do not exist at once, hence the
guard. `prepare_fresh` replaces a label that the agent has dropped meanwhile by the
agent's default and stores it; this is the second value of `option'`. Which
labels the agent has dropped is not part of the state, so the model allows it for
every `o`.
Child sessions, which run with their parent's or a spawned profile, carry such
operations in the same way.

Abstracted: what a request needs of a candidate (every candidate of a chain is
compatible); requests that name an outdated reservation generation and repeated
reservations, which change nothing; title, memory and judgment operations, which
read like a compaction and renew like it; deletion of integrations, which removes
rows.

### JobRuntime and the code

`task[k]` says where the task registered for an execution key stands:

| `task` | Code in `job_runtime/local.py` |
| --- | --- |
| `created`, `slotWait`, `poolWait` | `submit`; `_execute` in the wait for the handler's own semaphore and for the Runtime's |
| `entering`, `running` | the container starts; `asyncio.wait` for the handler until the deadline |
| `deadlineGrace`, `cancelGrace` | `_cancel_handler`, after the deadline or after a cancellation of the task |
| `leaving`, `unwinding` | the container closes and the permits go back, with an outcome or with an exception |
| `finished` | the task is done and its key still registered: its handler was detached, or it was cancelled before its first step |

The lock of the registry is never held across an await that may take long, so a
locked section is part of the step it ends. `asyncio.gather` in `close` passes a
cancellation on to what it gathers and raises only when all of that is done; so
`CloseCancelled` may come again while it waits. Abstracted: payloads, outcomes
other than their existence, and waits of callers.

### SchedulerLease and the code

Times are distances from now, in poll intervals, and saturate at `MaxAge`. The clock
of a pass is read once, in `run_once`; `age[s]` is how old it is, and leases
(`Claim`) and deadlines (`JobFor`) are computed from it, as in the code. Time passes
while schedulers sleep or wait for a job. A timer is punctual: `Tick` does not pass
a deadline or the end of a grace period (that is the assumption under which the
30 seconds of `Margin` are enough). A process that ends loses its handlers and
comes back with another identity (`scheduler_id` is a new uuid); until it ends, a
loop that was shut down leaves its job running. Abstracted: what tasks do, and
disabled tasks.

### ScheduledTasks and the code

An action is a transaction. `task[t]` is the row in `scheduled_tasks`: `next` is
`next_eligible_at`, `pending` is `pending_scheduled_for`, `active` the fence
`active_cycle_id`, `lease` the owner and token, `live` whether `lease_until` is in the
future. `cycle[c]` is the cycle's state in the Toolkit State, with its `host` run;
`run[r].cycle` is the binding of a run.

Time is counted in occurrences: every instant is one of the cron schedule, so a
recurring task that was moved on is due again after one `Tick`. `Claim` is
`claim_due` for one task; `Fenced` is what `lock_claimed_by_id` compares. The branch of
`admit_claimed` for a one-time task that has a cycle is left out: such a task is not
claimed, and a claim on it does not survive the admission.

`promote` takes all items of the mailbox in one loop; the model takes them one by
one and in any order, which allows more. A run that starts clears the boundary
and one that completes sets it, whether or not it has to do with scheduled tasks:
`StartRun` also stands for runs of other input. A continuation is created for every
started cycle when the boundary closes with an empty mailbox.

Abstracted: names, prompts and results; the kind of a provider; bindings to
external channels (their loss is `DeleteUnauthorized`); purge and restore of
archived sessions; routines; trackers and progress messages.

## 3. What must hold

Of a session (`SessionExecution`):

* `IdleMeansNoWork`: an idle session has no command, active run or stop request,
  and no pending input but one from the unlocked admission.
* `AtMostOneActiveRun`, `EngineOwnsItsRun`: however many runners believe they own
  the session, it has one unfinished run, and the engine of the current owner is
  executing that one.
* `SnapshotIsCurrent`: what the owner loaded in an earlier transaction still is
  the durable state when it acts on it.
* `TerminalRunsAreFinal`, `BoundaryOpensAtCompletion`, `PromotedIntoActiveRun`:
  what a step may never do to a finished run, to the continuation pointer, to an
  input.
* `OwnersDoTheWork`: the whole implements `SessionWork`: anybody may bring work and
  wake the session, only the Worker of the latest claim begins a run, ends it or
  lets the session rest, and the session rests when nothing is left. Scheduled
  inputs are outside this promise, because their admission takes no lock (section 5).
* `RunsFormASequence`: the whole implements `SessionRuns`, under the mapping
  `resting` = the session is IDLE, `active` = its PENDING or RUNNING run,
  `finished` = its runs with a terminal status, `boundary` = the continuation
  pointer.

Of its wake-ups (`SessionBroker`):

* `KeysAgree`: the heartbeat key never vouches for anyone but the lock's holder,
  although the keys expire apart, are renewed apart, and leases are stolen.
* `QueuedIsAnnounced`: until something fails, a queued message has a notification
  in a stream, in the hands of a Worker, or about to be sent.
* `PurgedLeaseStaysFree`: from the purge of a cutover replay to its wake-up, no
  Worker gets the lease back.
* `OwnersDoTheWork`: the same `SessionWork`, with the current runner's Worker as owner.
* `SessionRests`: after any bounded number of troubles the session ends idle with
  no pending input and no active run.

Of model candidates (`CandidateHealth`):

* `CandidatesAreBreakers`: the whole implements `CircuitBreaker`, under a mapping that
  shows of a health row its state, and whose authority to try it is, and of an
  operation where it was sent and by which grant. Labels, chains, compactions and
  the compare-and-set of every settlement are hidden by it; that a stale operation
  settles nothing is what makes it a refinement.
* `OneProbe`: no two sessions hold the probe of a candidate, so no two of them decide
  about its recovery.
* `SupersededChangesNothing`: once the candidate of a claim has moved to another
  generation, neither a late success nor a late quota error of its operation
  changes the row. Generations alone would not give this: recovery deletes the
  row, and the next quota error starts at generation 1 again, although the design
  document calls the generation monotonic. The token of the claim does.
* `PrimaryNextIsKept`: a session that is shown `primary_next` loses it by its own
  doing, by a quota error on the candidate or at the end of the lease, never by
  what another session does. The next operation that it begins for its own label goes
  to the Primary and holds the claim; the retry of a run of another label passes the
  reservation by and leaves it as it is.
* `BypassIsOneShot`: from one quota error on a candidate to the end of the
  cooldown, the operations of all sessions together are sent to it at most once,
  and only for a reservation.

Of jobs (`JobRuntime`):

* `OneRunPerKey`, `CapacityHolds`, `HandlersOwned`: a handler that has lost its caller
  keeps its key, its permits and its container until it ends, and has a task that
  waits for it and will close the container: its own or, once it is detached, a
  cleanup that exists. `interrupted` records the handlers for which this is not so,
  and both of its causes are a cancellation of `close` (section 5): in the grace
  period of a handler, or before the first step of its cleanup. `HandlersOwned`
  excepts both; `CapacityHolds` the former only, since the latter keep their permits.
* `ClosedIsQuiet`, `CloseReturns`: a `close` that returns leaves nothing, and it
  returns if handlers end; but for a task that was cancelled before its first step,
  whose key nobody removes (section 5).
* `OutcomesInTime`: no handler can keep its caller, or those that wait for its
  permits, from an outcome. Submissions are bounded (`MaxSubmits`): the first caller's
  outcome comes when the executions coalesced with its own are done, so callers
  without end could put it off, and the property says nothing about those. `CoalescedRuns`: a coalesced request is run afterwards.

Of registered tasks (`SchedulerLease`):

* `OneAttempt`: a task is not run by two schedulers at once, although leases and
  deadlines are counted from a clock that is old when they are granted, and although
  a process that was shut down still has its job. What it needs is `Grace < Margin`.
* `AttemptsFollowOneAnother`: the whole implements `TaskAttempts`, which knows of one
  process only: an attempt is made when the task is due and nobody works at it, its
  own result sets the next time, and an attempt whose result is lost is followed by
  another. The mapping takes the attempt at a task from the lease in its row and from
  any handler that works at it, so that a second handler would be seen. Part of it is
  `DelayFitsStreak`: the delay is computed from the streak that the claim returned, and
  still fits the streak that the row counts.
* `ClaimIsSettled`: whoever dies, every claim is settled by someone.

Of scheduled tasks (`ScheduledTasks`):

* `OneLiveCycle`: the fence of a task and its live cycle name each other, both ways.
* `OwedIsKept`, `AdmitsWhatIsOwed`: `owed[t]`, a history variable, says which
  occurrence comes next by the definition; the row knows it at any time, and it is
  what is admitted, when it is due, once.
* `StartedIsKept`: a cycle that has started ends with the result of the run it
  names, whatever is edited, deleted or archived.
* `WorkHasFuture`: something stands for every admitted and every started cycle, so
  that it will go on, but for those in `lost`.
* `TasksKeepPromise`: the whole implements `TaskCycles`, which knows of no lease, mailbox
  item, run or archival: an occurrence is owed, admitted when it is due and nothing
  is under way, started, and ended with its result.
* `DueIsAdmitted`, `AdmittedStarts`: due tasks get a cycle and cycles start.

## 4. Runs

| Run | Instance | Shows |
| --- | --- | --- |
| `ownership` | 2 Workers, an ordinary and a scheduled input, 2 runs, 2 generations, one crash or recovery at a time, no stop or command; the scheduled input and withdrawals with one Worker and no trouble | ownership changes in every state of a boundary; admission, withdrawal, promotion; refinement of `SessionWork` |
| `stops` | 1 Worker, 1 input, 2 runs, 2 generations, everything enabled | stop, command, shutdown, error and retry against a runner and its successor; idling with no work left; refinement of `SessionRuns` |
| `lease` | 2 Workers, 2 admissions, 2 troubles, queues of 2 | keys and announcements; refinement of `SessionWork` |
| `recovery` | 2 Workers, 1 admission, 2 troubles, one of which may be a cutover replay, fair | every single and double failure is repaired; the replay against running Workers; rest after it |
| `health` | 2 sessions, 2 candidates, labels with the chains `<<c1, c2>>` and `<<c2>>`, operations for either of them, compactions on `<<c2>>`, of one session at a time, 5 identifiers | late results, reservations against probes of another session, bypasses of a cooldown; refinement of `CircuitBreaker` |
| `jobs` | 2 keys of a handler that reruns and has a limit of 1, 2 keys of one with neither; 2 permits, 4 submissions, 2 cancellations of close | capacity, ownership and outcomes of executions; close |
| `scheduler` | 2 schedulers, a task of timeout 3 before one of timeout 1, margin 2, grace 1, delays 1 and 2, 1 trouble | leases and deadlines of old passes; takeover; refinement of `TaskAttempts` |
| `user_tasks` | 2 tasks, 2 dispatcher passes, 2 cycles, 2 runs, 4 instants, 1 edit or deleted item, 1 trouble; the second task is created shortly before the clock ends | fences, occurrences and cycles of one session |
| `user_tasks_live` | the same with 1 task and 3 instants, fair | due tasks are admitted and cycles start; refinement of `TaskCycles` |
| `idle_stranding`, `close_cancelled`, `once_lost` | as above, smaller | section 5 |

Why these bounds are enough to be interesting. Two Workers are an old and a new
owner; a third would be another old one, which the proofs cover for ownership. Two
runs give a run and its successor, the shortest case where a stop, a boundary or a
status could leak from one to the next. `MaxGen` = 2 lets the session be taken
over once. Two admissions let work arrive while earlier work ends. Two troubles
allow a failure during the repair of another, e.g. a Worker that dies after the
recovery pass refreshed the heartbeat and before it sent the wake-up. In `health`,
two sessions are the holder of a claim and its rival, `c2` is shared by a Primary,
a fallback and compactions, and `MaxMinted` bounds the operations begun, claims
and quota results: five are the least with which a generation comes back while an
operation of its earlier life is still under way. A compaction whose only
candidate fails is exhausted in this instance; walking on is the same definition
as for a foreground operation with two candidates, and the proofs cover every
chain. In `jobs` both limits are reached with keys left over, so that somebody waits
at each of them; four submissions are an execution, its coalesced rerun and two
rivals. In `scheduler` the first task takes longer than the lease of the second, which
is the case where the clock of a pass is old; two tasks make a pass, and a longer one
only makes it older, up to `MaxAge`. In `user_tasks` two passes are a claim and the one
that takes it over, two tasks compete for the cycles and bindings of one run, and
four instants are an admission, two coalesced occurrences and the one after them.
The refinement of `TaskCycles` is evaluated on the instance with one task, because TLC
takes several times as long for a refinement as for an invariant: tasks do not
depend on each other there, and the proof covers them all.
A property that a checked refinement contains has a theorem and no run of its own:
`TerminalRunsAreFinal`, `OneProbe`, `DelayFitsStreak`, `AdmitsWhatIsOwed`.
The constraints `Ownership` and `OneTrouble` of `MCSessionExecution`, `OneCompaction` of
`MCCandidateHealth` (compactions hold no claim) and `Horizon` of
`MCScheduledTasks` cut an instance down to the question of its run; no property
mentions them, and the safety properties are proved without them. Symmetry is used
in safety runs only, and constraints in none with a liveness property.

`CHECK_DEADLOCK FALSE` but for `scheduler`: with inputs, runs, generations, submissions
or instants used up, the system rests. The schedulers never do.

For every property of a passing run, `PROJECT.json` names a variant of one
definition (dropping a guard or a comparison, swapping two steps, looking at too
little) under which TLC finds the property violated. The variants stand in the
modules, next to the definition each one changes.

### Fairness

`FairSpec` of `SessionBroker` assumes weak fairness of: a send that began
(unless it fails, which is a trouble); the receive loop, the runner and the
recovery pass of each Worker, which are tasks of a live event loop; the end of a
stopping Worker and the start of a new one (the deployment's supervisor); the
remaining steps of a replay; and the passing of time (staleness of the durable
heartbeat, expiry of unrenewed keys). Nothing is assumed of users, of troubles or
of optional steps such as renewals. No strong fairness is needed there.

`Spec` of `JobRuntime`: the event loop runs every task that can go on, and deadlines
and grace periods end. A permit may be taken by another waiter each time; but waits
end at their deadline, which is one of the steps. Nothing makes a handler end.

`Spec` of `SchedulerLease`: loops poll, jobs end by their deadline, time passes, and a
process that was shut down ends. `Spec` of `ScheduledTasks`: the dispatcher polls and
its leases end; a session with input starts a run and a completed run's boundary
closes (that this happens is `SessionRests` of `SessionBroker`); a run that has a
result completes. The promotion of an item needs strong fairness: it is possible
whenever a run polls, and runs come and go; every run polls its mailbox before it
asks the model, and takes all that is there. Nothing is assumed of results, edits,
failures or time.

## 5. Where the code and its documents disagree

The first three have a run that TLC ends with a counterexample.

1. `idle_stranding`: the scheduled-task admission can commit its input into a
   session that was marked idle in between. Idle sessions are not recovered, and
   a wake-up that loads one is rejected, so the input waits for the next event.
2. `close_cancelled`: a cancellation of `close` reaches a task whose handler is in its
   grace period. The task unwinds: the container is closed under the running handler
   and its permits go back, and no cleanup task is left with it. A test of a
   handler that is already detached says "Cancelled shutdown cannot release resources
   before a handler settles"; the handler of the grace period is not covered by it.
   The opposite happens to a cleanup task that is cancelled before its first step:
   it never runs, so the container of its handler stays open and its permits stay
   taken for good.
3. `once_lost`: a recurring task is edited into a one-time task while its cycle runs.
   The fence stays, so the result of that cycle deletes the task as if it were the
   result of its own occurrence, which never runs.

More were met while modelling. They are behaviours of the models, too, and the
formulas named here stand in the modules; checked as an additional property of the
run in brackets, each gives a counterexample.

* A stop is marked in one transaction and cleared in another. If the Worker dies in
  between, the request is still set and stops the next run, although
  `docs/azents/spec/flow/run-resume.md` says that it "must not interrupt the next
  wake-up". A stop that is finalized while its run is PENDING finds no RUNNING run,
  is cleared, and the next wake-up executes the run.
* `NoForeignRun` (`lease`): a runner that idled out checks its generation and then
  releases the lock if its *Worker* holds it. In between, the Worker's receive loop
  took the lease again for a new wake-up and its next runner started; the release
  drops that lease, and a second Worker owns the session with a live heartbeat while
  the first executes it. The generation fence keeps this safe
  (`AtMostOneActiveRun` and `EngineOwnsItsRun` do not rely on the lease), but "a
  non-owner worker must not process a session" does not hold.
* `ReceivedIsLeftBehind` (`lease`): messages popped when shutdown wins over a receive
  are dropped, with the lease taken for them, and come back only through the stuck
  scan.
* `CancelRevokes` (`health`): a reservation is cancelled at the Primary of the *current*
  label. After a change of label the claim is elsewhere: it is found stale, the
  reservation is cleared, and the reserved candidate stays claimed until its lease is
  over. Archiving uses the candidate that the reservation names.
* `NeverBegan` of `JobRuntime`: a task that is cancelled before its first step never
  enters the `try` of `_run_tracked`, so its key stays registered and a `close` that
  goes on afterwards gathers the same done task for ever. It takes a cancellation
  of `close` right after a submission.
* `HostsAgree` (`user_tasks`): a run that takes the items of two cycles is bound to the
  second. The first cycle still names it as its host; its result cannot be submitted
  by that run, and `_has_preservable_host` raises on it while it lasts.
* `AdmittedHasTrigger` (`user_tasks`): a user may delete any pending item of the mailbox,
  the trigger of a cycle included. The cycle stays admitted and the fence set, so a
  one-time task never runs and a recurring one coalesces for ever, until it is edited
  or deleted. `mailbox_items` is "the durable authority" for triggers by
  `docs/azents/design/scheduled-260816-agent-scheduled-tasks.md`.
* In `SchedulerLease`, a claim by a pass older than the task's timeout expires when it
  is submitted and is recorded as a failure, which counts for the streak; and the
  settlement of an attempt overwrites a manual trigger that arrived during it.

Three more things are seen in `CandidateHealth` and are no disagreement: a run that
ends without a result, or begins another operation, leaves its claim to its lease
(`RunEnds`, `Begin`); and when a reservation is transferred and the compaction
chain is exhausted, the transfer is committed while the session keeps its
reservation, which no longer matches the row (`BeginReserved`). A third is that a
retry for another label leaves `primary_next` shown while its own operation goes
elsewhere (`BeginUnreserved`); the documents promise the reservation to the next
operation of the same label and Primary only.

## 6. What is proved

`SessionExecution_proofs`, for all sets `Workers`, `Inputs`, `Triggers`, `Runs`
and all bounds, from `ConstantsAssumption` alone.

The properties are not inductive one by one: that the run an owner prepares is the
only active one needs that nobody else acts as owner, which needs that generations
are unique, and that its session is running needs that only the owner idles it. So
`Inv` is the conjunction of `TypeOK`, `GenerationsAreExclusive` (a generation
names one runner, and none is from the future), `IdleMeansNoWork`,
`AtMostOneActiveRun`, `OwnerPreparesItsRun` (the session is running and the run
being prepared is active), `SnapshotIsCurrent` and `EngineOwnsItsRun`. The
runs `ownership` and `stops` check its parts but `GenerationsAreExclusive` and
`OwnerPreparesItsRun`, which only the proof needs (TLC finds `Inv` to hold on both
instances, too). The argument:

* types, one lemma per group of actions, `TypeStep`;
* `GenerationsStep`: a claim takes a number greater than all others; hence
  `OneOwner`: two runners are never both fenced in;
* `OnlyCreationsActivate`: a run becomes active by `CreatePendingRun` or
  `RetryFailedRun` and by nothing else, and both need that none is: `OneRunStep`;
* `IdleStep`: the session becomes idle in the two transactions that look at the
  work under the row lock, and what adds work sets it running;
* what the owner relies on, for one Worker at a time: the environment does not
  disturb it (`EnvironmentOwners`), another Worker's steps do not, or end its
  ownership (`OtherOwners`), and its own steps establish it (`OwnStep`);
* `InvStep` puts these together.

From `Invariance` follow `TypeCorrect`, `IdleSessionsHaveNoWork`, `OneActiveRun`,
`SnapshotsAreCurrent`, `EnginesOwnTheirRuns`, the action properties
`FinalStatuses`, `PromotionsHaveARun`, `BoundariesOpenAtCompletion`, and
`ImplementsSessionRuns`: initial states map to initial states (`RefineInit`) and
every step to a step of `SessionRuns` or a stutter (`RefineStep`).
`ImplementsSessionWork` is proved by actor (`WorkRequested`, `WorkExecuted`, `WorkIdles`,
`WorkProcessed`); what it takes from `Inv` is that a runner whose fence passes is the one
owner, whom the next claim displaces, and that a run is begun in a running session.

`SessionBroker_proofs`, from `BrokerAssumption`: `KeysAlwaysAgree`, which is
inductive by itself, and `PurgedLeaseAlwaysStaysFree`, which needs that a replay
under way holds its barrier. Both rest on a lemma that says which steps write the
lease (`LeaseStep`) or the replay's state (`ReplayStep`) at all. `TypeCorrect` goes
through the actions by their actor. `QueuedAlwaysAnnounced` is inductive with
`Untroubled`: until the first trouble the lock names no dead Worker, whose stream
would swallow a notification, no Worker stops and no replay is under way. Without
the part about the lock the proof fails where a wake-up is forwarded or routed.
`ImplementsSessionWork` needs the types only: one lemma for each actor
(runner, process, API, recovery, replay) says what it may do to the record. `RestsOnlyWhenDone` follows from `SessionWork` alone: `WorkRests` is about
its actions and none of the broker's, and its conclusion carries over.

`CandidateHealth_proofs`, for all sets of sessions, candidates and options and for
all chains, from `HealthAssumption`: chains are not empty and name no candidate
twice (`ModelOperationSnapshot.validate_chain`), and identifiers are not sessions.
All properties of the run are proved. `NextMoves` sums the actions up: a step
moves one health row in one of the ways of `RowMove`, each with what it
presupposes, at most renews another, and changes an operation as `OperationMove`
allows. From this, without looking at the actions again, follow

* `TypeStep`, hence `TypeCorrect`, with the CHECK constraint of the table;
* `HistoryStep`: a token names one claim on one candidate; a superseded token is on
  no row and no step brings it back; a candidate that was bypassed is probed, with
  a live claim, as long as it cools. `HistoryInv` is needed because generations
  are not enough: it is what makes `Matches` fail for every late result.

`SupersededAlwaysChangesNothing` and `BypassAlwaysOneShot` follow from
`HistoryInv`, the former with `PassedIsKept` (a selection that goes on does not come
back to a candidate it has passed, because chains name none twice).
`PrimaryNextAlwaysKept` needs the types only; it goes through the actions by
their actor: runs, users, time, and splits `Begin` by whether its option is the
session's own.

`ImplementsCircuitBreaker` needs one fact more, `ClaimsAgree`: a row that carries the
token of an operation carries the rest of its claim too, so that the token alone, the
number of a grant in `CircuitBreaker`, decides what `Matches` compares. It is
inductive with the history invariant (`ClaimsStayAgreed`, again without looking at
the actions). `RowViews` says how each operation on a row shows, `SelectionShows` that a
walk down a chain shows as a selection, and one lemma per action does the rest.
`CircuitBreaker_proofs` proves of the abstract breaker alone that requests never share
a grant, hence `OneTrialAlways`; `OneProbeAtATime` carries this over to operations and
rows along the refinement.

`JobRuntime_proofs`, for all keys, handlers and limits, from `JobAssumption`. `IInv` says
for each key which combinations of task, cleanup, handlers and container there are
(`Shapes`), and that permits are conserved: those that are free and those that
executions hold, counted as a set, make up the limit. The latter is what
`CapacityHolds` needs, and it must count the executions that wait, enter and leave
as well as those that run. `PoolMoves` and `SlotMoves` say which steps move a permit;
`PoolMoveBalances` and `SlotMoveBalances` are the arithmetic. A cancellation may lose a
slot (a waiter for the pool keeps it), so slots are conserved as an inequality.

`SchedulerLease_proofs`, for all tasks and schedulers, from `SchedulerAssumption`:
`OneAttempt` is not inductive. What is inductive is that the lease of a job outlasts
it by exactly `Margin`, in the name of its scheduler, until it can be taken over
(`Leased`), and that no handler runs beyond its deadline or its grace period
(`Punctual`): a lease that another scheduler may take is over, hence so is the job.
`DelayAlwaysFits` needs that the streak of the row does not
change while the lease is held (`Informed`). `Grace < Margin` is an assumption on the
constants (5 and 30 seconds in the code).

`ImplementsTaskAttempts` rests on the same three facts. `AttemptSeen` says that under
them the attempt at a task is that of the one scheduler whose lease it is (`Seen`).
`Leased` and `Punctual` are why a lease is taken over only when nobody works at the
task (`ClaimShows`) and why a job starts and ends under its lease (`JobShows`); `Informed` is
why the delay of a failure is that of the streak in the row (`RecordShows`). A crash, a
shutdown and a record that fails lose the attempt, or concern none (`LosesAttempt`).
`AttemptedOnlyWhenDue` is a law of `TaskAttempts`, proved along its steps and carried
over: nobody attempts a task before its time.

`ScheduledTasks_proofs`, for all tasks, passes, cycles and runs, from `TasksAssumption`.
`IInv` is `TypeOK` and three parts that are proved one after the other:

* `Fences`: `OneLiveCycle`, and a task that does not exist yet has no cycle.
  `FenceFrame` disposes of the steps that keep fences; `FencesAfterRemoval` shows that
  the removal of an admitted cycle concerns no other task.
* `Occurrences`: `OwedIsKept`; a leased task is due, and recurring if it has a cycle
  (`Leases`), which is why a fenced claim admits in time; and nothing is coalesced
  without a cycle. `KnownFrame` reduces each step to the rows it writes.
* `Work`: `WorkHasFuture`, and only admitted cycles have a trigger (`Triggered`), which
  is why the items that a failed run leaves are continuations.

From it follow the invariants, and `OccurrencesInOrder` (`AdmitsWhatIsOwed`);
`StartedAlwaysKept` needs the types only.

`ImplementsTaskCycles` maps every transaction to a step of `TaskCycles` or a stutter.
That admission finds no other cycle of the task under way is `Fences`, that it admits
what is owed, when it is due, is `Occurrences`; `CyclesHaveTask` is needed besides, for
the steps that a cycle takes on its own. `TaskCycles_proofs` proves of the abstract
specification alone that a recurring task works through its schedule
(`OccurrencesAlwaysAdvance`). The order is not inductive by itself: nothing may be
admitted early, and a recurring task must owe something. `SchedulesAdvance` is the
instance of it here.

Only model-checked: liveness (`SessionRests`, `OutcomesInTime`, `CoalescedRuns`,
`CloseReturns`, `ClaimIsSettled`, `DueIsAdmitted`, `AdmittedStarts`; fairness is out of the
prover's reach), and the disagreements of section 5, which are counterexamples. ENABLED,
induction over data and RECURSIVE operators are out of the prover's reach as well;
the modules use none of them.

## 7. Plan

Modelled: the session core, the broker, candidate health, the job runtime, the
scheduler, and the scheduled tasks of users. Next:

1. `SessionDispatch`: `SessionBroker` as the provider of `Deliver` in
   `SessionExecution`. Their common interface `SessionWork` says that they agree on the
   record; what is left is liveness, e.g. the wake-up lost to `discard_wake_ups` as a
   property that needs recovery.
2. `RuntimeCoordination`: desired and observed generation of a runtime.
3. Archival, purge and restore of sessions with cycles under way, with the lifecycle
   fences of `repos/lifecycle_target.py`; bindings and their termination.
4. Routines, as a second source of triggers.

## 8. What is not modelled, and why

The engine (what a turn computes, tool calls, compaction, provider streaming) is
represented by its outcomes. API handlers are represented by the transactions they
run on a session; their validation and authorisation are not. Retention, exchange
files, git worktrees, memory, OAuth, external channels and catalogs are mostly
single transactions on records the session core does not read. The LLM proxy, the
runtime providers, runner, proxies and gateways are adapters to I/O. The in-memory
broker of single-process deployments has no failures of its own. Web clients,
charts and generated protocol clients hold no protocol state. `PROJECT.json` lists
each of them as a component with its reason, and every hazard found in the code
that is modelled or planned, at its line.

## 9. Running it

    tlc -config MCLease.cfg MCSessionBroker
    tlc -config MCOwnership.cfg MCSessionExecution
    tlc -config MCHealth.cfg MCCandidateHealth
    tlc -config MCJobs.cfg MCJobRuntime
    tlc -config MCScheduler.cfg MCSchedulerLease
    tlc -config MCUserTasks.cfg MCScheduledTasks
    tlc -config MCUserTasksLive.cfg MCScheduledTasks
    tlapm SessionExecution_proofs.tla
    tlapm SessionBroker_proofs.tla
    tlapm CircuitBreaker_proofs.tla
    tlapm CandidateHealth_proofs.tla
    tlapm JobRuntime_proofs.tla
    tlapm SchedulerLease_proofs.tla
    tlapm TaskCycles_proofs.tla
    tlapm ScheduledTasks_proofs.tla
