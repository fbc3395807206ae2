-------------------------- MODULE SessionExecution --------------------------
(***************************************************************************)
(* One AgentSession executed by several Worker processes.                  *)
(*                                                                         *)
(* The durable record (PostgreSQL) is the row of the session, its runs and *)
(* its mailbox.  Every Worker may hold a SessionRunner for the session, an *)
(* asyncio task that dequeues wake-ups, claims an owner generation and     *)
(* drives one execution boundary per wake-up.  A transaction is one        *)
(* action; between two awaits of a runner any other action may happen.     *)
(*                                                                         *)
(* The Redis broker is not trusted here: a wake-up may reach any live      *)
(* Worker at any moment (its own module, SessionBroker, models the lease). *)
(* What this module shows therefore rests on the owner-generation fence of *)
(* the durable record alone.  Live projection, transcript contents, model  *)
(* and tool calls are abstracted to the choices they lead to.              *)
(***************************************************************************)
EXTENDS Naturals, FiniteSets

CONSTANTS
    Workers,    \* Worker processes
    Inputs,     \* mailbox items that may be admitted (wake_session mode)
    Triggers,   \* those admitted by the scheduled-task dispatcher
    Runs,       \* AgentRun identities
    NoRun,      \* "no AgentRun" (NULL)
    MaxGen,     \* bound on owner-generation claims
    MaxInbox    \* bound on the wake-ups queued in one runner

ASSUME ConstantsAssumption ==
    /\ Triggers \subseteq Inputs
    /\ NoRun \notin Runs
    /\ MaxGen \in Nat
    /\ MaxInbox \in Nat \ {0}

VARIABLES
    ownerGeneration, \* execution_owner_generation of the session row
    runState,        \* run_state of the session row
    stopRequested,   \* stop_requested_at is not NULL
    pendingCommand,  \* pending_command_id is not NULL
    mailbox,         \* state of every mailbox item
    admitting,       \* triggers of open transactions that saw RUNNING
    run,             \* status of every AgentRun
    pendingIdle,     \* pending_idle_continuation_run_id
    tail,            \* an actionable event follows the last run marker
    stopSignal,      \* a SessionStopSignal is in the broker
    pc,              \* where each Worker's runner is
    gen,             \* the runner's owner_generation, 0 before its claim
    inbox,           \* wake-ups queued in the runner
    userStop,        \* user_stop_requested of the runner's stop controller
    mode,            \* "on", "closing" (runner_shutdown), "down" (Worker)
    cmd,             \* the snapshot's command is still to be cleared
    cur,             \* the runner's AgentRun
    idleRun,         \* the snapshot's pending idle continuation run
    goal,            \* disposition of the boundary being settled
    stuck            \* the Worker's recovery pass has listed the session

durable == <<ownerGeneration, runState, stopRequested, pendingCommand,
             mailbox, admitting, run, pendingIdle, tail>>
runner == <<pc, gen, inbox, userStop, mode, cmd, cur, idleRun, goal>>
vars == <<durable, stopSignal, runner, stuck>>

-----------------------------------------------------------------------------
RunStates == {"idle", "running"}
ItemStates == {"absent", "pending", "promoted", "withdrawn"}
ActiveStatuses == {"pending", "running"}
TerminalStatuses ==
    {"completed", "failed", "stopped", "interrupted", "cancelled"}
RunStatuses == {"absent"} \cup ActiveStatuses \cup TerminalStatuses

PreparePcs == {"prepareNew", "prepare"}
StopPcs == {"stopMark", "stopEvents", "stopClear"}
\* Inside _process_message, after the snapshot was loaded.
LoadedPcs == {"recover", "engine", "settle", "cancelled", "afterStop",
              "discard", "unhandled"} \cup PreparePcs \cup StopPcs
\* From the claim of a generation to the end of the boundary.
ClaimedPcs == {"load", "boundary", "idle"} \cup LoadedPcs
Pcs == {"none", "wait", "claim"} \cup ClaimedPcs
Modes == {"on", "closing", "down"}
Goals == {"none", "mark", "consume", "stop", "record", "error"}

ActiveRuns == {r \in Runs : run[r] \in ActiveStatuses}
PendingInputs == {i \in Inputs : mailbox[i] = "pending"}
TheActiveRun == IF ActiveRuns = {} THEN NoRun
                ELSE CHOOSE r \in ActiveRuns : TRUE
TheRunningRun == LET R == {r \in Runs : run[r] = "running"}
                 IN  IF R = {} THEN NoRun ELSE CHOOSE r \in R : TRUE

Unfenced(w) == TRUE \* mutant: the generation is not compared
(* fence_owned_session_mutation: the row is locked, the generation equal.  *)
Fenced(w) == gen[w] = ownerGeneration

Goto(w, p) == pc' = [pc EXCEPT ![w] = p]

Init ==
    /\ ownerGeneration = 0
    /\ runState = "idle"
    /\ stopRequested = FALSE
    /\ pendingCommand = FALSE
    /\ mailbox = [i \in Inputs |-> "absent"]
    /\ admitting = {}
    /\ run = [r \in Runs |-> "absent"]
    /\ pendingIdle = NoRun
    /\ tail = FALSE
    /\ stopSignal = FALSE
    /\ pc = [w \in Workers |-> "none"]
    /\ gen = [w \in Workers |-> 0]
    /\ inbox = [w \in Workers |-> 0]
    /\ userStop = [w \in Workers |-> FALSE]
    /\ mode = [w \in Workers |-> "on"]
    /\ cmd = [w \in Workers |-> FALSE]
    /\ cur = [w \in Workers |-> NoRun]
    /\ idleRun = [w \in Workers |-> NoRun]
    /\ goal = [w \in Workers |-> "none"]
    /\ stuck = [w \in Workers |-> FALSE]

-----------------------------------------------------------------------------
(* The API servers and the scheduler: transactions on the session row.     *)

(* Human input, agent mailbox message or event: the row is locked before   *)
(* the item is inserted, so insert and wake transition are one step.       *)
Admit(i) ==
    /\ i \notin Triggers
    /\ mailbox[i] = "absent"
    /\ mailbox' = [mailbox EXCEPT ![i] = "pending"]
    /\ runState' = "running"
    /\ UNCHANGED <<ownerGeneration, stopRequested, pendingCommand, admitting,
                   run, pendingIdle, tail, stopSignal, runner, stuck>>

(* The scheduled-task dispatcher does not lock the row.  Its conditional   *)
(* update takes the row only when it still reads an idle session ...       *)
AdmitTriggerToIdle(i) ==
    /\ i \in Triggers
    /\ mailbox[i] = "absent"
    /\ runState = "idle"
    /\ mailbox' = [mailbox EXCEPT ![i] = "pending"]
    /\ runState' = "running"
    /\ UNCHANGED <<ownerGeneration, stopRequested, pendingCommand, admitting,
                   run, pendingIdle, tail, stopSignal, runner, stuck>>

(* ... and matches no row when it reads a running one: nothing is locked,  *)
(* and the inserted item becomes visible when the transaction commits.     *)
TriggerSeesRunning(i) ==
    /\ i \in Triggers \ admitting
    /\ mailbox[i] = "absent"
    /\ runState = "running"
    /\ admitting' = admitting \cup {i}
    /\ UNCHANGED <<ownerGeneration, runState, stopRequested, pendingCommand,
                   mailbox, run, pendingIdle, tail, stopSignal, runner, stuck>>

TriggerCommits(i) ==
    /\ i \in admitting
    /\ admitting' = admitting \ {i}
    /\ mailbox' = [mailbox EXCEPT ![i] = "pending"]
    /\ UNCHANGED <<ownerGeneration, runState, stopRequested, pendingCommand,
                   run, pendingIdle, tail, stopSignal, runner, stuck>>

(* The user deletes a queued message; the session row is not touched.      *)
Withdraw(i) ==
    /\ mailbox[i] = "pending"
    /\ mailbox' = [mailbox EXCEPT ![i] = "withdrawn"]
    /\ UNCHANGED <<ownerGeneration, runState, stopRequested, pendingCommand,
                   admitting, run, pendingIdle, tail, stopSignal, runner,
                   stuck>>

TakesCommandAnytime == ~pendingCommand \* mutant: also from a running session
TakesCommand == runState = "idle" /\ ~pendingCommand

(* A manual command such as compaction: accepted by an idle session only.  *)
EnqueueCommand ==
    /\ TakesCommand
    /\ pendingCommand' = TRUE
    /\ runState' = "running"
    /\ UNCHANGED <<ownerGeneration, stopRequested, mailbox, admitting, run,
                   pendingIdle, tail, stopSignal, runner, stuck>>

(* Retry of a failed run: an idle session with nothing queued gets a new   *)
(* PENDING run and becomes running.                                        *)
RetryFailedRun ==
    /\ runState = "idle"
    /\ ~pendingCommand
    /\ PendingInputs = {}
    /\ \E r \in Runs : run[r] = "failed"
    /\ \E r \in Runs :
          /\ run[r] = "absent"
          /\ run' = [run EXCEPT ![r] = "pending"]
    /\ runState' = "running"
    /\ UNCHANGED <<ownerGeneration, stopRequested, pendingCommand, mailbox,
                   admitting, pendingIdle, tail, stopSignal, runner, stuck>>

(* The user stops a running session: durable intent first, then a signal.  *)
RequestStop ==
    /\ runState = "running"
    /\ stopRequested' = TRUE
    /\ stopSignal' = TRUE
    /\ UNCHANGED <<ownerGeneration, runState, pendingCommand, mailbox,
                   admitting, run, pendingIdle, tail, runner, stuck>>

-----------------------------------------------------------------------------
(* The Worker's receive loop and its runners.                              *)

(* A runner that is not there, or a fresh one.                             *)
Reset(w, p) ==
    /\ pc' = [pc EXCEPT ![w] = p]
    /\ gen' = [gen EXCEPT ![w] = 0]
    /\ cmd' = [cmd EXCEPT ![w] = FALSE]
    /\ cur' = [cur EXCEPT ![w] = NoRun]
    /\ idleRun' = [idleRun EXCEPT ![w] = NoRun]
    /\ goal' = [goal EXCEPT ![w] = "none"]

(* The loop ends: the queue dies with the runner.  A closing runner leaves *)
(* its Worker ready to create another one.                                 *)
Exit(w) ==
    /\ Reset(w, "none")
    /\ inbox' = [inbox EXCEPT ![w] = 0]
    /\ userStop' = [userStop EXCEPT ![w] = FALSE]
    /\ mode' = [mode EXCEPT ![w] = IF @ = "down" THEN "down" ELSE "on"]

(* A wake-up is dispatched to the session's runner, created when missing.  *)
Deliver(w) ==
    /\ mode[w] # "down"
    /\ inbox[w] < MaxInbox
    /\ inbox' = [inbox EXCEPT ![w] = @ + 1]
    /\ pc' = [pc EXCEPT ![w] = IF @ = "none" THEN "wait" ELSE @]
    /\ UNCHANGED <<durable, stopSignal, gen, userStop, mode, cmd, cur,
                   idleRun, goal, stuck>>

(* A stop signal is applied at once, whatever the runner is doing.         *)
DeliverStop(w) ==
    /\ mode[w] # "down"
    /\ stopSignal
    /\ stopSignal' = FALSE
    /\ userStop' = [userStop EXCEPT ![w] = TRUE]
    /\ pc' = [pc EXCEPT ![w] = IF @ = "none" THEN "wait" ELSE @]
    /\ UNCHANGED <<durable, gen, inbox, mode, cmd, cur, idleRun, goal, stuck>>

HasMessageAlways(w) == TRUE \* mutant: a spurious wake-up
HasMessage(w) == inbox[w] > 0

(* The first message makes the runner claim a generation; every message    *)
(* starts with a clean stop controller.                                    *)
Dequeue(w) ==
    /\ pc[w] = "wait"
    /\ HasMessage(w)
    /\ inbox' = [inbox EXCEPT ![w] = @ - 1]
    /\ IF gen[w] = 0
       THEN /\ Goto(w, "claim")
            /\ UNCHANGED userStop
       ELSE /\ Goto(w, "load")
            /\ userStop' = [userStop EXCEPT ![w] = FALSE]
    /\ UNCHANGED <<durable, stopSignal, gen, mode, cmd, cur, idleRun, goal,
                   stuck>>

SharedGeneration == 1 \* mutant: an owner is told from none, not from another
NextGeneration == ownerGeneration + 1

Claim(w) ==
    /\ pc[w] = "claim"
    /\ ownerGeneration < MaxGen
    /\ ownerGeneration' = NextGeneration
    /\ gen' = [gen EXCEPT ![w] = NextGeneration]
    /\ userStop' = [userStop EXCEPT ![w] = FALSE]
    /\ Goto(w, "load")
    /\ UNCHANGED <<runState, stopRequested, pendingCommand, mailbox, admitting,
                   run, pendingIdle, tail, stopSignal, inbox, mode, cmd, cur,
                   idleRun, goal, stuck>>

(* An exception outside _process_message, or while it reports another one, *)
(* ends the loop.                                                          *)
TickFails(w) ==
    /\ \/ pc[w] \in {"claim", "unhandled", "boundary", "idle"}
       \/ pc[w] \in StopPcs /\ goal[w] = "error"
    /\ Exit(w)
    /\ UNCHANGED <<durable, stopSignal, stuck>>

(* Waiting ends: idle timeout, or shutdown with an empty queue.            *)
LeaveWait(w) ==
    /\ pc[w] = "wait"
    /\ inbox[w] = 0
    /\ Exit(w)
    /\ UNCHANGED <<durable, stopSignal, stuck>>

-----------------------------------------------------------------------------
(* One execution boundary.                                                 *)

(* The snapshot loader accepts a running session of this generation.       *)
Load(w) ==
    /\ pc[w] = "load"
    /\ runState = "running"
    /\ Fenced(w)
    /\ cur' = [cur EXCEPT ![w] = TheActiveRun]
    /\ cmd' = [cmd EXCEPT ![w] = pendingCommand]
    /\ idleRun' = [idleRun EXCEPT ![w] = pendingIdle]
    /\ Goto(w, "recover")
    /\ UNCHANGED <<durable, stopSignal, gen, inbox, userStop, mode, goal, stuck>>

(* _handle_canonical_execution_error: the runner closes, nothing is        *)
(* finalized or reported.                                                  *)
Reject(w) ==
    /\ mode' = [mode EXCEPT ![w] = IF @ = "down" THEN "down" ELSE "closing"]
    /\ goal' = [goal EXCEPT ![w] = "none"]
    /\ Goto(w, "boundary")
    /\ UNCHANGED <<durable, stopSignal, gen, inbox, userStop, cmd, cur,
                   idleRun, stuck>>

LoadRejected(w) ==
    /\ pc[w] = "load"
    /\ runState # "running" \/ ~Fenced(w)
    /\ Reject(w)

(* Any fenced transaction of a runner whose generation was superseded.     *)
LoseOwnership(w) ==
    /\ pc[w] \in LoadedPcs
    /\ ~Fenced(w)
    /\ Reject(w)

(* The FIFO head that was peeked is gone when the promotion locks it.      *)
PromotionConflict(w) ==
    /\ pc[w] \in PreparePcs
    /\ ~cmd[w]
    /\ Fenced(w)
    /\ \E i \in Inputs : mailbox[i] = "withdrawn"
    /\ Reject(w)

(* Disposition of a boundary that found nothing to run: a continuation     *)
(* boundary left behind by an earlier run, or plain idling.                *)
NoActionableWork(w) ==
    /\ goal' = [goal EXCEPT ![w] =
                   IF idleRun[w] = NoRun THEN "mark" ELSE "consume"]
    /\ cur' = [cur EXCEPT ![w] = idleRun[w]]
    /\ Goto(w, "afterStop")

UnknownCommand(w) ==
    /\ pc[w] = "recover"
    /\ cmd[w]
    /\ Fenced(w)
    /\ pendingCommand' = FALSE
    /\ cmd' = [cmd EXCEPT ![w] = FALSE]
    /\ goal' = [goal EXCEPT ![w] = "none"]
    /\ Goto(w, "afterStop")
    /\ UNCHANGED <<ownerGeneration, runState, stopRequested, mailbox,
                   admitting, run, pendingIdle, tail, stopSignal, gen, inbox,
                   userStop, mode, cur, idleRun, stuck>>

(* A pending or running run of an earlier attempt is taken up again.       *)
Recover(w) ==
    /\ pc[w] = "recover"
    /\ cur[w] # NoRun
    /\ Fenced(w)
    /\ Goto(w, "prepare")
    /\ UNCHANGED <<durable, stopSignal, gen, inbox, userStop, mode, cmd, cur,
                   idleRun, goal, stuck>>

NothingToRun(w) ==
    /\ pc[w] = "recover"
    /\ cur[w] = NoRun
    /\ ~cmd[w]
    /\ PendingInputs = {} /\ ~tail
    /\ Fenced(w)
    /\ NoActionableWork(w)
    /\ UNCHANGED <<durable, stopSignal, gen, inbox, userStop, mode, cmd,
                   idleRun, stuck>>

CreatePendingRun(w) ==
    /\ pc[w] = "recover"
    /\ cur[w] = NoRun
    /\ cmd[w] \/ PendingInputs # {} \/ tail
    /\ Fenced(w)
    /\ \E r \in Runs :
          /\ run[r] = "absent"
          /\ run' = [run EXCEPT ![r] = "pending"]
          /\ cur' = [cur EXCEPT ![w] = r]
    /\ Goto(w, "prepareNew")
    /\ UNCHANGED <<ownerGeneration, runState, stopRequested, pendingCommand,
                   mailbox, admitting, pendingIdle, tail, stopSignal, gen,
                   inbox, userStop, mode, cmd, idleRun, goal, stuck>>

\* Mutant: the inputs are flushed before the run is created.
PromotesEarly(w) == pc[w] \in {"recover", "engine"} \cup PreparePcs /\ ~cmd[w]
Promotes(w) == pc[w] \in {"engine"} \cup PreparePcs /\ ~cmd[w]

(* One mailbox item becomes transcript events, before the first turn or at *)
(* a turn boundary; not every item asks for a model turn.                  *)
Promote(w, i) ==
    /\ Promotes(w)
    /\ Fenced(w)
    /\ mailbox[i] = "pending"
    /\ mailbox' = [mailbox EXCEPT ![i] = "promoted"]
    /\ tail' = TRUE \/ UNCHANGED tail
    /\ UNCHANGED <<ownerGeneration, runState, stopRequested, pendingCommand,
                   admitting, run, pendingIdle, stopSignal, runner, stuck>>

(* Nothing promoted asks for a turn: the run created for it is cancelled.  *)
CancelPendingRun(w) ==
    /\ pc[w] = "prepareNew"
    /\ ~cmd[w]
    /\ Fenced(w)
    /\ run[cur[w]] = "pending"
    /\ run' = [run EXCEPT ![cur[w]] = "cancelled"]
    /\ NoActionableWork(w)
    /\ UNCHANGED <<ownerGeneration, runState, stopRequested, pendingCommand,
                   mailbox, admitting, pendingIdle, tail, stopSignal, gen,
                   inbox, userStop, mode, cmd, idleRun, stuck>>

\* Mutant: any end of a run opens a continuation boundary.
BoundaryAfterAnyEnd(w, status) == cur[w]
\* complete_model_run, and nothing else, sets the boundary.
BoundaryAfter(w, status) ==
    IF status = "completed" THEN cur[w] ELSE pendingIdle

(* Preparation ends the run before the engine starts: its inputs were      *)
(* complete in themselves, or the model target cannot be resolved.  A      *)
(* command stays pending.                                                  *)
EndBeforeEngine(w, status) ==
    /\ pc[w] \in PreparePcs
    /\ Fenced(w)
    /\ \/ run[cur[w]] = "pending" /\ status = "cancelled"
       \/ run[cur[w]] = "running" /\ (status = "completed" => ~cmd[w])
    /\ run' = [run EXCEPT ![cur[w]] = status]
    /\ pendingIdle' = BoundaryAfter(w, status)
    /\ goal' = [goal EXCEPT ![w] =
                   IF status = "completed" THEN "consume" ELSE "mark"]
    /\ cmd' = [cmd EXCEPT ![w] = FALSE]
    /\ Goto(w, "afterStop")
    /\ UNCHANGED <<ownerGeneration, runState, stopRequested, pendingCommand,
                   mailbox, admitting, tail, stopSignal, gen, inbox, userStop,
                   mode, cur, idleRun, stuck>>

(* activate_pending clears the continuation boundary of the previous run.  *)
BeginEngine(w) ==
    /\ pc[w] \in PreparePcs
    /\ Fenced(w)
    /\ run[cur[w]] \in ActiveStatuses
    /\ pc[w] = "prepareNew" /\ ~cmd[w] => tail
    /\ run' = [run EXCEPT ![cur[w]] = "running"]
    /\ pendingIdle' = IF run[cur[w]] = "pending" THEN NoRun ELSE pendingIdle
    /\ Goto(w, "engine")
    /\ UNCHANGED <<ownerGeneration, runState, stopRequested, pendingCommand,
                   mailbox, admitting, tail, stopSignal, gen, inbox, userStop,
                   mode, cmd, cur, idleRun, goal, stuck>>

(* The engine ends the run.  Completion opens a continuation boundary; a   *)
(* run marker closes the transcript tail, except for commands.             *)
EngineEnds(w, status, disposition) ==
    /\ pc[w] = "engine"
    /\ Fenced(w)
    /\ run[cur[w]] = "running"
    /\ run' = [run EXCEPT ![cur[w]] = status]
    /\ tail' = (tail /\ cmd[w] /\ status = "completed")
    /\ pendingIdle' = BoundaryAfter(w, status)
    /\ goal' = [goal EXCEPT ![w] = disposition]
    /\ Goto(w, "settle")
    /\ UNCHANGED <<ownerGeneration, runState, stopRequested, pendingCommand,
                   mailbox, admitting, stopSignal, gen, inbox, userStop, mode,
                   cmd, cur, idleRun, stuck>>

EngineComplete(w) == EngineEnds(w, "completed", "consume")

(* An interrupted run converges to STOPPED when a stop is on record.       *)
EngineInterrupt(w) ==
    /\ ~cmd[w]
    /\ EngineEnds(w, IF stopRequested THEN "stopped" ELSE "interrupted", "mark")

(* Failed attempts are exhausted.  Failure finalization yields to a stop.  *)
EngineFail(w) ==
    /\ ~stopRequested
    /\ EngineEnds(w, "failed", "mark")

EngineFailsAfterStop(w) ==
    /\ pc[w] = "engine"
    /\ stopRequested
    /\ Fenced(w)
    /\ goal' = [goal EXCEPT ![w] = "record"]
    /\ Goto(w, "stopMark")
    /\ UNCHANGED <<durable, stopSignal, gen, inbox, userStop, mode, cmd, cur,
                   idleRun, stuck>>

-----------------------------------------------------------------------------
(* User stop, shutdown and unexpected errors.                              *)

(* The supervisor watches the engine task until its result is settled;     *)
(* recording a stop inside the executor is still part of that task.        *)
Supervised(w) ==
    \/ pc[w] \in {"recover", "engine"} \cup PreparePcs
    \/ pc[w] = "settle" /\ goal[w] \in {"mark", "consume"}
    \/ pc[w] \in StopPcs /\ goal[w] = "record"

(* A stop is seen (signal or durable intent): the task is cancelled and    *)
(* the finalizer works on the RUNNING run, if there is one.  Before the    *)
(* engine there is no cleanup of the command to wait for, and a cancelled  *)
(* cleanup is cut short.                                                   *)
StopDetected(w) ==
    /\ Supervised(w)
    /\ userStop[w] \/ stopRequested
    /\ Fenced(w)
    /\ userStop' = [userStop EXCEPT ![w] = TRUE]
    /\ cur' = [cur EXCEPT ![w] = TheRunningRun]
    /\ cmd' = [cmd EXCEPT ![w] =
                  @ /\ pc[w] \notin ({"recover", "settle"} \cup PreparePcs)]
    /\ goal' = [goal EXCEPT ![w] = "stop"]
    /\ Goto(w, "stopMark")
    /\ UNCHANGED <<durable, stopSignal, gen, inbox, mode, idleRun, stuck>>

(* Without a run, every RUNNING run of the session is closed.              *)
StopMark(w) ==
    /\ pc[w] = "stopMark"
    /\ Fenced(w)
    /\ run' = [r \in Runs |->
                 IF \/ cur[w] = NoRun /\ run[r] = "running"
                    \/ cur[w] = r /\ run[r] \in {"running", "interrupted"}
                 THEN "stopped" ELSE run[r]]
    /\ Goto(w, IF cur[w] = NoRun THEN "stopClear" ELSE "stopEvents")
    /\ UNCHANGED <<ownerGeneration, runState, stopRequested, pendingCommand,
                   mailbox, admitting, pendingIdle, tail, stopSignal, gen,
                   inbox, userStop, mode, cmd, cur, idleRun, goal, stuck>>

StopEvents(w) ==
    /\ pc[w] = "stopEvents"
    /\ Fenced(w)
    /\ tail' = FALSE
    /\ Goto(w, "stopClear")
    /\ UNCHANGED <<ownerGeneration, runState, stopRequested, pendingCommand,
                   mailbox, admitting, run, pendingIdle, stopSignal, gen,
                   inbox, userStop, mode, cmd, cur, idleRun, goal, stuck>>

StopClear(w) ==
    /\ pc[w] = "stopClear"
    /\ Fenced(w)
    /\ stopRequested' = FALSE
    /\ goal' = [goal EXCEPT ![w] = "mark"]
    /\ Goto(w, CASE goal[w] = "stop" -> "cancelled"
                  [] goal[w] = "record" -> "settle"
                  [] OTHER -> "boundary")
    /\ UNCHANGED <<ownerGeneration, runState, pendingCommand, mailbox,
                   admitting, run, pendingIdle, tail, stopSignal, gen, inbox,
                   userStop, mode, cmd, cur, idleRun, stuck>>

(* The executor's finally block: assert the generation, clear the command  *)
(* that ran.  While a stop is finalized the cancelled task runs it too.    *)
ClearCommand(w) ==
    /\ \/ pc[w] \in {"settle", "cancelled"}
       \/ pc[w] \in StopPcs /\ goal[w] = "stop"
    /\ cmd[w]
    /\ Fenced(w)
    /\ pendingCommand' = FALSE
    /\ cmd' = [cmd EXCEPT ![w] = FALSE]
    /\ UNCHANGED <<ownerGeneration, runState, stopRequested, mailbox,
                   admitting, run, pendingIdle, tail, stopSignal, pc, gen,
                   inbox, userStop, mode, cur, idleRun, goal, stuck>>

Settled(w) ==
    /\ pc[w] \in {"settle", "cancelled"}
    /\ ~cmd[w]
    /\ pc[w] = "settle" => Fenced(w)
    /\ Goto(w, IF goal[w] = "error" THEN "unhandled" ELSE "afterStop")
    /\ UNCHANGED <<durable, stopSignal, gen, inbox, userStop, mode, cmd, cur,
                   idleRun, goal, stuck>>

(* Worker shutdown cancels the task; a RUNNING run is left for its next    *)
(* owner, a command the engine had begun is cleared on the way out.        *)
ShutdownCancels(w) ==
    /\ mode[w] = "down"
    /\ \/ pc[w] \in {"recover", "engine"} \cup PreparePcs
       \/ pc[w] \in StopPcs /\ goal[w] = "record"
    /\ goal' = [goal EXCEPT ![w] = "none"]
    /\ IF pc[w] \in {"recover"} \cup PreparePcs
       THEN cmd' = [cmd EXCEPT ![w] = FALSE] /\ Goto(w, "afterStop")
       ELSE UNCHANGED cmd /\ Goto(w, "settle")
    /\ UNCHANGED <<durable, stopSignal, gen, inbox, userStop, mode, cur,
                   idleRun, stuck>>

(* An unexpected exception escapes.  Inside the engine loop the finally    *)
(* block runs first.                                                       *)
UnhandledError(w) ==
    /\ pc[w] \in ({"load"} \cup LoadedPcs) \ {"discard", "unhandled"}
    /\ pc[w] \in StopPcs => goal[w] # "error"
    /\ goal' = [goal EXCEPT ![w] = "error"]
    /\ IF pc[w] = "engine" \/ (pc[w] \in StopPcs /\ goal[w] = "record")
       THEN UNCHANGED cmd /\ Goto(w, "settle")
       ELSE cmd' = [cmd EXCEPT ![w] = FALSE] /\ Goto(w, "unhandled")
    /\ UNCHANGED <<durable, stopSignal, gen, inbox, userStop, mode, cur,
                   idleRun, stuck>>

(* finalize_unhandled_active_run: fail the RUNNING run, unless a stop is   *)
(* on record; without one the error is only reported.                      *)
FailUnhandledRun(w) ==
    /\ pc[w] = "unhandled"
    /\ Fenced(w)
    /\ cur' = [cur EXCEPT ![w] = TheRunningRun]
    /\ IF TheRunningRun # NoRun /\ ~stopRequested
       THEN /\ run' = [run EXCEPT ![TheRunningRun] = "failed"]
            /\ tail' = FALSE
       ELSE UNCHANGED <<run, tail>>
    /\ IF TheRunningRun # NoRun /\ stopRequested
       THEN Goto(w, "stopMark") /\ UNCHANGED goal
       ELSE /\ Goto(w, "boundary")
            /\ goal' = [goal EXCEPT ![w] =
                           IF TheRunningRun = NoRun THEN "none" ELSE "mark"]
    /\ UNCHANGED <<ownerGeneration, runState, stopRequested, pendingCommand,
                   mailbox, admitting, pendingIdle, stopSignal, gen, inbox,
                   userStop, mode, cmd, idleRun, stuck>>

(* After a stop: one wake-up for inputs that are waiting, none otherwise.  *)
(* The mailbox is read before the queue is emptied.                        *)
AfterStop(w) ==
    /\ pc[w] = "afterStop"
    /\ inbox' = [inbox EXCEPT ![w] =
                    IF userStop[w] /\ PendingInputs # {} /\ @ = 0 THEN 1 ELSE @]
    /\ Goto(w, IF userStop[w] /\ PendingInputs = {}
               THEN "discard" ELSE "boundary")
    /\ UNCHANGED <<durable, stopSignal, gen, userStop, mode, cmd, cur, idleRun,
                   goal, stuck>>

DiscardWakeUps(w) ==
    /\ pc[w] = "discard"
    /\ inbox' = [inbox EXCEPT ![w] = 0]
    /\ Goto(w, "boundary")
    /\ UNCHANGED <<durable, stopSignal, gen, userStop, mode, cmd, cur, idleRun,
                   goal, stuck>>

-----------------------------------------------------------------------------
(* The boundary closes: follow-up work, idling, or a continuation.         *)

Waits(w) ==
    /\ Goto(w, "wait")
    /\ cmd' = [cmd EXCEPT ![w] = FALSE]
    /\ cur' = [cur EXCEPT ![w] = NoRun]
    /\ idleRun' = [idleRun EXCEPT ![w] = NoRun]
    /\ goal' = [goal EXCEPT ![w] = "none"]
    /\ UNCHANGED <<gen, inbox, userStop, mode>>

(* Back to waiting; a closing runner stays only for messages still queued. *)
Rest(w) ==
    IF mode[w] = "down" \/ (mode[w] = "closing" /\ inbox[w] = 0)
    THEN Exit(w)
    ELSE Waits(w)

FollowUpWork(w) == inbox[w] > 0 \/ pendingCommand \/ PendingInputs # {}
\* Mutants: what is rechecked under the lock, short of one item each.
SessionHasRunOrCommand == pendingCommand \/ ActiveRuns # {}
SessionHasQueuedWork == pendingCommand \/ PendingInputs # {}
SessionHasWork == pendingCommand \/ PendingInputs # {} \/ ActiveRuns # {}

(* Follow-up work, or nothing to settle.  The wake-up that is to process   *)
(* the follow-up work is not created here.                                 *)
EndBoundary(w) ==
    /\ pc[w] = "boundary"
    /\ mode[w] = "down" \/ goal[w] = "none" \/ FollowUpWork(w)
    /\ Rest(w)
    /\ UNCHANGED <<durable, stopSignal, stuck>>

BeginIdle(w) ==
    /\ pc[w] = "boundary"
    /\ mode[w] # "down"
    /\ goal[w] # "none"
    /\ ~FollowUpWork(w)
    /\ Goto(w, "idle")
    /\ UNCHANGED <<durable, stopSignal, gen, inbox, userStop, mode, cmd, cur,
                   idleRun, goal, stuck>>

MarkIdle(w) ==
    /\ pc[w] = "idle"
    /\ goal[w] = "mark"
    /\ Fenced(w)
    /\ ~SessionHasWork
    /\ runState' = "idle"
    /\ stopRequested' = FALSE
    /\ Rest(w)
    /\ UNCHANGED <<ownerGeneration, pendingCommand, mailbox, admitting, run,
                   pendingIdle, tail, stopSignal, stuck>>

(* A completed run's boundary is consumed once: it either idles the        *)
(* session or admits a continuation input in the same transaction.         *)
ConsumeIdle(w) ==
    /\ pc[w] = "idle"
    /\ goal[w] = "consume"
    /\ Fenced(w)
    /\ pendingIdle = cur[w]
    /\ ~SessionHasWork
    /\ pendingIdle' = NoRun
    /\ \/ /\ runState' = "idle"
          /\ stopRequested' = FALSE
          /\ UNCHANGED mailbox
       \/ /\ \E i \in Inputs \ Triggers :
                /\ mailbox[i] = "absent"
                /\ mailbox' = [mailbox EXCEPT ![i] = "pending"]
          /\ runState' = "running"
          /\ UNCHANGED stopRequested
    /\ Rest(w)
    /\ UNCHANGED <<ownerGeneration, pendingCommand, admitting, run, tail,
                   stopSignal, stuck>>

(* Work arrived in between, or the boundary is no longer this run's.       *)
IdleRefused(w) ==
    /\ pc[w] = "idle"
    /\ Fenced(w)
    /\ SessionHasWork \/ (goal[w] = "consume" /\ pendingIdle # cur[w])
    /\ Rest(w)
    /\ UNCHANGED <<durable, stopSignal, stuck>>

StaleAtIdle(w) ==
    /\ pc[w] = "idle"
    /\ ~Fenced(w)
    /\ Exit(w)
    /\ UNCHANGED <<durable, stopSignal, stuck>>

-----------------------------------------------------------------------------
(* Processes: shutdown, crash, restart, recovery of stuck sessions.        *)

Shutdown(w) ==
    /\ mode[w] # "down"
    /\ mode' = [mode EXCEPT ![w] = "down"]
    /\ stuck' = [stuck EXCEPT ![w] = FALSE]
    /\ UNCHANGED <<durable, stopSignal, pc, gen, inbox, userStop, cmd, cur,
                   idleRun, goal>>

Restart(w) ==
    /\ mode[w] = "down"
    /\ pc[w] = "none"
    /\ mode' = [mode EXCEPT ![w] = "on"]
    /\ UNCHANGED <<durable, stopSignal, pc, gen, inbox, userStop, cmd, cur,
                   idleRun, goal, stuck>>

Crash(w) ==
    /\ Reset(w, "none")
    /\ inbox' = [inbox EXCEPT ![w] = 0]
    /\ userStop' = [userStop EXCEPT ![w] = FALSE]
    /\ mode' = [mode EXCEPT ![w] = "on"]
    /\ stuck' = [stuck EXCEPT ![w] = FALSE]
    /\ UNCHANGED <<durable, stopSignal>>

(* The recovery pass lists running sessions whose heartbeat is stale; how  *)
(* old a heartbeat is is not modelled, any running session may qualify.    *)
RecoveryLists(w) ==
    /\ mode[w] # "down"
    /\ runState = "running"
    /\ ~stuck[w]
    /\ stuck' = [stuck EXCEPT ![w] = TRUE]
    /\ UNCHANGED <<durable, stopSignal, runner>>

(* It acts on the list later, whatever became of the session.              *)
RecoveryMarks(w) ==
    /\ stuck[w]
    /\ runState' = "running"
    /\ stuck' = [stuck EXCEPT ![w] = FALSE]
    /\ UNCHANGED <<ownerGeneration, stopRequested, pendingCommand, mailbox,
                   admitting, run, pendingIdle, tail, stopSignal, runner>>

-----------------------------------------------------------------------------
Environment ==
    \/ \E i \in Inputs : \/ Admit(i) \/ AdmitTriggerToIdle(i)
                        \/ TriggerSeesRunning(i) \/ TriggerCommits(i)
                        \/ Withdraw(i)
    \/ EnqueueCommand \/ RetryFailedRun \/ RequestStop

Prepares(w) ==
    \/ Load(w) \/ LoadRejected(w) \/ LoseOwnership(w) \/ PromotionConflict(w)
    \/ UnknownCommand(w) \/ Recover(w) \/ NothingToRun(w)
    \/ CreatePendingRun(w) \/ CancelPendingRun(w) \/ BeginEngine(w)
    \/ \E i \in Inputs : Promote(w, i)
    \/ \E s \in {"cancelled", "failed", "completed"} : EndBeforeEngine(w, s)

Executes(w) ==
    \/ EngineComplete(w) \/ EngineInterrupt(w) \/ EngineFail(w)
    \/ EngineFailsAfterStop(w) \/ ClearCommand(w) \/ Settled(w)
    \/ UnhandledError(w) \/ FailUnhandledRun(w)

Stops(w) ==
    \/ StopDetected(w) \/ StopMark(w) \/ StopEvents(w) \/ StopClear(w)
    \/ ShutdownCancels(w) \/ AfterStop(w) \/ DiscardWakeUps(w)

Idles(w) ==
    \/ EndBoundary(w) \/ BeginIdle(w) \/ MarkIdle(w) \/ ConsumeIdle(w)
    \/ IdleRefused(w) \/ StaleAtIdle(w)

Process(w) ==
    \/ Deliver(w) \/ DeliverStop(w) \/ Dequeue(w) \/ Claim(w) \/ TickFails(w)
    \/ LeaveWait(w) \/ Shutdown(w) \/ Restart(w) \/ Crash(w)
    \/ RecoveryLists(w) \/ RecoveryMarks(w)

Next ==
    \/ Environment
    \/ \E w \in Workers :
          Prepares(w) \/ Executes(w) \/ Stops(w) \/ Idles(w) \/ Process(w)

Spec == Init /\ [][Next]_vars

-----------------------------------------------------------------------------
(* Correctness.                                                            *)

\* Every variable holds a value of its column or field.
TypeOK ==
    /\ ownerGeneration \in 0..MaxGen
    /\ runState \in RunStates
    /\ stopRequested \in BOOLEAN
    /\ pendingCommand \in BOOLEAN
    /\ mailbox \in [Inputs -> ItemStates]
    /\ admitting \in SUBSET Triggers
    /\ run \in [Runs -> RunStatuses]
    /\ pendingIdle \in Runs \cup {NoRun}
    /\ tail \in BOOLEAN
    /\ stopSignal \in BOOLEAN
    /\ pc \in [Workers -> Pcs]
    /\ gen \in [Workers -> 0..MaxGen]
    /\ inbox \in [Workers -> 0..MaxInbox]
    /\ userStop \in [Workers -> BOOLEAN]
    /\ mode \in [Workers -> Modes]
    /\ cmd \in [Workers -> BOOLEAN]
    /\ cur \in [Workers -> Runs \cup {NoRun}]
    /\ idleRun \in [Workers -> Runs \cup {NoRun}]
    /\ goal \in [Workers -> Goals]
    /\ stuck \in [Workers -> BOOLEAN]

(* An idle session has nothing left to do: no command, no active run, no   *)
(* stop request, and no pending input other than one the unlocked          *)
(* scheduled-task admission slipped in.  An idle session with work is      *)
(* stranded, for loading it is rejected and recovery lists running ones.   *)
IdleMeansNoWork ==
    runState = "idle" =>
        /\ ~pendingCommand
        /\ ~stopRequested
        /\ ActiveRuns = {}
        /\ PendingInputs \subseteq Triggers

(* A session has at most one PENDING or RUNNING run, although a run is     *)
(* created from a snapshot that may be several awaits old.                 *)
AtMostOneActiveRun ==
    \A r, s \in ActiveRuns : r = s

(* While its generation is current, nobody changes what a runner loaded:   *)
(* the run to recover, the command and the continuation boundary are still *)
(* the durable ones when it acts on them, and the session is running.      *)
SnapshotIsCurrent ==
    \A w \in Workers :
        Fenced(w) /\ pc[w] = "recover" =>
            /\ runState = "running"
            /\ cur[w] = TheActiveRun
            /\ cmd[w] = pendingCommand
            /\ idleRun[w] = pendingIdle

(* A runner whose generation is current executes a run that is RUNNING,    *)
(* and that is the only active run of the session.                         *)
EngineOwnsItsRun ==
    \A w \in Workers :
        Fenced(w) /\ pc[w] = "engine" =>
            ActiveRuns = {cur[w]} /\ run[cur[w]] = "running"

(* An owner generation names one runner: no other runner ever held it, and *)
(* no runner holds one from the future.                                    *)
GenerationsAreExclusive ==
    \A w \in Workers :
        /\ gen[w] <= ownerGeneration
        /\ pc[w] \in ClaimedPcs => gen[w] > 0
        /\ \A v \in Workers \ {w} : gen[v] = gen[w] => gen[w] = 0

(* What the runner of the current generation may rely on while it works on *)
(* a boundary: the session is running and the run it prepares is active.   *)
OwnerPreparesItsRun ==
    \A w \in Workers :
        Fenced(w) /\ pc[w] \in LoadedPcs \ {"unhandled"} =>
            /\ runState = "running"
            /\ pc[w] \in PreparePcs => cur[w] \in ActiveRuns

(* The inductive invariant.                                                *)
Inv ==
    /\ TypeOK
    /\ GenerationsAreExclusive
    /\ IdleMeansNoWork
    /\ AtMostOneActiveRun
    /\ OwnerPreparesItsRun
    /\ SnapshotIsCurrent
    /\ EngineOwnsItsRun

(* A terminal status is final, except that a run the engine interrupted    *)
(* may still converge to STOPPED.                                          *)
TerminalRunsAreFinal ==
    [][\A r \in Runs :
          run[r] \in TerminalStatuses =>
              \/ run'[r] = run[r]
              \/ run[r] = "interrupted" /\ run'[r] = "stopped"]_vars

(* A continuation boundary is opened only by the completion of its run, so *)
(* that one completed run never yields two continuations.                  *)
BoundaryOpensAtCompletion ==
    [][pendingIdle' # pendingIdle /\ pendingIdle' # NoRun =>
          run[pendingIdle'] = "running" /\ run'[pendingIdle'] = "completed"]_vars

(* Inputs become transcript only for a run that is there to answer them.   *)
PromotedIntoActiveRun ==
    [][\A i \in Inputs :
          mailbox[i] = "pending" /\ mailbox'[i] = "promoted" =>
              ActiveRuns # {}]_vars

(* The runs of the session form the sequence that SessionRuns describes.   *)
Abstract == INSTANCE SessionRuns WITH
    resting <- runState = "idle",
    active <- TheActiveRun,
    finished <- {r \in Runs : run[r] \in TerminalStatuses},
    boundary <- pendingIdle

RunsFormASequence == Abstract!Spec

(* Wake-ups aside, this is the session that SessionBroker delivers them    *)
(* for: its work begins, ends and rests in transactions of the owner only. *)
(* Scheduled inputs are left out, for they are slipped in unlocked.        *)
Work == INSTANCE SessionWork WITH
    owners <- {w \in Workers : gen[w] # 0 /\ Fenced(w)},
    running <- runState = "running",
    pending <- pendingCommand \/ PendingInputs \ Triggers # {},
    active <- ActiveRuns # {}

OwnersDoTheWork == Work!Spec

(* What mark_session_idle promises of every wake-producing input.          *)
IdleLeavesNoPendingInput ==
    runState = "idle" => PendingInputs = {}
=============================================================================
