----------------------- MODULE SessionExecution_proofs -----------------------
(***************************************************************************)
(* Proofs about SessionExecution, for every value of its constants.        *)
(***************************************************************************)
EXTENDS SessionExecution, TLAPS

\* The run a snapshot recovers is a run of the session, or none.
LEMMA ActiveRunIsARun ==
    TheActiveRun \in Runs \cup {NoRun}
BY DEF TheActiveRun, ActiveRuns

\* So is the run the stop finalizer works on.
LEMMA RunningRunIsARun ==
    TheRunningRun \in Runs \cup {NoRun}
BY DEF TheRunningRun

USE ConstantsAssumption DEF ConstantsAssumption, RunStates, ItemStates, ActiveStatuses,
    TerminalStatuses, RunStatuses, PreparePcs, StopPcs, LoadedPcs, ClaimedPcs, Pcs,
    Modes, Goals, durable, runner, vars, HasMessage, NextGeneration,
    TakesCommand, Promotes, BoundaryAfter

\* Requests of the API servers and the scheduler keep the column types.
LEMMA EnvironmentType == TypeOK /\ Environment => TypeOK'
<1> SUFFICES ASSUME TypeOK, Environment PROVE TypeOK'
  OBVIOUS
<1>1. CASE \E i \in Inputs : \/ Admit(i) \/ AdmitTriggerToIdle(i)
                            \/ TriggerSeesRunning(i) \/ TriggerCommits(i)
                            \/ Withdraw(i)
  BY <1>1 DEF TypeOK, Admit, AdmitTriggerToIdle, TriggerSeesRunning,
              TriggerCommits, Withdraw
<1>2. CASE EnqueueCommand \/ RetryFailedRun \/ RequestStop
  BY <1>2 DEF TypeOK, EnqueueCommand, RetryFailedRun, RequestStop
<1>3. QED
  BY <1>1, <1>2 DEF Environment

\* So do the steps from loading a snapshot to the start of the engine.
LEMMA PreparesType == ASSUME NEW w \in Workers, TypeOK, Prepares(w)
                      PROVE  TypeOK'
<1>1. CASE Load(w)
  BY <1>1, ActiveRunIsARun DEF TypeOK, Load, Goto
<1>2. CASE LoadRejected(w) \/ LoseOwnership(w) \/ PromotionConflict(w)
  BY <1>2 DEF TypeOK, LoadRejected, LoseOwnership, PromotionConflict, Reject,
              Goto
<1>3. CASE UnknownCommand(w)
  BY <1>3 DEF TypeOK, UnknownCommand, Goto
<1>4. CASE Recover(w)
  BY <1>4 DEF TypeOK, Recover, Goto
<1>5. CASE NothingToRun(w)
  BY <1>5 DEF TypeOK, NothingToRun, NoActionableWork, Goto
<1>6. CASE CreatePendingRun(w)
  BY <1>6 DEF TypeOK, CreatePendingRun, Goto
<1>7. CASE CancelPendingRun(w)
  BY <1>7 DEF TypeOK, CancelPendingRun, NoActionableWork, Goto
<1>8. CASE BeginEngine(w)
  BY <1>8 DEF TypeOK, BeginEngine, Goto
<1>9. ASSUME NEW i \in Inputs, Promote(w, i) PROVE TypeOK'
  <2>1. tail' \in BOOLEAN
    BY <1>9 DEF TypeOK, Promote
  <2>2. mailbox' \in [Inputs -> ItemStates]
    BY <1>9 DEF TypeOK, Promote
  <2>3. QED
    BY <1>9, <2>1, <2>2 DEF TypeOK, Promote
<1>10. ASSUME NEW s \in {"cancelled", "failed", "completed"},
              EndBeforeEngine(w, s)
       PROVE  TypeOK'
  <2>1. run' \in [Runs -> RunStatuses]
    BY <1>10 DEF TypeOK, EndBeforeEngine
  <2>2. pendingIdle' \in Runs \cup {NoRun}
    BY <1>10 DEF TypeOK, EndBeforeEngine
  <2>3. QED
    BY <1>10, <2>1, <2>2 DEF TypeOK, EndBeforeEngine, Goto
<1>11. QED
  BY <1>1, <1>2, <1>3, <1>4, <1>5, <1>6, <1>7, <1>8, <1>9, <1>10 DEF Prepares

\* A forgotten or fresh runner is well typed.
LEMMA ResetType == ASSUME NEW w \in Workers, NEW p \in Pcs, TypeOK, Reset(w, p)
                   PROVE  /\ pc' \in [Workers -> Pcs]
                          /\ gen' \in [Workers -> 0..MaxGen]
                          /\ cmd' \in [Workers -> BOOLEAN]
                          /\ cur' \in [Workers -> Runs \cup {NoRun}]
                          /\ idleRun' \in [Workers -> Runs \cup {NoRun}]
                          /\ goal' \in [Workers -> Goals]
BY DEF TypeOK, Reset

\* So is a runner whose loop has ended.
LEMMA ExitType == ASSUME NEW w \in Workers, TypeOK, Exit(w)
                  PROVE  /\ pc' \in [Workers -> Pcs]
                         /\ gen' \in [Workers -> 0..MaxGen]
                         /\ inbox' \in [Workers -> 0..MaxInbox]
                         /\ userStop' \in [Workers -> BOOLEAN]
                         /\ mode' \in [Workers -> Modes]
                         /\ cmd' \in [Workers -> BOOLEAN]
                         /\ cur' \in [Workers -> Runs \cup {NoRun}]
                         /\ idleRun' \in [Workers -> Runs \cup {NoRun}]
                         /\ goal' \in [Workers -> Goals]
<1>1. Reset(w, "none")
  BY DEF Exit
<1>2. /\ inbox' \in [Workers -> 0..MaxInbox]
      /\ userStop' \in [Workers -> BOOLEAN]
      /\ mode' \in [Workers -> Modes]
  BY DEF TypeOK, Exit
<1>3. QED
  BY <1>1, <1>2, ResetType

\* And one that waits for its next message.
LEMMA RestType == ASSUME NEW w \in Workers, TypeOK, Rest(w)
                  PROVE  /\ pc' \in [Workers -> Pcs]
                         /\ gen' \in [Workers -> 0..MaxGen]
                         /\ inbox' \in [Workers -> 0..MaxInbox]
                         /\ userStop' \in [Workers -> BOOLEAN]
                         /\ mode' \in [Workers -> Modes]
                         /\ cmd' \in [Workers -> BOOLEAN]
                         /\ cur' \in [Workers -> Runs \cup {NoRun}]
                         /\ idleRun' \in [Workers -> Runs \cup {NoRun}]
                         /\ goal' \in [Workers -> Goals]
<1>1. CASE Exit(w)
  BY <1>1, ExitType
<1>2. CASE Waits(w)
  BY <1>2 DEF TypeOK, Waits, Goto
<1>3. QED
  BY <1>1, <1>2 DEF Rest

\* The engine's steps, and the handling of errors, keep the types.
LEMMA ExecutesType == ASSUME NEW w \in Workers, TypeOK, Executes(w)
                      PROVE  TypeOK'
<1>1. CASE EngineComplete(w)
  BY <1>1 DEF TypeOK, EngineComplete, EngineEnds, Goto
<1>2. CASE EngineInterrupt(w)
  BY <1>2 DEF TypeOK, EngineInterrupt, EngineEnds, Goto
<1>3. CASE EngineFail(w)
  BY <1>3 DEF TypeOK, EngineFail, EngineEnds, Goto
<1>4. CASE EngineFailsAfterStop(w)
  BY <1>4 DEF TypeOK, EngineFailsAfterStop, Goto
<1>5. CASE ClearCommand(w)
  BY <1>5 DEF TypeOK, ClearCommand
<1>6. CASE Settled(w)
  BY <1>6 DEF TypeOK, Settled, Goto
<1>7. CASE UnhandledError(w)
  BY <1>7 DEF TypeOK, UnhandledError, Goto
<1>8. CASE FailUnhandledRun(w)
  <2>1. cur' \in [Workers -> Runs \cup {NoRun}]
    BY <1>8, RunningRunIsARun DEF TypeOK, FailUnhandledRun
  <2>2. run' \in [Runs -> RunStatuses]
    BY <1>8 DEF TypeOK, FailUnhandledRun
  <2>3. goal' \in [Workers -> Goals] /\ pc' \in [Workers -> Pcs]
    BY <1>8 DEF TypeOK, FailUnhandledRun, Goto
  <2>4. QED
    BY <1>8, <2>1, <2>2, <2>3 DEF TypeOK, FailUnhandledRun
<1>9. QED
  BY <1>1, <1>2, <1>3, <1>4, <1>5, <1>6, <1>7, <1>8 DEF Executes

\* So does the finalization of a stop.
LEMMA StopsType == ASSUME NEW w \in Workers, TypeOK, Stops(w)
                   PROVE  TypeOK'
<1>1. CASE StopDetected(w)
  BY <1>1, RunningRunIsARun DEF TypeOK, StopDetected, Goto
<1>2. CASE StopMark(w)
  BY <1>2 DEF TypeOK, StopMark, Goto
<1>3. CASE StopEvents(w)
  BY <1>3 DEF TypeOK, StopEvents, Goto
<1>4. CASE StopClear(w)
  BY <1>4 DEF TypeOK, StopClear, Goto
<1>5. CASE ShutdownCancels(w)
  BY <1>5 DEF TypeOK, ShutdownCancels, Goto
<1>6. CASE AfterStop(w)
  BY <1>6 DEF TypeOK, AfterStop, Goto
<1>7. CASE DiscardWakeUps(w)
  BY <1>7 DEF TypeOK, DiscardWakeUps, Goto
<1>8. QED
  BY <1>1, <1>2, <1>3, <1>4, <1>5, <1>6, <1>7 DEF Stops

\* So does the settling of an idle boundary.
LEMMA IdlesType == ASSUME NEW w \in Workers, TypeOK, Idles(w)
                   PROVE  TypeOK'
<1>1. CASE EndBoundary(w) \/ IdleRefused(w)
  BY <1>1, RestType DEF TypeOK, EndBoundary, IdleRefused
<1>2. CASE BeginIdle(w)
  BY <1>2 DEF TypeOK, BeginIdle, Goto
<1>3. CASE MarkIdle(w)
  BY <1>3, RestType DEF TypeOK, MarkIdle
<1>4. CASE ConsumeIdle(w)
  <2>1. /\ runState' \in RunStates
        /\ mailbox' \in [Inputs -> ItemStates]
        /\ pendingIdle' \in Runs \cup {NoRun}
    BY <1>4 DEF TypeOK, ConsumeIdle
  <2>2. Rest(w) /\ UNCHANGED <<ownerGeneration, pendingCommand, admitting, run,
                               tail, stopSignal, stuck>>
    BY <1>4 DEF ConsumeIdle
  <2>3. stopRequested' = FALSE \/ UNCHANGED stopRequested
    BY <1>4 DEF ConsumeIdle
  <2>4. QED
    BY <2>1, <2>2, <2>3, RestType DEF TypeOK
<1>5. CASE StaleAtIdle(w)
  BY <1>5, ExitType DEF TypeOK, StaleAtIdle
<1>6. QED
  BY <1>1, <1>2, <1>3, <1>4, <1>5 DEF Idles

\* So do delivery, claims, shutdown, crashes and recovery.
LEMMA ProcessType == ASSUME NEW w \in Workers, TypeOK, Process(w)
                     PROVE  TypeOK'
<1>1. CASE Deliver(w)
  BY <1>1 DEF TypeOK, Deliver
<1>2. CASE Dequeue(w)
  <2>1. inbox' \in [Workers -> 0..MaxInbox]
    BY <1>2 DEF TypeOK, Dequeue
  <2>2. QED
    BY <1>2, <2>1 DEF TypeOK, Dequeue, Goto
<1>3. CASE Claim(w)
  BY <1>3 DEF TypeOK, Claim, Goto
<1>4. CASE TickFails(w) \/ LeaveWait(w)
  BY <1>4, ExitType DEF TypeOK, TickFails, LeaveWait
<1>5. CASE Shutdown(w) \/ Restart(w)
  BY <1>5 DEF TypeOK, Shutdown, Restart
<1>6. CASE Crash(w)
  BY <1>6 DEF TypeOK, Crash, Reset
<1>7. CASE RecoveryLists(w)
  BY <1>7 DEF TypeOK, RecoveryLists
<1>8. CASE RecoveryMarks(w)
  BY <1>8 DEF TypeOK, RecoveryMarks
<1>9. CASE DeliverStop(w)
  BY <1>9 DEF TypeOK, DeliverStop
<1>10. QED
  BY <1>1, <1>2, <1>3, <1>4, <1>5, <1>6, <1>7, <1>8, <1>9 DEF Process

-----------------------------------------------------------------------------
(* Owner generations.                                                      *)

\* A step that claims nothing keeps the generations exclusive.
LEMMA KeptGenerations ==
    ASSUME TypeOK, GenerationsAreExclusive, UNCHANGED <<ownerGeneration, gen>>,
           \A v \in Workers :
              pc'[v] \in ClaimedPcs => pc[v] \in ClaimedPcs \/ gen[v] > 0
    PROVE  GenerationsAreExclusive'
BY DEF TypeOK, GenerationsAreExclusive

\* So does a runner that forgets its generation.
LEMMA DroppedGeneration ==
    ASSUME NEW w \in Workers, TypeOK, GenerationsAreExclusive, Reset(w, "none"),
           UNCHANGED ownerGeneration
    PROVE  GenerationsAreExclusive'
BY DEF TypeOK, GenerationsAreExclusive, Reset

\* So does the end of a boundary.
LEMMA RestGenerations ==
    ASSUME NEW w \in Workers, TypeOK, GenerationsAreExclusive, Rest(w),
           UNCHANGED ownerGeneration
    PROVE  GenerationsAreExclusive'
<1>1. CASE Exit(w)
  BY <1>1, DroppedGeneration DEF Exit
<1>2. CASE Waits(w)
  BY <1>2, KeptGenerations DEF TypeOK, Waits, Goto
<1>3. QED
  BY <1>1, <1>2 DEF Rest

\* Owner generations stay exclusive in every step of a Worker: only
\* claim_owner_generation makes one, above all that were made before.
LEMMA GenerationsStep ==
    ASSUME NEW w \in Workers, TypeOK, GenerationsAreExclusive,
           Prepares(w) \/ Executes(w) \/ Stops(w) \/ Idles(w) \/ Process(w)
    PROVE  GenerationsAreExclusive'
<1> USE DEF TypeOK, Goto
<1>1. CASE Prepares(w)
  BY <1>1, KeptGenerations DEF Prepares, Load, LoadRejected, LoseOwnership,
     PromotionConflict, UnknownCommand, Recover, NothingToRun,
     CreatePendingRun, CancelPendingRun, BeginEngine, Promote,
     EndBeforeEngine, Reject, NoActionableWork
<1>2. CASE Executes(w)
  BY <1>2, KeptGenerations DEF Executes, EngineComplete, EngineInterrupt,
     EngineFail, EngineEnds, EngineFailsAfterStop, ClearCommand, Settled,
     UnhandledError, FailUnhandledRun
<1>3. CASE Stops(w)
  <2>1. CASE StopDetected(w)
    BY <2>1, KeptGenerations DEF StopDetected, Supervised
  <2>2. CASE StopMark(w) \/ StopEvents(w)
    BY <2>2, KeptGenerations DEF StopMark, StopEvents
  <2>3. CASE StopClear(w)
    BY <2>3, KeptGenerations DEF StopClear
  <2>4. CASE ShutdownCancels(w) \/ AfterStop(w) \/ DiscardWakeUps(w)
    BY <2>4, KeptGenerations DEF ShutdownCancels, AfterStop, DiscardWakeUps
  <2>5. QED
    BY <1>3, <2>1, <2>2, <2>3, <2>4 DEF Stops
<1>4. CASE Idles(w)
  BY <1>4, KeptGenerations, DroppedGeneration, RestGenerations DEF Idles,
     EndBoundary, BeginIdle, MarkIdle, ConsumeIdle, IdleRefused, StaleAtIdle,
     Exit
<1>5. CASE Claim(w)
  BY <1>5 DEF GenerationsAreExclusive, Claim
<1>6. CASE Deliver(w) \/ DeliverStop(w) \/ Dequeue(w)
  BY <1>6, KeptGenerations DEF Deliver, DeliverStop, Dequeue
<1>7. CASE TickFails(w) \/ LeaveWait(w) \/ Crash(w)
  BY <1>7, DroppedGeneration DEF TickFails, LeaveWait, Crash, Exit
<1>8. CASE Shutdown(w) \/ Restart(w) \/ RecoveryLists(w) \/ RecoveryMarks(w)
  BY <1>8, KeptGenerations DEF Shutdown, Restart, RecoveryLists, RecoveryMarks
<1>9. QED
  BY <1>1, <1>2, <1>3, <1>4, <1>5, <1>6, <1>7, <1>8 DEF Process

\* At most one runner can commit a fenced transaction.
LEMMA OneOwner ==
    ASSUME NEW v \in Workers, NEW w \in Workers, TypeOK,
           GenerationsAreExclusive, Fenced(v), Fenced(w),
           pc[v] \in ClaimedPcs
    PROVE  v = w
BY DEF TypeOK, GenerationsAreExclusive, Fenced

-----------------------------------------------------------------------------
(* Runs.                                                                   *)

\* No step but a creation makes an active run.
NoNewActiveRun ==
    \A r \in Runs : run'[r] \in ActiveStatuses => run[r] \in ActiveStatuses

\* Only create_pending and the retry of a failed run make a run active.
LEMMA OnlyCreationsActivate ==
    ASSUME TypeOK, Next
    PROVE  \/ NoNewActiveRun
           \/ RetryFailedRun
           \/ \E w \in Workers : CreatePendingRun(w)
<1> USE DEF TypeOK, NoNewActiveRun
<1>1. CASE Environment
  BY <1>1 DEF Environment, Admit, AdmitTriggerToIdle, TriggerSeesRunning,
     TriggerCommits, Withdraw, EnqueueCommand, RequestStop
<1>2. ASSUME NEW w \in Workers, Prepares(w), ~CreatePendingRun(w)
      PROVE  NoNewActiveRun
  <2>1. CASE \/ Load(w) \/ LoadRejected(w) \/ LoseOwnership(w)
             \/ PromotionConflict(w) \/ UnknownCommand(w) \/ Recover(w)
             \/ NothingToRun(w) \/ \E i \in Inputs : Promote(w, i)
    BY <2>1 DEF Load, LoadRejected, LoseOwnership, PromotionConflict, Reject,
       UnknownCommand, Recover, NothingToRun, Promote
  <2>2. CASE CancelPendingRun(w)
    BY <2>2 DEF CancelPendingRun
  <2>3. CASE BeginEngine(w)
    BY <2>3 DEF BeginEngine
  <2>4. CASE \E s \in {"cancelled", "failed", "completed"} :
                EndBeforeEngine(w, s)
    BY <2>4 DEF EndBeforeEngine
  <2>5. QED
    BY <1>2, <2>1, <2>2, <2>3, <2>4 DEF Prepares
<1>3. ASSUME NEW w \in Workers, Executes(w) PROVE NoNewActiveRun
  <2>1. CASE EngineComplete(w) \/ EngineInterrupt(w) \/ EngineFail(w)
    BY <2>1 DEF EngineComplete, EngineInterrupt, EngineFail, EngineEnds
  <2>2. CASE FailUnhandledRun(w)
    BY <2>2 DEF FailUnhandledRun
  <2>3. QED
    BY <1>3, <2>1, <2>2 DEF Executes, EngineFailsAfterStop, ClearCommand,
       Settled, UnhandledError
<1>4. ASSUME NEW w \in Workers, Stops(w) PROVE NoNewActiveRun
  <2>1. CASE StopMark(w)
    BY <2>1 DEF StopMark
  <2>2. QED
    BY <1>4, <2>1 DEF Stops, StopDetected, StopEvents, StopClear,
       ShutdownCancels, AfterStop, DiscardWakeUps
<1>5. ASSUME NEW w \in Workers, Idles(w) \/ Process(w) PROVE UNCHANGED run
  BY <1>5 DEF Idles, EndBoundary, BeginIdle, MarkIdle, ConsumeIdle,
     IdleRefused, StaleAtIdle, Process, Deliver, DeliverStop, Dequeue, Claim,
     TickFails, LeaveWait, Shutdown, Restart, Crash, RecoveryLists,
     RecoveryMarks
<1>6. QED
  BY <1>1, <1>2, <1>3, <1>4, <1>5 DEF Next

\* Neither makes a second one: the retry finds the session idle, and the
\* owner finds its snapshot still current.
LEMMA OneRunStep ==
    ASSUME Inv, Next
    PROVE  AtMostOneActiveRun'
<1> USE DEF Inv, TypeOK, AtMostOneActiveRun, ActiveRuns
<1>1. CASE NoNewActiveRun
  BY <1>1 DEF NoNewActiveRun
<1>2. CASE RetryFailedRun
  BY <1>2 DEF IdleMeansNoWork, RetryFailedRun
<1>3. ASSUME NEW w \in Workers, CreatePendingRun(w) PROVE AtMostOneActiveRun'
  <2>1. ActiveRuns = {}
    BY <1>3 DEF CreatePendingRun, SnapshotIsCurrent, TheActiveRun
  <2>2. QED
    BY <1>3, <2>1 DEF CreatePendingRun
<1>4. QED
  BY <1>1, <1>2, <1>3, OnlyCreationsActivate

-----------------------------------------------------------------------------
(* An idle session.                                                        *)

\* Idling rechecks commands, inputs and runs under the row lock, and work
\* is admitted with the wake transition, so an idle session has none.
LEMMA IdleStep ==
    ASSUME Inv, Next
    PROVE  IdleMeansNoWork'
<1> USE DEF Inv, TypeOK, IdleMeansNoWork, PendingInputs
<1>1. CASE Environment
  BY <1>1 DEF Environment, Admit, AdmitTriggerToIdle, TriggerSeesRunning,
     TriggerCommits, Withdraw, EnqueueCommand, RetryFailedRun, RequestStop,
     ActiveRuns
<1>2. ASSUME NEW w \in Workers, Prepares(w) \/ Executes(w) \/ Stops(w)
      PROVE  IdleMeansNoWork'
  <2>1. /\ UNCHANGED runState
        /\ pendingCommand' => pendingCommand
        /\ stopRequested' => stopRequested
        /\ PendingInputs' \subseteq PendingInputs
    <3>1. CASE Prepares(w)
      BY <3>1 DEF Prepares, Load, LoadRejected, LoseOwnership,
         PromotionConflict, Reject, UnknownCommand, Recover, NothingToRun,
         CreatePendingRun, Promote, CancelPendingRun, BeginEngine,
         EndBeforeEngine
    <3>2. CASE Executes(w)
      BY <3>2 DEF Executes, EngineComplete, EngineInterrupt, EngineFail,
         EngineEnds, EngineFailsAfterStop, ClearCommand, Settled,
         UnhandledError, FailUnhandledRun
    <3>3. CASE Stops(w)
      BY <3>3 DEF Stops, StopDetected, StopMark, StopEvents, StopClear,
         ShutdownCancels, AfterStop, DiscardWakeUps
    <3>4. QED
      BY <1>2, <3>1, <3>2, <3>3
  <2>2. runState = "idle" => NoNewActiveRun
    <3>1. runState = "idle" => ~RetryFailedRun
      BY <2>1 DEF RetryFailedRun
    <3>2. ASSUME NEW v \in Workers, CreatePendingRun(v)
          PROVE  runState = "running"
      BY <3>2 DEF CreatePendingRun, OwnerPreparesItsRun
    <3>3. QED
      BY <1>2, <3>1, <3>2, OnlyCreationsActivate DEF Next
  <2>3. QED
    BY <2>1, <2>2 DEF NoNewActiveRun, ActiveRuns
<1>3. ASSUME NEW w \in Workers, Idles(w) PROVE IdleMeansNoWork'
  <2>1. CASE MarkIdle(w)
    BY <2>1 DEF MarkIdle, SessionHasWork, ActiveRuns
  <2>2. CASE ConsumeIdle(w)
    BY <2>2 DEF ConsumeIdle, SessionHasWork, ActiveRuns
  <2>3. QED
    BY <1>3, <2>1, <2>2 DEF Idles, EndBoundary, BeginIdle, IdleRefused, StaleAtIdle, ActiveRuns
<1>4. ASSUME NEW w \in Workers, Process(w) PROVE IdleMeansNoWork'
  BY <1>4 DEF Process, Deliver, DeliverStop, Dequeue, Claim,
     TickFails, LeaveWait, Shutdown, Restart, Crash, RecoveryLists,
     RecoveryMarks, ActiveRuns
<1>5. QED
  BY <1>1, <1>2, <1>3, <1>4 DEF Next

-----------------------------------------------------------------------------
(* What the owner relies on.                                               *)

\* The state of one runner and of the session, as the three invariants
\* about owners describe them.
OwnerOK(w) ==
    Fenced(w) =>
        /\ pc[w] \in LoadedPcs \ {"unhandled"} => runState = "running"
        /\ pc[w] \in PreparePcs => cur[w] \in ActiveRuns
        /\ pc[w] = "engine" => ActiveRuns = {cur[w]} /\ run[cur[w]] = "running"
        /\ pc[w] = "recover" => /\ cur[w] = TheActiveRun
                               /\ cmd[w] = pendingCommand
                               /\ idleRun[w] = pendingIdle

\* The three invariants about owners are one statement per runner.
LEMMA OwnersAreOK ==
    (\A w \in Workers : OwnerOK(w)) <=>
        OwnerPreparesItsRun /\ SnapshotIsCurrent /\ EngineOwnsItsRun
BY DEF OwnerOK, OwnerPreparesItsRun, SnapshotIsCurrent, EngineOwnsItsRun

\* Nothing a runner relies on changes.
Undisturbed(v) ==
    /\ UNCHANGED <<ownerGeneration, run, pendingCommand, pendingIdle>>
    /\ runState' \in {runState, "running"}
    /\ pc'[v] = pc[v] /\ gen'[v] = gen[v] /\ cmd'[v] = cmd[v]
    /\ cur'[v] = cur[v] /\ idleRun'[v] = idleRun[v]

\* An undisturbed runner may rely on what it relied on.
LEMMA UndisturbedOwner ==
    ASSUME NEW v \in Workers, TypeOK, OwnerOK(v), Undisturbed(v)
    PROVE  OwnerOK(v)'
<1>1. UNCHANGED <<ActiveRuns, TheActiveRun>>
  BY DEF Undisturbed, ActiveRuns, TheActiveRun
<1>2. QED
  BY <1>1 DEF Undisturbed, OwnerOK, Fenced, TypeOK

\* No request disturbs what the owner relies on: those that would are
\* accepted by an idle session only, and the owner's is running.
LEMMA EnvironmentOwners ==
    ASSUME NEW v \in Workers, Inv, OwnerOK(v), Environment
    PROVE  OwnerOK(v)'
<1>1. CASE Undisturbed(v)
  BY <1>1, UndisturbedOwner DEF Inv
<1>2. CASE EnqueueCommand
  BY <1>2 DEF EnqueueCommand, OwnerOK, Fenced, Inv, TypeOK, ActiveRuns, TheActiveRun
<1>3. CASE RetryFailedRun
  BY <1>3 DEF RetryFailedRun, OwnerOK, Fenced, Inv, TypeOK, ActiveRuns, IdleMeansNoWork
<1>4. QED
  BY <1>1, <1>2, <1>3 DEF Environment, Admit, AdmitTriggerToIdle,
     TriggerSeesRunning, TriggerCommits, Withdraw, RequestStop, Undisturbed

\* A step of another runner leaves this one undisturbed, unless it commits
\* a fenced transaction or claims a generation.
LEMMA OtherOwners ==
    ASSUME NEW w \in Workers, NEW v \in Workers \ {w}, Inv, OwnerOK(v),
           Prepares(w) \/ Executes(w) \/ Stops(w) \/ Idles(w) \/ Process(w)
    PROVE  OwnerOK(v)'
<1> DEFINE Still == /\ pc'[v] = pc[v] /\ gen'[v] = gen[v] /\ cmd'[v] = cmd[v]
                    /\ cur'[v] = cur[v] /\ idleRun'[v] = idleRun[v]
           Commits == /\ Fenced(w) /\ pc[w] \in ClaimedPcs
                      /\ UNCHANGED ownerGeneration
<1> USE DEF Inv, TypeOK, Goto
<1>1. Still
  <2>1. CASE Prepares(w)
    BY <2>1 DEF Prepares, Load, LoadRejected, LoseOwnership,
       PromotionConflict, Reject, UnknownCommand, Recover, NothingToRun,
       CreatePendingRun, Promote, CancelPendingRun, BeginEngine,
       EndBeforeEngine, NoActionableWork
  <2>2. CASE Executes(w)
    BY <2>2 DEF Executes, EngineComplete, EngineInterrupt, EngineFail,
       EngineEnds, EngineFailsAfterStop, ClearCommand, Settled,
       UnhandledError, FailUnhandledRun
  <2>3. CASE Stops(w)
    BY <2>3 DEF Stops, StopDetected, StopMark, StopEvents, StopClear,
       ShutdownCancels, AfterStop, DiscardWakeUps
  <2>4. CASE Idles(w)
    BY <2>4 DEF Idles, EndBoundary, BeginIdle, MarkIdle, ConsumeIdle,
       IdleRefused, StaleAtIdle, Rest, Waits, Exit, Reset
  <2>5. CASE Process(w)
    BY <2>5 DEF Process, Deliver, DeliverStop, Dequeue, Claim, TickFails,
       LeaveWait, Shutdown, Restart, Crash, RecoveryLists, RecoveryMarks,
       Exit, Reset
  <2>6. QED
    BY <2>1, <2>2, <2>3, <2>4, <2>5
<1>2. Commits \/ Claim(w) \/ Undisturbed(v)
  <2>1. CASE Prepares(w)
    BY <1>1, <2>1 DEF Prepares, Load, LoadRejected, LoseOwnership,
       PromotionConflict, Reject, UnknownCommand, Recover, NothingToRun,
       CreatePendingRun, Promote, CancelPendingRun, BeginEngine,
       EndBeforeEngine, Undisturbed
  <2>2. CASE Executes(w)
    BY <1>1, <2>2 DEF Executes, EngineComplete, EngineInterrupt, EngineFail,
       EngineEnds, EngineFailsAfterStop, ClearCommand, Settled,
       UnhandledError, FailUnhandledRun, Undisturbed
  <2>3. CASE Stops(w)
    BY <1>1, <2>3 DEF Stops, StopDetected, StopMark, StopEvents, StopClear,
       ShutdownCancels, AfterStop, DiscardWakeUps, Undisturbed
  <2>4. CASE Idles(w)
    BY <1>1, <2>4 DEF Idles, EndBoundary, BeginIdle, MarkIdle, ConsumeIdle,
       IdleRefused, StaleAtIdle, Undisturbed
  <2>5. CASE Process(w)
    BY <1>1, <2>5 DEF Process, Deliver, DeliverStop, Dequeue, TickFails,
       LeaveWait, Shutdown, Restart, Crash, RecoveryLists, RecoveryMarks,
       Undisturbed
  <2>6. QED
    BY <2>1, <2>2, <2>3, <2>4, <2>5
<1>3. CASE Commits
  <2>1. ~(Fenced(v) /\ pc[v] \in ClaimedPcs)
    BY <1>3, OneOwner
  <2>2. QED
    BY <1>1, <1>3, <2>1 DEF OwnerOK, Fenced
<1>4. CASE Claim(w)
  BY <1>4, <1>1 DEF Claim, OwnerOK, Fenced, GenerationsAreExclusive
<1>5. QED
  BY <1>2, <1>3, <1>4, UndisturbedOwner

\* Its own step establishes what the runner relies on next.
LEMMA OwnStep ==
    ASSUME NEW w \in Workers, Inv, OwnerOK(w),
           Prepares(w) \/ Executes(w) \/ Stops(w) \/ Idles(w) \/ Process(w)
    PROVE  OwnerOK(w)'
<1> USE DEF Inv, TypeOK, Goto, OwnerOK, Fenced
<1>1. CASE Load(w)
  BY <1>1 DEF Load, ActiveRuns, TheActiveRun
<1>2. CASE LoadRejected(w) \/ LoseOwnership(w) \/ PromotionConflict(w)
  BY <1>2 DEF LoadRejected, LoseOwnership, PromotionConflict, Reject
<1>3. CASE UnknownCommand(w)
  BY <1>3 DEF UnknownCommand
<1>4. CASE Recover(w)
  BY <1>4 DEF Recover, ActiveRuns, TheActiveRun
<1>5. CASE NothingToRun(w)
  BY <1>5 DEF NothingToRun, NoActionableWork
<1>6. CASE CreatePendingRun(w)
  BY <1>6 DEF CreatePendingRun, ActiveRuns
<1>7. CASE CancelPendingRun(w)
  BY <1>7 DEF CancelPendingRun, NoActionableWork
<1>8. CASE BeginEngine(w)
  BY <1>8 DEF BeginEngine, ActiveRuns, AtMostOneActiveRun
<1>9. ASSUME NEW i \in Inputs, Promote(w, i) PROVE OwnerOK(w)'
  BY <1>9 DEF Promote, ActiveRuns
<1>10. CASE \E s \in {"cancelled", "failed", "completed"} :
               EndBeforeEngine(w, s)
  BY <1>10 DEF EndBeforeEngine
<1>11. CASE Executes(w)
  <2>1. CASE EngineComplete(w) \/ EngineInterrupt(w) \/ EngineFail(w)
    BY <2>1 DEF EngineComplete, EngineInterrupt, EngineFail, EngineEnds
  <2>2. CASE EngineFailsAfterStop(w) \/ ClearCommand(w)
    BY <2>2 DEF EngineFailsAfterStop, ClearCommand
  <2>3. CASE Settled(w)
    BY <2>3 DEF Settled
  <2>4. CASE UnhandledError(w)
    BY <2>4 DEF UnhandledError
  <2>5. CASE FailUnhandledRun(w)
    <3>1. TheRunningRun # NoRun => runState = "running"
      BY DEF TheRunningRun, IdleMeansNoWork, ActiveRuns
    <3>2. QED
      BY <2>5, <3>1 DEF FailUnhandledRun
  <2>6. QED
    BY <1>11, <2>1, <2>2, <2>3, <2>4, <2>5 DEF Executes
<1>12. CASE Stops(w)
  BY <1>12 DEF Stops, StopDetected, Supervised, StopMark, StopEvents,
     StopClear, ShutdownCancels, AfterStop, DiscardWakeUps
<1>13. CASE Idles(w)
  BY <1>13 DEF Idles, EndBoundary, BeginIdle, MarkIdle, ConsumeIdle,
     IdleRefused, StaleAtIdle, Rest, Waits, Exit, Reset
<1>14. CASE Process(w)
  <2>1. CASE Undisturbed(w)
    BY <2>1, UndisturbedOwner
  <2>2. CASE pc'[w] \in {"none", "wait", "claim", "load"}
    BY <2>2
  <2>3. QED
    BY <1>14, <2>1, <2>2 DEF Process, Deliver, DeliverStop, Dequeue, Claim,
       TickFails, LeaveWait, Shutdown, Restart, Crash, RecoveryLists,
       RecoveryMarks, Exit, Reset, Undisturbed
<1>15. QED
  BY <1>1, <1>2, <1>3, <1>4, <1>5, <1>6, <1>7, <1>8, <1>9, <1>10, <1>11,
     <1>12, <1>13, <1>14 DEF Prepares

-----------------------------------------------------------------------------
(* The inductive invariant and what follows from it.                       *)

\* Every step keeps the types.
LEMMA TypeStep == TypeOK /\ [Next]_vars => TypeOK'
<1>1. CASE UNCHANGED vars
  BY <1>1 DEF TypeOK
<1>2. CASE Next
  BY <1>2, EnvironmentType, PreparesType, ExecutesType, StopsType, IdlesType,
     ProcessType DEF Next
<1>3. QED
  BY <1>1, <1>2

\* The inductive invariant holds initially ...
LEMMA InvInit == Init => Inv
<1> SUFFICES ASSUME Init PROVE Inv
  OBVIOUS
<1>1. TypeOK
  <2>1. 0 \in 0..MaxGen /\ 0 \in 0..MaxInbox
    OBVIOUS
  <2>2. gen \in [Workers -> 0..MaxGen] /\ inbox \in [Workers -> 0..MaxInbox]
    BY <2>1 DEF Init
  <2>3. pc \in [Workers -> Pcs] /\ mode \in [Workers -> Modes]
    BY DEF Init
  <2>4. /\ userStop \in [Workers -> BOOLEAN]
        /\ cmd \in [Workers -> BOOLEAN]
        /\ stuck \in [Workers -> BOOLEAN]
    BY DEF Init
  <2>5. QED
    BY <2>1, <2>2, <2>3, <2>4 DEF Init, TypeOK
<1>2. GenerationsAreExclusive /\ IdleMeansNoWork /\ AtMostOneActiveRun
  BY DEF Init, GenerationsAreExclusive, IdleMeansNoWork, AtMostOneActiveRun,
     ActiveRuns, PendingInputs
<1>3. OwnerPreparesItsRun /\ SnapshotIsCurrent /\ EngineOwnsItsRun
  BY DEF Init, OwnerPreparesItsRun, SnapshotIsCurrent, EngineOwnsItsRun
<1>4. QED
  BY <1>1, <1>2, <1>3 DEF Inv

\* ... and every step preserves it.
LEMMA InvStep == Inv /\ [Next]_vars => Inv'
<1>1. CASE UNCHANGED vars
  BY <1>1 DEF Inv, TypeOK, GenerationsAreExclusive, IdleMeansNoWork,
     AtMostOneActiveRun, OwnerPreparesItsRun, SnapshotIsCurrent,
     EngineOwnsItsRun, ActiveRuns, PendingInputs, TheActiveRun, Fenced
<1>2. ASSUME Inv, Next PROVE Inv'
  <2>1. TypeOK'
    BY <1>2, TypeStep DEF Inv
  <2>2. GenerationsAreExclusive'
    <3>1. CASE Environment
      BY <1>2, <3>1, KeptGenerations DEF Inv, Environment, Admit,
         AdmitTriggerToIdle, TriggerSeesRunning, TriggerCommits, Withdraw,
         EnqueueCommand, RetryFailedRun, RequestStop
    <3>2. QED
      BY <1>2, <3>1, GenerationsStep DEF Inv, Next
  <2>3. \A v \in Workers : OwnerOK(v)'
    <3> TAKE v \in Workers
    <3>1. OwnerOK(v)
      BY <1>2, OwnersAreOK DEF Inv
    <3>2. QED
      BY <1>2, <3>1, EnvironmentOwners, OtherOwners, OwnStep DEF Next
  <2>4. (OwnerPreparesItsRun /\ SnapshotIsCurrent /\ EngineOwnsItsRun)'
    BY <2>3 DEF OwnerOK, OwnerPreparesItsRun, SnapshotIsCurrent,
       EngineOwnsItsRun
  <2>5. QED
    BY <1>2, <2>1, <2>2, <2>4, OneRunStep, IdleStep DEF Inv
<1>3. QED
  BY <1>1, <1>2

\* Every reachable state satisfies the inductive invariant, however many
\* Workers own, lose and recover the session.
THEOREM Invariance == Spec => []Inv
BY InvInit, InvStep, PTL DEF Spec

\* Columns and runner fields always hold a value of their type.
THEOREM TypeCorrect == Spec => []TypeOK
<1>1. Inv => TypeOK
  BY DEF Inv
<1>2. QED
  BY <1>1, Invariance, PTL

\* A session that mark_session_idle or an idle continuation left idle has
\* no command, run or stop, and no input but an unlocked scheduled one.
THEOREM IdleSessionsHaveNoWork == Spec => []IdleMeansNoWork
<1>1. Inv => IdleMeansNoWork
  BY DEF Inv
<1>2. QED
  BY <1>1, Invariance, PTL

\* create_pending never makes a second active run of the session, though
\* its caller decided on a snapshot taken awaits before.
THEOREM OneActiveRun == Spec => []AtMostOneActiveRun
<1>1. Inv => AtMostOneActiveRun
  BY DEF Inv
<1>2. QED
  BY <1>1, Invariance, PTL

\* What load_canonical_snapshot returned is still so when the executor
\* recovers, as long as its generation is the current one.
THEOREM SnapshotsAreCurrent == Spec => []SnapshotIsCurrent
<1>1. Inv => SnapshotIsCurrent
  BY DEF Inv
<1>2. QED
  BY <1>1, Invariance, PTL

\* A current runner inside the engine works on the session's only active
\* run, and that run is RUNNING.
THEOREM EnginesOwnTheirRuns == Spec => []EngineOwnsItsRun
<1>1. Inv => EngineOwnsItsRun
  BY DEF Inv
<1>2. QED
  BY <1>1, Invariance, PTL

-----------------------------------------------------------------------------
(* What a step may never do.                                               *)

\* No step changes a terminal run, but for interrupted to stopped.
LEMMA FinalStep ==
    ASSUME TypeOK, Next, NEW r \in Runs, run[r] \in TerminalStatuses
    PROVE  \/ run'[r] = run[r]
           \/ run[r] = "interrupted" /\ run'[r] = "stopped"
<1> USE DEF TypeOK
<1>1. CASE Environment
  BY <1>1 DEF Environment, Admit, AdmitTriggerToIdle, TriggerSeesRunning,
     TriggerCommits, Withdraw, EnqueueCommand, RequestStop, RetryFailedRun
<1>2. ASSUME NEW w \in Workers, Prepares(w)
      PROVE  run'[r] = run[r]
  BY <1>2 DEF Prepares, Load, LoadRejected, LoseOwnership, PromotionConflict,
     Reject, UnknownCommand, Recover, NothingToRun, CreatePendingRun, Promote,
     CancelPendingRun, BeginEngine, EndBeforeEngine
<1>3. ASSUME NEW w \in Workers, Executes(w) PROVE run'[r] = run[r]
  <2>1. TheRunningRun # NoRun => run[TheRunningRun] = "running"
    BY DEF TheRunningRun
  <2>2. QED
    BY <1>3, <2>1 DEF Executes, EngineComplete, EngineInterrupt, EngineFail,
       EngineEnds, EngineFailsAfterStop, ClearCommand, Settled,
       UnhandledError, FailUnhandledRun
<1>4. ASSUME NEW w \in Workers, Stops(w)
      PROVE  \/ run'[r] = run[r]
             \/ run[r] = "interrupted" /\ run'[r] = "stopped"
  <2>1. CASE StopMark(w)
    BY <2>1 DEF StopMark
  <2>2. QED
    BY <1>4, <2>1 DEF Stops, StopDetected, StopEvents, StopClear,
       ShutdownCancels, AfterStop, DiscardWakeUps
<1>5. ASSUME NEW w \in Workers, Idles(w) \/ Process(w) PROVE UNCHANGED run
  BY <1>5 DEF Idles, EndBoundary, BeginIdle, MarkIdle, ConsumeIdle,
     IdleRefused, StaleAtIdle, Process, Deliver, DeliverStop, Dequeue, Claim,
     TickFails, LeaveWait, Shutdown, Restart, Crash, RecoveryLists,
     RecoveryMarks
<1>6. QED
  BY <1>1, <1>2, <1>3, <1>4, <1>5 DEF Next

\* mark_terminal is final: no crash, takeover, stop or error rewrites the
\* outcome of a run, except that an interrupted one may become stopped.
THEOREM FinalStatuses == Spec => TerminalRunsAreFinal
<1>1. Inv /\ [Next]_vars =>
        [\A r \in Runs :
            run[r] \in TerminalStatuses =>
                \/ run'[r] = run[r]
                \/ run[r] = "interrupted" /\ run'[r] = "stopped"]_vars
  BY FinalStep DEF Inv
<1>2. QED
  BY <1>1, Invariance, PTL DEF Spec, TerminalRunsAreFinal

\* A promotion is a step of the owner, which has prepared a run.
LEMMA PromotionStep ==
    ASSUME Inv, Next, NEW i \in Inputs,
           mailbox[i] = "pending", mailbox'[i] = "promoted"
    PROVE  ActiveRuns # {}
<1> USE DEF Inv, TypeOK
<1>1. ~Environment
  BY DEF Environment, Admit, AdmitTriggerToIdle, TriggerSeesRunning,
     TriggerCommits, Withdraw, EnqueueCommand, RequestStop, RetryFailedRun
<1>2. PICK w \in Workers :
        Prepares(w) \/ Executes(w) \/ Stops(w) \/ Idles(w) \/ Process(w)
  BY <1>1 DEF Next
<1>3. \E j \in Inputs : Promote(w, j)
  BY <1>2 DEF Prepares, Load, LoadRejected, LoseOwnership, PromotionConflict,
     Reject, UnknownCommand, Recover, NothingToRun, CreatePendingRun,
     CancelPendingRun, BeginEngine, EndBeforeEngine, Executes, EngineComplete,
     EngineInterrupt, EngineFail, EngineEnds, EngineFailsAfterStop,
     ClearCommand, Settled, UnhandledError, FailUnhandledRun, Stops,
     StopDetected, StopMark, StopEvents, StopClear, ShutdownCancels,
     AfterStop, DiscardWakeUps, Idles, EndBoundary, BeginIdle, MarkIdle,
     ConsumeIdle, IdleRefused, StaleAtIdle, Process, Deliver, DeliverStop,
     Dequeue, Claim, TickFails, LeaveWait, Shutdown, Restart, Crash,
     RecoveryLists, RecoveryMarks
<1>4. QED
  BY <1>3 DEF Promote, OwnerPreparesItsRun, EngineOwnsItsRun

\* Mailbox items become transcript only while the session has a run that
\* answers them, even when the promoting runner is being superseded.
THEOREM PromotionsHaveARun == Spec => PromotedIntoActiveRun
<1>1. Inv /\ [Next]_vars =>
        [\A i \in Inputs :
            mailbox[i] = "pending" /\ mailbox'[i] = "promoted" =>
                ActiveRuns # {}]_vars
  BY PromotionStep
<1>2. QED
  BY <1>1, Invariance, PTL DEF Spec, PromotedIntoActiveRun

\* A boundary is set in the step that completes its run.
LEMMA BoundaryStep ==
    ASSUME TypeOK, Next, pendingIdle' # pendingIdle, pendingIdle' # NoRun
    PROVE  run[pendingIdle'] = "running" /\ run'[pendingIdle'] = "completed"
<1> USE DEF TypeOK
<1>1. ~Environment
  BY DEF Environment, Admit, AdmitTriggerToIdle, TriggerSeesRunning,
     TriggerCommits, Withdraw, EnqueueCommand, RequestStop, RetryFailedRun
<1>2. PICK w \in Workers :
        Prepares(w) \/ Executes(w) \/ Stops(w) \/ Idles(w) \/ Process(w)
  BY <1>1 DEF Next
<1>3. CASE Prepares(w)
  BY <1>3 DEF Prepares, Load, LoadRejected, LoseOwnership, PromotionConflict,
     Reject, UnknownCommand, Recover, NothingToRun, CreatePendingRun, Promote,
     CancelPendingRun, BeginEngine, EndBeforeEngine
<1>4. CASE Executes(w)
  BY <1>4 DEF Executes, EngineComplete, EngineInterrupt, EngineFail,
     EngineEnds, EngineFailsAfterStop, ClearCommand, Settled, UnhandledError,
     FailUnhandledRun
<1>5. CASE Stops(w)
  BY <1>5 DEF Stops, StopDetected, StopMark, StopEvents, StopClear,
     ShutdownCancels, AfterStop, DiscardWakeUps
<1>6. CASE Idles(w)
  BY <1>6 DEF Idles, EndBoundary, BeginIdle, MarkIdle, ConsumeIdle,
     IdleRefused, StaleAtIdle
<1>7. CASE Process(w)
  BY <1>7 DEF Process, Deliver, DeliverStop, Dequeue, Claim, TickFails,
     LeaveWait, Shutdown, Restart, Crash, RecoveryLists, RecoveryMarks
<1>8. QED
  BY <1>2, <1>3, <1>4, <1>5, <1>6, <1>7

\* complete_model_run alone opens a continuation boundary, for the run it
\* completes; no later step reopens it.
THEOREM BoundariesOpenAtCompletion == Spec => BoundaryOpensAtCompletion
<1>1. Inv /\ [Next]_vars =>
        [pendingIdle' # pendingIdle /\ pendingIdle' # NoRun =>
            run[pendingIdle'] = "running" /\ run'[pendingIdle'] = "completed"]_vars
  BY BoundaryStep DEF Inv
<1>2. QED
  BY <1>1, Invariance, PTL DEF Spec, BoundaryOpensAtCompletion

-----------------------------------------------------------------------------
(* SessionExecution implements SessionRuns.                                *)

\* With at most one active run, TheActiveRun is it.
LEMMA TheActiveRunIs ==
    ASSUME AtMostOneActiveRun
    PROVE  /\ \A r \in Runs : r \in ActiveRuns => TheActiveRun = r
           /\ ActiveRuns = {} <=> TheActiveRun = NoRun
BY DEF AtMostOneActiveRun, TheActiveRun, ActiveRuns

\* A step that touches no run stutters or wakes the abstract session.
LEMMA KeptRuns ==
    ASSUME UNCHANGED <<run, pendingIdle>>
    PROVE  /\ UNCHANGED runState => UNCHANGED Abstract!vars
           /\ runState' = "running" => Abstract!Wake
BY DEF Abstract!vars, Abstract!Wake, TheActiveRun, ActiveRuns

\* A run created while none is active starts the abstract run.
LEMMA StartedRun ==
    ASSUME NEW r \in Runs, Inv, AtMostOneActiveRun', run[r] = "absent",
           ActiveRuns = {}, run' = [run EXCEPT ![r] = "pending"],
           runState' = "running", UNCHANGED pendingIdle
    PROVE  Abstract!Start(r)
<1> USE DEF Inv, TypeOK
<1>1. TheActiveRun = NoRun
  BY TheActiveRunIs
<1>2. TheActiveRun' = r
  <2>1. r \in ActiveRuns' /\ ActiveRuns' \subseteq {r}
    BY DEF ActiveRuns
  <2>2. QED
    BY <2>1 DEF TheActiveRun
<1>3. QED
  BY <1>1, <1>2 DEF Abstract!Start

\* The run keeps its place among the active or the finished ones.
SamePlace(q) ==
    /\ run'[q] \in ActiveStatuses <=> run[q] \in ActiveStatuses
    /\ run'[q] \in TerminalStatuses <=> run[q] \in TerminalStatuses

\* A run that becomes terminal finishes the abstract run.
LEMMA FinishedRun ==
    ASSUME NEW r \in Runs, NEW s \in TerminalStatuses, Inv,
           run[r] \in ActiveStatuses, run'[r] = s,
           \A q \in Runs \ {r} : SamePlace(q),
           pendingIdle' = IF s = "completed" THEN r ELSE pendingIdle,
           UNCHANGED runState
    PROVE  \E c \in BOOLEAN : Abstract!Finish(c)
<1> USE DEF Inv, TypeOK
<1>1. ActiveRuns = {r} /\ TheActiveRun = r
  BY TheActiveRunIs DEF ActiveRuns, AtMostOneActiveRun
<1>2. ActiveRuns' = {}
  BY <1>1 DEF ActiveRuns, SamePlace
<1>3. TheActiveRun' = NoRun
  BY <1>2 DEF TheActiveRun
<1>4. {q \in Runs : run'[q] \in TerminalStatuses}
        = {q \in Runs : run[q] \in TerminalStatuses} \cup {r}
  BY DEF SamePlace
<1>5. Abstract!Finish(s = "completed")
  BY <1>1, <1>3, <1>4 DEF Abstract!Finish
<1>6. QED
  BY <1>5

\* A fresh session is an abstract session at rest.
LEMMA RefineInit == Init => Abstract!Init
BY DEF Init, Abstract!Init, TheActiveRun, ActiveRuns, ActiveStatuses

\* Every step inside a boundary is an abstract step or a stutter.
LEMMA RefineCommit ==
    ASSUME NEW w \in Workers, Inv, Inv',
           Prepares(w) \/ Executes(w) \/ Stops(w)
    PROVE  [Abstract!Next]_(Abstract!vars)
<1> USE DEF Inv, TypeOK
<1>1. UNCHANGED runState
  BY DEF Prepares, Load, LoadRejected, LoseOwnership, PromotionConflict,
     Reject, UnknownCommand, Recover, NothingToRun, CreatePendingRun, Promote,
     CancelPendingRun, BeginEngine, EndBeforeEngine, Executes, EngineComplete,
     EngineInterrupt, EngineFail, EngineEnds, EngineFailsAfterStop,
     ClearCommand, Settled, UnhandledError, FailUnhandledRun, Stops,
     StopDetected, StopMark, StopEvents, StopClear, ShutdownCancels,
     AfterStop, DiscardWakeUps
<1>2. CASE UNCHANGED <<run, pendingIdle>>
  BY <1>1, <1>2, KeptRuns
<1>3. ASSUME NEW r \in Runs, NEW s \in TerminalStatuses,
             run[r] \in ActiveStatuses, run' = [run EXCEPT ![r] = s],
             pendingIdle' = IF s = "completed" THEN r ELSE pendingIdle
      PROVE  [Abstract!Next]_(Abstract!vars)
  <2>1. run'[r] = s /\ \A q \in Runs \ {r} : SamePlace(q)
    BY <1>3 DEF SamePlace
  <2>2. QED
    BY <1>1, <1>3, <2>1, FinishedRun DEF Abstract!Next
<1>4. CASE CreatePendingRun(w)
  <2>1. ActiveRuns = {} /\ runState = "running"
    BY <1>4, TheActiveRunIs DEF CreatePendingRun, SnapshotIsCurrent
  <2>2. \E r \in Runs : Abstract!Start(r)
    BY <1>1, <1>4, <2>1, StartedRun DEF CreatePendingRun
  <2>3. QED
    BY <2>2 DEF Abstract!Next
<1>5. CASE BeginEngine(w)
  <2>1. cur[w] \in ActiveRuns
    BY <1>5 DEF BeginEngine, OwnerPreparesItsRun
  <2>2. ActiveRuns' = ActiveRuns
    BY <1>5, <2>1 DEF BeginEngine, ActiveRuns
  <2>3. TheActiveRun' = TheActiveRun /\ TheActiveRun # NoRun
    BY <2>1, <2>2, TheActiveRunIs DEF TheActiveRun
  <2>4. {q \in Runs : run'[q] \in TerminalStatuses}
          = {q \in Runs : run[q] \in TerminalStatuses}
    BY <1>5, <2>1 DEF BeginEngine, ActiveRuns
  <2>5. pendingIdle' = NoRun \/ UNCHANGED pendingIdle
    BY <1>5 DEF BeginEngine
  <2>6. Abstract!Activate \/ UNCHANGED Abstract!vars
    BY <1>1, <2>3, <2>4, <2>5 DEF Abstract!Activate, Abstract!vars
  <2>7. QED
    BY <2>6 DEF Abstract!Next
<1>6. CASE CancelPendingRun(w)
  BY <1>3, <1>6 DEF CancelPendingRun, OwnerPreparesItsRun, ActiveRuns
<1>7. CASE \E s \in {"cancelled", "failed", "completed"} :
              EndBeforeEngine(w, s)
  BY <1>3, <1>7 DEF EndBeforeEngine, OwnerPreparesItsRun, ActiveRuns
<1>8. CASE EngineComplete(w) \/ EngineInterrupt(w) \/ EngineFail(w)
  BY <1>3, <1>8 DEF EngineComplete, EngineInterrupt, EngineFail, EngineEnds,
     EngineOwnsItsRun, ActiveRuns
<1>9. CASE FailUnhandledRun(w)
  <2>1. TheRunningRun # NoRun =>
          TheRunningRun \in Runs /\ run[TheRunningRun] = "running"
    BY DEF TheRunningRun
  <2>2. CASE UNCHANGED run
    BY <1>2, <1>9, <2>2 DEF FailUnhandledRun
  <2>3. CASE TheRunningRun # NoRun
    <3>1. \/ run' = [run EXCEPT ![TheRunningRun] = "failed"]
          \/ UNCHANGED run
      BY <1>9 DEF FailUnhandledRun
    <3>2. UNCHANGED pendingIdle
      BY <1>9 DEF FailUnhandledRun
    <3>3. QED
      BY <1>3, <2>1, <2>2, <2>3, <3>1, <3>2
  <2>4. QED
    BY <1>9, <2>2, <2>3 DEF FailUnhandledRun
<1>10. CASE StopMark(w)
  <2>1. /\ UNCHANGED pendingIdle
        /\ \A q \in Runs :
              \/ run'[q] = run[q]
              \/ run[q] \in {"running", "interrupted"} /\ run'[q] = "stopped"
    BY <1>10 DEF StopMark
  <2>2. CASE \A q \in Runs : SamePlace(q)
    <3>1. ActiveRuns' = ActiveRuns
      BY <2>2 DEF ActiveRuns, SamePlace
    <3>2. TheActiveRun' = TheActiveRun
      BY <3>1 DEF TheActiveRun
    <3>3. {q \in Runs : run'[q] \in TerminalStatuses}
            = {q \in Runs : run[q] \in TerminalStatuses}
      BY <2>2 DEF SamePlace
    <3>4. QED
      BY <1>1, <2>1, <3>2, <3>3 DEF Abstract!vars
  <2>3. CASE ~\A q \in Runs : SamePlace(q)
    <3>1. PICK r \in Runs : run[r] = "running" /\ run'[r] = "stopped"
      BY <2>1, <2>3 DEF SamePlace
    <3>2. \A q \in Runs \ {r} : SamePlace(q)
      BY <2>1, <3>1 DEF SamePlace, AtMostOneActiveRun, ActiveRuns
    <3>3. QED
      BY <1>1, <2>1, <3>1, <3>2, FinishedRun DEF Abstract!Next
  <2>4. QED
    BY <2>2, <2>3
<1>11. QED
  BY <1>2, <1>4, <1>5, <1>6, <1>7, <1>8, <1>9, <1>10 DEF Prepares, Load,
     LoadRejected, LoseOwnership, PromotionConflict, Reject, UnknownCommand,
     Recover, NothingToRun, Promote, Executes, EngineFailsAfterStop,
     ClearCommand, Settled, UnhandledError, Stops, StopDetected, StopEvents,
     StopClear, ShutdownCancels, AfterStop, DiscardWakeUps

\* Every step is an abstract step or a stutter.
LEMMA RefineStep ==
    Inv /\ Inv' /\ [Next]_vars => [Abstract!Next]_(Abstract!vars)
<1> SUFFICES ASSUME Inv, Inv', [Next]_vars
             PROVE  [Abstract!Next]_(Abstract!vars)
  OBVIOUS
<1> USE DEF Inv, TypeOK
<1>1. CASE UNCHANGED <<run, pendingIdle>> /\ runState' \in {runState, "running"}
  BY <1>1, KeptRuns DEF Abstract!Next, Abstract!vars
<1>2. CASE RetryFailedRun
  <2>1. ActiveRuns = {}
    BY <1>2 DEF RetryFailedRun, IdleMeansNoWork
  <2>2. \E r \in Runs : Abstract!Start(r)
    BY <1>2, <2>1, StartedRun DEF RetryFailedRun
  <2>3. QED
    BY <2>2 DEF Abstract!Next
<1>3. ASSUME NEW w \in Workers, Prepares(w) \/ Executes(w) \/ Stops(w)
      PROVE  [Abstract!Next]_(Abstract!vars)
  BY <1>3, RefineCommit
<1>4. ASSUME NEW w \in Workers, MarkIdle(w) \/ ConsumeIdle(w)
      PROVE  [Abstract!Next]_(Abstract!vars)
  <2>1. /\ ActiveRuns = {}
        /\ UNCHANGED run
        /\ pendingIdle' = pendingIdle \/ pendingIdle' = NoRun
        /\ runState' = "idle" \/ runState' = "running"
        /\ MarkIdle(w) => runState' = "idle" /\ UNCHANGED pendingIdle
    BY <1>4 DEF MarkIdle, ConsumeIdle, SessionHasWork
  <2>2. TheActiveRun = NoRun /\ UNCHANGED TheActiveRun
    BY <2>1 DEF TheActiveRun, ActiveRuns
  <2>3. CASE UNCHANGED pendingIdle /\ runState' = "idle"
    <3>1. Abstract!Rest
      BY <2>1, <2>2, <2>3 DEF Abstract!Rest
    <3>2. QED
      BY <3>1 DEF Abstract!Next
  <2>4. CASE UNCHANGED pendingIdle /\ runState' = "running"
    BY <2>1, <2>4, KeptRuns DEF Abstract!Next
  <2>5. CASE pendingIdle' = NoRun /\ pendingIdle # NoRun
    <3>1. Abstract!Consume
      BY <2>1, <2>2, <2>5 DEF Abstract!Consume
    <3>2. QED
      BY <3>1 DEF Abstract!Next
  <2>6. QED
    BY <2>1, <2>3, <2>4, <2>5
<1>5. QED
  BY <1>1, <1>2, <1>3, <1>4 DEF Next, vars, Environment, Admit, AdmitTriggerToIdle,
     TriggerSeesRunning, TriggerCommits, Withdraw, EnqueueCommand,
     RequestStop, Idles, EndBoundary, BeginIdle, IdleRefused, StaleAtIdle,
     Process, Deliver, DeliverStop, Dequeue, Claim, TickFails, LeaveWait,
     Shutdown, Restart, Crash, RecoveryLists, RecoveryMarks

\* SessionExecution implements SessionRuns: whatever Workers do, the runs
\* of a session start one after the other, end once, and the session rests
\* only in between.
THEOREM ImplementsSessionRuns == Spec => RunsFormASequence
<1>1. Inv /\ Inv' /\ [Next]_vars => [Abstract!Next]_(Abstract!vars)
  BY RefineStep
<1>2. QED
  BY <1>1, RefineInit, Invariance, PTL DEF Spec, RunsFormASequence, Abstract!Spec

-----------------------------------------------------------------------------
(* SessionExecution implements SessionWork.                                *)

\* The runners of the current generation, and the work nobody took up.
Owning == {w \in Workers : gen[w] # 0 /\ Fenced(w)}
Waiting == pendingCommand \/ PendingInputs \ Triggers # {}

USE DEF Work!Next, Work!vars, Work!Done

\* A runner whose fence passes owns the session.
LEMMA FencedOwns ==
    ASSUME NEW w \in Workers, GenerationsAreExclusive, Fenced(w),
           pc[w] \in ClaimedPcs
    PROVE  w \in Owning
BY DEF GenerationsAreExclusive, Owning

\* A runner that forgets its generation leaves the session or nothing.
LEMMA OwnerLeaves ==
    ASSUME NEW w \in Workers, TypeOK, GenerationsAreExclusive,
           gen' = [gen EXCEPT ![w] = 0], UNCHANGED ownerGeneration
    PROVE  Owning' = Owning \/ Owning' = {}
<1>1. CASE w \in Owning
  <2>1. Owning = {w}
    BY <1>1 DEF TypeOK, GenerationsAreExclusive, Owning, Fenced
  <2>2. Owning' = {}
    BY <2>1 DEF TypeOK, Owning, Fenced
  <2>3. QED
    BY <2>2
<1>2. CASE w \notin Owning
  <2>1. Owning' = Owning
    BY <1>2 DEF TypeOK, Owning, Fenced
  <2>2. QED
    BY <2>1
<1>3. QED
  BY <1>1, <1>2

\* A claim takes the session from whoever had it.
LEMMA OwnerClaims ==
    ASSUME NEW w \in Workers, TypeOK, GenerationsAreExclusive, Claim(w)
    PROVE  Owning' = {w}
BY DEF TypeOK, GenerationsAreExclusive, Owning, Fenced, Claim

\* Work is waiting or it is not, whatever the inputs are.
LEMMA WaitingIs ==
    /\ UNCHANGED <<pendingCommand, mailbox>> => UNCHANGED Waiting
    /\ TypeOK => Waiting \in BOOLEAN
BY DEF Waiting, PendingInputs, TypeOK

\* A step that leaves the durable record alone.
LEMMA WorkKept ==
    ASSUME UNCHANGED <<pendingCommand, mailbox, run, runState>>,
           Owning' = Owning \/ Owning' = {}
    PROVE  [Work!Next]_(Work!vars)
<1>1. UNCHANGED <<Waiting, ActiveRuns, runState>>
  BY WaitingIs DEF ActiveRuns
<1>2. CASE Owning' = Owning
  BY <1>1, <1>2 DEF Owning, Waiting
<1>3. CASE Owning' = {}
  <2>1. Work!Leave
    BY <1>1, <1>3 DEF Work!Leave, Owning, Waiting
  <2>2. QED
    BY <2>1
<1>4. QED
  BY <1>2, <1>3

\* A step that takes up inputs or clears a command.
LEMMA WorkTaken ==
    ASSUME UNCHANGED <<gen, ownerGeneration, run, runState>>,
           TypeOK, TypeOK', Waiting' => Waiting
    PROVE  [Work!Next]_(Work!vars)
<1>1. UNCHANGED <<Owning, ActiveRuns, runState>>
  BY DEF ActiveRuns, Owning, Fenced
<1>2. Waiting' = Waiting \/ Waiting' = FALSE
  BY DEF Waiting, TypeOK
<1>3. CASE Waiting' = Waiting
  BY <1>1, <1>3 DEF Owning, Waiting
<1>4. CASE Waiting' = FALSE
  <2>1. Work!Drop
    BY <1>1, <1>4 DEF Work!Drop, Owning, Waiting
  <2>2. QED
    BY <2>1
<1>5. QED
  BY <1>2, <1>3, <1>4

\* A step of the owner that ends runs, if it does anything to them.
LEMMA WorkFinished ==
    ASSUME NEW w \in Workers, TypeOK, GenerationsAreExclusive, Fenced(w),
           pc[w] \in ClaimedPcs, NoNewActiveRun,
           UNCHANGED <<gen, ownerGeneration, pendingCommand, mailbox, runState>>
    PROVE  [Work!Next]_(Work!vars)
<1>1. UNCHANGED <<Owning, Waiting, runState>> /\ w \in Owning
  BY FencedOwns, WaitingIs DEF Owning, Fenced
<1>2. ActiveRuns' \subseteq ActiveRuns
  BY DEF NoNewActiveRun, ActiveRuns
<1>3. CASE (ActiveRuns # {})' = (ActiveRuns # {})
  BY <1>1, <1>3 DEF Owning, Waiting
<1>4. CASE ActiveRuns # {} /\ ActiveRuns' = {}
  <2>1. Work!Finish(w)
    BY <1>1, <1>4 DEF Work!Finish, Owning, Waiting
  <2>2. QED
    BY <2>1
<1>5. QED
  BY <1>2, <1>3, <1>4

LEMMA SessionWorkInit == Init => Work!Init
BY DEF Init, Work!Init, ActiveRuns, PendingInputs

\* The requests of the API servers and the scheduler.
LEMMA WorkRequested ==
    ASSUME Inv, Inv', Environment
    PROVE  [Work!Next]_(Work!vars)
<1> USE DEF Inv
<1>1. CASE (\E i \in Inputs : Admit(i)) \/ EnqueueCommand
  <2>1. UNCHANGED <<gen, ownerGeneration, run>> /\ runState' = "running"
    BY <1>1 DEF Admit, EnqueueCommand
  <2>2. UNCHANGED <<Owning, ActiveRuns>>
    BY <2>1 DEF Owning, Fenced, ActiveRuns
  <2>3. ASSUME NEW i \in Inputs, Admit(i) PROVE i \in PendingInputs' \ Triggers
    BY <2>3 DEF Admit, PendingInputs, TypeOK
  <2>4. Waiting'
    BY <1>1, <2>3 DEF Waiting, EnqueueCommand
  <2>5. Work!Admit
    BY <2>1, <2>2, <2>4 DEF Work!Admit, Owning, Waiting
  <2>6. QED
    BY <2>5
<1>2. ASSUME NEW i \in Inputs,
             AdmitTriggerToIdle(i) \/ TriggerSeesRunning(i) \/ TriggerCommits(i)
      PROVE  [Work!Next]_(Work!vars)
  <2>1. UNCHANGED <<gen, ownerGeneration, run, pendingCommand>>
    BY <1>2 DEF AdmitTriggerToIdle, TriggerSeesRunning, TriggerCommits
  <2>2. i \in Triggers
    BY <1>2 DEF AdmitTriggerToIdle, TriggerSeesRunning, TriggerCommits, TypeOK
  <2>3. UNCHANGED (PendingInputs \ Triggers)
    BY <1>2, <2>2 DEF AdmitTriggerToIdle, TriggerSeesRunning, TriggerCommits,
                      PendingInputs, TypeOK
  <2>4. UNCHANGED <<Owning, ActiveRuns, Waiting>>
    BY <2>1, <2>3 DEF Owning, Fenced, ActiveRuns, Waiting
  <2>5. CASE UNCHANGED runState
    BY <2>4, <2>5 DEF Owning, Waiting
  <2>6. CASE runState' = "running"
    <3>1. Work!Wake
      BY <2>4, <2>6 DEF Work!Wake, Owning, Waiting
    <3>2. QED
      BY <3>1
  <2>7. QED
    BY <1>2, <2>5, <2>6
    DEF AdmitTriggerToIdle, TriggerSeesRunning, TriggerCommits
<1>3. ASSUME NEW i \in Inputs, Withdraw(i)
      PROVE  [Work!Next]_(Work!vars)
  <2>1. PendingInputs' \subseteq PendingInputs
    BY <1>3 DEF Withdraw, PendingInputs, TypeOK
  <2>2. Waiting' => Waiting
    BY <1>3, <2>1 DEF Withdraw, Waiting
  <2>3. QED
    BY <1>3, <2>2, WorkTaken DEF Withdraw
<1>4. CASE RetryFailedRun
  <2>1. UNCHANGED <<gen, ownerGeneration, pendingCommand, mailbox>>
        /\ runState = "idle" /\ runState' = "running"
    BY <1>4 DEF RetryFailedRun
  <2>2. UNCHANGED <<Owning, Waiting>> /\ ~Waiting
    BY <1>4, <2>1, WaitingIs DEF Owning, Fenced, Waiting, RetryFailedRun
  <2>3. ActiveRuns' # {}
    BY <1>4 DEF RetryFailedRun, ActiveRuns, TypeOK
  <2>4. Work!Retry
    BY <2>1, <2>2, <2>3 DEF Work!Retry, Owning, Waiting
  <2>5. QED
    BY <2>4
<1>5. CASE RequestStop
  BY <1>5, WorkKept DEF RequestStop, Owning, Fenced
<1>6. QED
  BY <1>1, <1>2, <1>3, <1>4, <1>5 DEF Environment

\* The transactions of an execution boundary.
LEMMA WorkExecuted ==
    ASSUME NEW w \in Workers, Inv, Inv',
           Prepares(w) \/ Executes(w) \/ Stops(w)
    PROVE  [Work!Next]_(Work!vars)
<1> USE DEF Inv
<1>1. UNCHANGED <<gen, ownerGeneration, runState>>
  BY DEF Prepares, Load, LoadRejected, LoseOwnership, PromotionConflict,
     Reject, UnknownCommand, Recover, NothingToRun, CreatePendingRun, Promote,
     CancelPendingRun, BeginEngine, EndBeforeEngine, Executes, EngineComplete,
     EngineInterrupt, EngineFail, EngineEnds, EngineFailsAfterStop,
     ClearCommand, Settled, UnhandledError, FailUnhandledRun, Stops,
     StopDetected, StopMark, StopEvents, StopClear, ShutdownCancels,
     AfterStop, DiscardWakeUps
<1>2. CASE UNCHANGED <<pendingCommand, mailbox, run>>
  BY <1>1, <1>2, WorkKept DEF Owning, Fenced
<1>3. CASE CreatePendingRun(w)
  <2>1. w \in Owning /\ runState = "running"
    BY <1>3, FencedOwns DEF CreatePendingRun, OwnerPreparesItsRun
  <2>2. UNCHANGED <<Owning, Waiting>>
    BY <1>1, <1>3, WaitingIs DEF CreatePendingRun, Owning, Fenced
  <2>3. ActiveRuns' # {}
    BY <1>3 DEF CreatePendingRun, ActiveRuns, TypeOK
  <2>4. Work!Begin(w)
    BY <1>1, <2>1, <2>2, <2>3 DEF Work!Begin, Owning, Waiting
  <2>5. QED
    BY <2>4
<1>4. CASE UnknownCommand(w) \/ ClearCommand(w) \/ \E i \in Inputs : Promote(w, i)
  <2>1. PendingInputs' \subseteq PendingInputs
    BY <1>4 DEF UnknownCommand, ClearCommand, Promote, PendingInputs, TypeOK
  <2>2. pendingCommand' => pendingCommand
    BY <1>4 DEF UnknownCommand, ClearCommand, Promote
  <2>3. Waiting' => Waiting
    BY <2>1, <2>2 DEF Waiting
  <2>4. UNCHANGED run
    BY <1>4 DEF UnknownCommand, ClearCommand, Promote
  <2>5. QED
    BY <1>1, <2>3, <2>4, WorkTaken
<1>5. CASE /\ Fenced(w) /\ pc[w] \in ClaimedPcs /\ ~CreatePendingRun(w)
           /\ UNCHANGED <<pendingCommand, mailbox>>
  <2>1. Next /\ ~RetryFailedRun
    BY <1>1, <1>5 DEF Next, RetryFailedRun
  <2>2. CASE NoNewActiveRun
    BY <1>1, <1>5, <2>2, WorkFinished
  <2>3. CASE \E v \in Workers : CreatePendingRun(v)
    <3>1. PICK v \in Workers : CreatePendingRun(v)
      BY <2>3
    <3>2. v = w
      BY <1>5, <3>1, OneOwner DEF CreatePendingRun
    <3>3. QED
      BY <1>5, <3>1, <3>2
  <2>4. QED
    BY <2>1, <2>2, <2>3, OnlyCreationsActivate
<1>6. QED
  BY <1>2, <1>3, <1>4, <1>5
  DEF Prepares, Load, LoadRejected, LoseOwnership, PromotionConflict, Reject,
      Recover, NothingToRun, CancelPendingRun, BeginEngine, EndBeforeEngine,
      Executes, EngineComplete, EngineInterrupt, EngineFail, EngineEnds,
      EngineFailsAfterStop, Settled, UnhandledError, FailUnhandledRun, Stops,
      StopDetected, StopMark, StopEvents, StopClear, ShutdownCancels,
      AfterStop, DiscardWakeUps

\* Whether a runner waits or ends, its ownership stays or is gone.
LEMMA RestOwning ==
    ASSUME NEW w \in Workers, TypeOK, GenerationsAreExclusive, Rest(w),
           UNCHANGED ownerGeneration
    PROVE  Owning' = Owning \/ Owning' = {}
<1>1. CASE Exit(w)
  BY <1>1, OwnerLeaves DEF Exit, Reset
<1>2. CASE Waits(w)
  BY <1>2 DEF Waits, Owning, Fenced
<1>3. QED
  BY <1>1, <1>2 DEF Rest

\* The end of a boundary.
LEMMA WorkIdles ==
    ASSUME NEW w \in Workers, Inv, Idles(w)
    PROVE  [Work!Next]_(Work!vars)
<1> USE DEF Inv
<1>1. CASE EndBoundary(w) \/ IdleRefused(w)
  BY <1>1, WorkKept, RestOwning DEF EndBoundary, IdleRefused
<1>2. CASE BeginIdle(w)
  BY <1>2, WorkKept DEF BeginIdle, Owning, Fenced
<1>3. CASE StaleAtIdle(w)
  BY <1>3, WorkKept, OwnerLeaves DEF StaleAtIdle, Exit, Reset
<1>4. CASE MarkIdle(w) \/ ConsumeIdle(w)
  <2>1. w \in Owning /\ (Owning' = Owning \/ Owning' = {})
    BY <1>4, FencedOwns, RestOwning DEF MarkIdle, ConsumeIdle
  <2>2. ~Waiting /\ ActiveRuns = {} /\ UNCHANGED ActiveRuns
    BY <1>4 DEF MarkIdle, ConsumeIdle, SessionHasWork, Waiting, ActiveRuns
  <2>3. CASE runState' = "idle" /\ UNCHANGED <<pendingCommand, mailbox>>
    <3>1. UNCHANGED Waiting
      BY <2>3, WaitingIs
    <3>2. Work!Rest(w)
      BY <2>1, <2>2, <2>3, <3>1 DEF Work!Rest, Owning, Waiting
    <3>3. QED
      BY <3>2
  <2>4. CASE /\ ConsumeIdle(w) /\ runState' = "running"
             /\ \E i \in Inputs \ Triggers :
                   mailbox' = [mailbox EXCEPT ![i] = "pending"]
    <3>1. PICK i \in Inputs \ Triggers :
                 mailbox' = [mailbox EXCEPT ![i] = "pending"]
      BY <2>4
    <3>2. i \in PendingInputs' \ Triggers
      BY <3>1 DEF TypeOK, PendingInputs
    <3>3. Waiting'
      BY <3>2 DEF Waiting
    <3>4. Work!Continue(w)
      BY <2>1, <2>2, <2>4, <3>3 DEF Work!Continue, Owning, Waiting
    <3>5. QED
      BY <3>4
  <2>5. QED
    BY <1>4, <2>3, <2>4 DEF MarkIdle, ConsumeIdle
<1>5. QED
  BY <1>1, <1>2, <1>3, <1>4 DEF Idles

\* Wake-ups, claims, the ends of runners and recovery.
LEMMA WorkProcessed ==
    ASSUME NEW w \in Workers, Inv, Process(w)
    PROVE  [Work!Next]_(Work!vars)
<1> USE DEF Inv
<1>1. CASE Claim(w)
  <2>1. UNCHANGED <<Waiting, ActiveRuns, runState>>
    BY <1>1, WaitingIs DEF Claim, ActiveRuns
  <2>2. Work!Claim(w)
    BY <1>1, <2>1, OwnerClaims DEF Work!Claim, Owning, Waiting
  <2>3. QED
    BY <2>2
<1>2. CASE TickFails(w) \/ LeaveWait(w) \/ Crash(w)
  BY <1>2, WorkKept, OwnerLeaves DEF TickFails, LeaveWait, Crash, Exit, Reset
<1>3. CASE RecoveryMarks(w)
  <2>1. UNCHANGED <<Waiting, ActiveRuns, Owning>> /\ runState' = "running"
    BY <1>3, WaitingIs DEF RecoveryMarks, ActiveRuns, Owning, Fenced
  <2>2. Work!Wake
    BY <2>1 DEF Work!Wake, Owning, Waiting
  <2>3. QED
    BY <2>2
<1>4. CASE UNCHANGED <<durable, gen>>
  BY <1>4, WorkKept DEF Owning, Fenced
<1>5. QED
  BY <1>1, <1>2, <1>3, <1>4
  DEF Process, Deliver, DeliverStop, Dequeue, Shutdown, Restart, RecoveryLists

LEMMA SessionWorkStep ==
    Inv /\ Inv' /\ [Next]_vars => [Work!Next]_(Work!vars)
<1> SUFFICES ASSUME Inv, Inv', [Next]_vars
             PROVE  [Work!Next]_(Work!vars)
  OBVIOUS
<1>1. CASE UNCHANGED vars
  BY <1>1, WorkKept DEF Owning, Fenced
<1>2. QED
  BY <1>1, WorkRequested, WorkExecuted, WorkIdles, WorkProcessed DEF Next

\* SessionExecution implements SessionWork, as SessionBroker does: however
\* many runners work on a session, and however stale their generations, only
\* the runner of the latest claim begins a run, ends it, or lets the session
\* rest, and it rests when nothing is left to do.
THEOREM ImplementsSessionWork == Spec => OwnersDoTheWork
<1>1. Inv /\ Inv' /\ [Next]_vars => [Work!Next]_(Work!vars)
  BY SessionWorkStep
<1>2. QED
  BY <1>1, SessionWorkInit, Invariance, PTL
  DEF Spec, OwnersDoTheWork, Work!Spec
=============================================================================
