----------------------------- MODULE JobRuntime ------------------------------
(* The Job Runtime of one process (LocalJobRuntime).  It runs registered    *)
(* handlers as asyncio tasks, one per execution key, within two limits: a   *)
(* semaphore for all of them and one for the handlers that ask for it.  A   *)
(* handler that outlives its deadline or its task's cancellation gets a     *)
(* grace period; one that ignores it is detached: a cleanup task takes over *)
(* its container and its permits until it ends.                             *)
(*                                                                          *)
(* An action ends where the code awaits something that may not be there     *)
(* yet; the lock of the registry is never held across such an await.        *)
EXTENDS Integers, FiniteSets

CONSTANTS
    Keys,           \* execution keys
    HandlerOf,      \* the registered handler each key is submitted with
    Reruns,         \* handlers with rerun_on_coalesce
    Limited,        \* handlers with a limit of their own
    SlotLimit,      \* max_concurrency of a limited handler
    MaxConcurrency, \* limit of the whole Runtime
    MaxSubmits,     \* bound on submissions
    MaxCancels      \* bound on cancellations of close

ASSUME JobAssumption ==
    /\ IsFiniteSet(Keys)
    /\ MaxConcurrency \in Nat \ {0}
    /\ SlotLimit \in [Limited -> Nat \ {0}]
    /\ MaxSubmits \in Nat /\ MaxCancels \in Nat

VARIABLES
    task,        \* the task registered for a key, by where it stands
    cleanup,     \* the cleanup task of a detached handler
    handlers,    \* live invocations of the handler, per key
    open,        \* keys with an open container
    pool,        \* free permits of _semaphore
    slots,       \* free permits of _handler_semaphores
    rerun,       \* _rerun_requests
    detached,    \* _detached_execution_keys
    closer,      \* the call of close
    awaited,     \* cleanup tasks that close is gathering
    submits,     \* submissions so far
    cancels,     \* cancellations of close so far
    interrupted  \* history: handlers that a cancellation of close left alone

permits == <<pool, slots>>
closing == <<closer, awaited, cancels>>
vars == <<task, cleanup, handlers, open, permits, rerun, detached, closing,
          submits, interrupted>>

Grace == {"deadlineGrace", "cancelGrace"}
Inside == {"entering", "running", "leaving", "unwinding"} \cup Grace
Done == {"none", "finished"}

-----------------------------------------------------------------------------
IsLimited(k) == HandlerOf[k] \in Limited

TakeSlot(k) == slots' = [slots EXCEPT ![HandlerOf[k]] = @ - 1]

ReturnSlot(k) ==
    slots' = IF IsLimited(k) THEN [slots EXCEPT ![HandlerOf[k]] = @ + 1]
                             ELSE slots

ReturnPermits(k) == pool' = pool + 1 /\ ReturnSlot(k)

\* The wait with which _execute begins.
FirstWait(k) == IF IsLimited(k) THEN "slotWait" ELSE "poolWait"

\* The coalesced request is dropped (a mutant of Settle).
SettleOnce(k) ==
    /\ task' = [task EXCEPT ![k] = "none"]
    /\ rerun' = rerun \ {k}

\* An execution has an outcome: the task runs the coalesced request, if one
\* came in the meantime, or leaves the registry.
Settle(k) ==
    /\ rerun' = rerun \ {k}
    /\ task' = [task EXCEPT ![k] = IF k \in rerun THEN FirstWait(k)
                                                  ELSE "none"]

-----------------------------------------------------------------------------
Accept(k) ==
    /\ closer = "no" /\ submits < MaxSubmits
    /\ task[k] = "none"
    /\ task' = [task EXCEPT ![k] = "created"]
    /\ submits' = submits + 1
    /\ UNCHANGED <<cleanup, handlers, open, permits, rerun, detached,
                   closing, interrupted>>

Coalesce(k) ==
    /\ closer = "no" /\ submits < MaxSubmits
    /\ task[k] # "none"
    /\ rerun' = IF HandlerOf[k] \in Reruns THEN rerun \cup {k} ELSE rerun
    /\ submits' = submits + 1
    /\ UNCHANGED <<task, cleanup, handlers, open, permits, detached, closing,
                   interrupted>>

Begin(k) ==
    /\ task[k] = "created"
    /\ task' = [task EXCEPT ![k] = FirstWait(k)]
    /\ UNCHANGED <<cleanup, handlers, open, permits, rerun, detached,
                   closing, submits, interrupted>>

AcquireSlot(k) ==
    /\ task[k] = "slotWait" /\ slots[HandlerOf[k]] > 0
    /\ TakeSlot(k)
    /\ task' = [task EXCEPT ![k] = "poolWait"]
    /\ UNCHANGED <<cleanup, handlers, open, pool, rerun, detached, closing,
                   submits, interrupted>>

SlotTimesOut(k) ==
    /\ task[k] = "slotWait"
    /\ Settle(k)
    /\ UNCHANGED <<cleanup, handlers, open, permits, detached, closing,
                   submits, interrupted>>

AcquirePool(k) ==
    /\ task[k] = "poolWait" /\ pool > 0
    /\ pool' = pool - 1
    /\ task' = [task EXCEPT ![k] = "entering"]
    /\ UNCHANGED <<cleanup, handlers, open, slots, rerun, detached, closing,
                   submits, interrupted>>

PoolTimesOut(k) ==
    /\ task[k] = "poolWait"
    /\ ReturnSlot(k)
    /\ Settle(k)
    /\ UNCHANGED <<cleanup, handlers, open, pool, detached, closing, submits,
                   interrupted>>

Enter(k) ==
    /\ task[k] = "entering"
    /\ task' = [task EXCEPT ![k] = "running"]
    /\ open' = open \cup {k}
    /\ handlers' = [handlers EXCEPT ![k] = @ + 1]
    /\ UNCHANGED <<cleanup, permits, rerun, detached, closing, submits,
                   interrupted>>

\* The container fails, or the deadline passes while it starts.
EnterFails(k) ==
    /\ task[k] = "entering"
    /\ task' = [task EXCEPT ![k] = "leaving"]
    /\ UNCHANGED <<cleanup, handlers, open, permits, rerun, detached,
                   closing, submits, interrupted>>

\* The handler returns, raises, or heeds its cancellation.
HandlerEnds(k) ==
    /\ handlers[k] > 0
    /\ handlers' = [handlers EXCEPT ![k] = @ - 1]
    /\ UNCHANGED <<task, cleanup, open, permits, rerun, detached, closing,
                   submits, interrupted>>

HandlerSettles(k) ==
    /\ task[k] \in {"running"} \cup Grace /\ handlers[k] = 0
    /\ task' = [task EXCEPT ![k] = IF task[k] = "cancelGrace"
                                   THEN "unwinding" ELSE "leaving"]
    /\ open' = open \ {k}
    /\ UNCHANGED <<cleanup, handlers, permits, rerun, detached, closing,
                   submits, interrupted>>

DeadlinePasses(k) ==
    /\ task[k] = "running" /\ handlers[k] > 0
    /\ task' = [task EXCEPT ![k] = "deadlineGrace"]
    /\ UNCHANGED <<cleanup, handlers, open, permits, rerun, detached,
                   closing, submits, interrupted>>

\* The key of a detached handler is free at once (a mutant of Quarantine).
QuarantineFree(k) ==
    /\ task' = [task EXCEPT ![k] = "none"]
    /\ UNCHANGED permits

\* A detached handler gives its permits back (a mutant of Quarantine).
QuarantineLight(k) ==
    /\ task' = [task EXCEPT ![k] = "finished"]
    /\ ReturnPermits(k)

\* The outcome exists, but the key stays registered and the permits taken.
Quarantine(k) ==
    /\ task' = [task EXCEPT ![k] = "finished"]
    /\ UNCHANGED permits

\* The Runtime waits for a handler however long it takes (a mutant of
\* Detach).
DetachNever(k) ==
    /\ task[k] \in Grace /\ handlers[k] > 0
    /\ UNCHANGED vars

\* Nobody adopts the handler (a mutant of Detach).
DetachUnadopted(k) ==
    /\ task[k] \in Grace /\ handlers[k] > 0
    /\ Quarantine(k)
    /\ rerun' = rerun \ {k}
    /\ detached' = detached \cup {k}
    /\ UNCHANGED <<cleanup, handlers, open, closing, submits, interrupted>>

Detach(k) ==
    /\ task[k] \in Grace /\ handlers[k] > 0
    /\ Quarantine(k)
    /\ rerun' = rerun \ {k}
    /\ detached' = detached \cup {k}
    /\ cleanup' = [cleanup EXCEPT ![k] = "created"]
    /\ UNCHANGED <<handlers, open, closing, submits, interrupted>>

Leave(k) ==
    /\ task[k] = "leaving"
    /\ ReturnPermits(k)
    /\ Settle(k)
    /\ UNCHANGED <<cleanup, handlers, open, detached, closing, submits,
                   interrupted>>

Unwind(k) ==
    /\ task[k] = "unwinding"
    /\ ReturnPermits(k)
    /\ task' = [task EXCEPT ![k] = "none"]
    /\ rerun' = rerun \ {k}
    /\ UNCHANGED <<cleanup, handlers, open, detached, closing, submits,
                   interrupted>>

-----------------------------------------------------------------------------
CleanupBegins(k) ==
    /\ cleanup[k] = "created"
    /\ cleanup' = [cleanup EXCEPT ![k] = "waiting"]
    /\ UNCHANGED <<task, handlers, open, permits, rerun, detached, closing,
                   submits, interrupted>>

CleanupEnds(k) ==
    /\ cleanup[k] = "waiting" /\ handlers[k] = 0
    /\ cleanup' = [cleanup EXCEPT ![k] = "none"]
    /\ open' = open \ {k}
    /\ ReturnPermits(k)
    /\ detached' = detached \ {k}
    /\ task' = [task EXCEPT ![k] = "none"]
    /\ rerun' = rerun \ {k}
    /\ UNCHANGED <<handlers, closing, submits, interrupted>>

-----------------------------------------------------------------------------
\* Detached handlers are forgotten (a mutant of Owned).
OwnedTasks == {k \in Keys : task[k] \notin Done}

Owned == {k \in Keys : task[k] # "none" \/ cleanup[k] # "none"}

Snapshot ==
    /\ closer' = IF Owned = {} THEN "done" ELSE "waiting"
    /\ awaited' = {k \in Keys : cleanup[k] # "none"}

Close ==
    /\ closer = "no"
    /\ Snapshot
    /\ UNCHANGED <<task, cleanup, handlers, open, permits, rerun, detached,
                   cancels, submits, interrupted>>

Gathering ==
    \/ \E k \in Keys : task[k] \notin Done
    \/ \E k \in awaited : cleanup[k] # "none"

\* close looks once only (a mutant of Gathered).
GatheredOnce ==
    /\ closer = "waiting" /\ ~Gathering
    /\ UNCHANGED vars

\* Everything gathered is done: close looks again.
Gathered ==
    /\ closer = "waiting" /\ ~Gathering
    /\ Snapshot
    /\ UNCHANGED <<task, cleanup, handlers, open, permits, rerun, detached,
                   cancels, submits, interrupted>>

\* A cancellation of close is passed on to everything it gathers.  A task
\* that has not begun never runs, not even its finally; one in the wait for
\* the pool keeps its slot; one in a grace period leaves its handler, and so
\* does a cleanup that has not begun.
CancelledTask(k) ==
    CASE task[k] = "created" -> "finished"
      [] task[k] \in {"slotWait", "poolWait"} -> "none"
      [] task[k] = "running" -> "cancelGrace"
      [] task[k] \in Grace \cup {"entering", "leaving", "unwinding"} ->
             "unwinding"
      [] OTHER -> task[k]

CloseCancelled ==
    /\ closer = "waiting" /\ Gathering /\ cancels < MaxCancels
    /\ cancels' = cancels + 1
    /\ task' = [k \in Keys |-> CancelledTask(k)]
    /\ rerun' = {k \in rerun : task[k] \notin {"slotWait", "poolWait"}}
    /\ open' = {k \in open : task[k] \notin Grace}
    /\ interrupted' = interrupted \cup
           {k \in Keys : /\ handlers[k] > 0
                         /\ \/ task[k] \in Grace
                            \/ k \in awaited /\ cleanup[k] = "created"}
    /\ cleanup' = [k \in Keys |->
           IF k \in awaited /\ cleanup[k] = "created" THEN "none"
                                                      ELSE cleanup[k]]
    /\ UNCHANGED <<handlers, permits, detached, closer, awaited, submits>>

-----------------------------------------------------------------------------
Init ==
    /\ task = [k \in Keys |-> "none"]
    /\ cleanup = [k \in Keys |-> "none"]
    /\ handlers = [k \in Keys |-> 0]
    /\ open = {} /\ rerun = {} /\ detached = {} /\ interrupted = {}
    /\ pool = MaxConcurrency
    /\ slots = SlotLimit
    /\ closer = "no" /\ awaited = {}
    /\ submits = 0 /\ cancels = 0

Step(k) ==
    \/ Begin(k) \/ AcquireSlot(k) \/ SlotTimesOut(k)
    \/ AcquirePool(k) \/ PoolTimesOut(k)
    \/ Enter(k) \/ EnterFails(k)
    \/ HandlerSettles(k) \/ DeadlinePasses(k) \/ Detach(k)
    \/ Leave(k) \/ Unwind(k)
    \/ CleanupBegins(k) \/ CleanupEnds(k)

Next ==
    \/ \E k \in Keys : Accept(k) \/ Coalesce(k) \/ HandlerEnds(k) \/ Step(k)
    \/ Close
    \/ Gathered
    \/ CloseCancelled

\* The event loop runs every task that can go on, and every deadline and
\* grace period ends.  Nothing makes a handler end.
Spec ==
    /\ Init /\ [][Next]_vars
    /\ \A k \in Keys : WF_vars(Step(k))
    /\ WF_vars(Gathered)

-----------------------------------------------------------------------------
TypeOK ==
    /\ task \in [Keys -> {"created", "slotWait", "poolWait"}
                         \cup Inside \cup Done]
    /\ cleanup \in [Keys -> {"none", "created", "waiting"}]
    /\ handlers \in [Keys -> Nat]
    /\ open \subseteq Keys /\ rerun \subseteq Keys
    /\ detached \subseteq Keys /\ awaited \subseteq Keys
    /\ interrupted \subseteq Keys
    /\ pool \in 0..MaxConcurrency
    /\ slots \in [Limited -> Nat]
    /\ \A h \in Limited : slots[h] \in 0..SlotLimit[h]
    /\ closer \in {"no", "waiting", "done"}
    /\ submits \in 0..MaxSubmits /\ cancels \in 0..MaxCancels

Live == {k \in Keys : handlers[k] > 0}

(* The handler of a key never runs twice at once: a timed-out handler that *)
(* still runs keeps its key although its caller has the outcome.           *)
OneRunPerKey == \A k \in Keys : handlers[k] <= 1

\* Handlers whose grace period was cancelled: their permits are back.
Released == interrupted \ detached

(* No more handlers run than the Runtime and their own limit allow; those  *)
(* that ignored their cancellation count, and of those that a cancellation *)
(* of close left alone the ones that were already detached.                *)
CapacityHolds ==
    /\ Cardinality(Live \ Released) <= MaxConcurrency
    /\ \A h \in Limited :
           Cardinality({k \in Live \ Released : HandlerOf[k] = h})
               <= SlotLimit[h]

(* A running handler has its container open and a task that waits for it   *)
(* and will close it: its own or, once detached, a cleanup.  Exempt are    *)
(* the handlers whose task a cancellation of close took away, in their     *)
(* grace period or before their cleanup had begun.                         *)
HandlersOwned ==
    \A k \in Live \ interrupted :
        /\ k \in open
        /\ \/ task[k] \in {"running"} \cup Grace
           \/ k \in detached /\ cleanup[k] # "none"

(* When close is over no task is registered, no container is open, every   *)
(* permit of the pool is back and no handler runs, but for the interrupted. *)
ClosedIsQuiet ==
    closer = "done" =>
        Owned = {} /\ open = {} /\ pool = MaxConcurrency
        /\ Live \subseteq interrupted

(* An accepted execution has its outcome by its deadline and the grace     *)
(* period, whatever its handler and its neighbours do.                     *)
OutcomesInTime ==
    \A k \in Keys : task[k] = "created" ~> task[k] \in Done

(* A request that was coalesced with a running execution is executed after *)
(* it, unless that execution is detached or close is cancelled.            *)
CoalescedRuns ==
    \A k \in Keys :
        k \in rerun ~> \/ k \notin rerun /\ task[k] = FirstWait(k)
                       \/ k \in detached
                       \/ cancels > 0

\* A task that was cancelled before it began stays registered for good.
NeverBegan(k) == task[k] = "finished" /\ cleanup[k] = "none"

(* If no handler runs for ever, close returns; unless a cancellation of    *)
(* close came before a task that it gathered had begun.                    *)
CloseReturns ==
    (\A k \in Keys : []<>(handlers[k] = 0)) =>
        (closer = "waiting" ~> closer = "done" \/ \E k \in Keys : NeverBegan(k))

(* local_test.py: "Cancelled shutdown cannot release resources before a    *)
(* handler settles."                                                       *)
CancelledCloseKeepsResources == open \cap Live = Live
=============================================================================
