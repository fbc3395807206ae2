---------------------------- MODULE SessionBroker ----------------------------
(***************************************************************************)
(* How the wake-ups of one AgentSession reach a Worker.                    *)
(*                                                                         *)
(* A wake-up is a message in the session's Redis LIST, announced by a      *)
(* notification in a stream: the stream of the Worker that holds the       *)
(* session's lease, or else the global one.  A Worker's receive loop reads *)
(* a notification, takes the lease or forwards the notification, pops the  *)
(* LIST and dispatches what it popped to the SessionRunner of the session, *)
(* which claims the durable owner generation before it works.  Redis       *)
(* commands and scripts are atomic; between two of them anything happens.  *)
(*                                                                         *)
(* Nothing of this is durable, and much of it can be lost.  What carries   *)
(* the session is PostgreSQL: run_state, the owner generation, and the     *)
(* recovery pass that finds running sessions without a heartbeat.  What a  *)
(* runner does with a wake-up is modelled in SessionExecution; here it is  *)
(* reduced to the pending work it takes up and the run it ends.            *)
(***************************************************************************)
EXTENDS Naturals

CONSTANTS
    Workers,     \* Worker processes
    Global,      \* the stream every Worker reads
    None,        \* "no Worker": the key does not exist
    Gone,        \* the id of a Worker process that is no more
    MaxQueue,    \* bound on queues; it stands for "this many or more"
    MaxAdmissions, \* bound on the inputs and commands admitted
    MaxTroubles, \* bound on stops, crashes, failures, late renewals, replays
    Replays      \* BOOLEAN: one cutover replay may happen

ASSUME BrokerAssumption ==
    /\ Global \notin Workers
    /\ None \notin Workers
    /\ Gone \notin Workers \cup {None, Global}
    /\ MaxQueue \in Nat \ {0}
    /\ MaxAdmissions \in Nat
    /\ MaxTroubles \in Nat
    /\ Replays \in BOOLEAN

VARIABLES
    lock,      \* owner in the session lock key
    aged,      \* the lock was not renewed for most of its 30 minutes
    heartbeat, \* owner in the owner-heartbeat key
    barrier,   \* the cutover replay barrier exists
    list,      \* messages in the session LIST
    stream,    \* notifications in every stream
    life,      \* "on", "stopping" or "dead" Worker process
    recv,      \* where its receive loop is
    batch,     \* messages it has popped
    runner,    \* where its SessionRunner is, "none" when terminated
    session,   \* running_session_id: "none", "held", "claimed"
    closing,   \* runner_shutdown of the runner
    handover,  \* why the runner has to hand the session over
    inbox,     \* messages queued in the runner
    owner,     \* whose runner claimed the current owner generation
    running,   \* run_state is RUNNING
    pending,   \* input or command that no boundary has taken up
    active,    \* an AgentRun is active
    stale,     \* run_heartbeat_at is older than the stuck threshold
    api,       \* a send_message of an API server
    recovery,  \* the recovery pass of every Worker
    replay,    \* the cutover replay
    admissions, \* inputs and commands admitted so far
    troubles   \* what has gone wrong so far

keys == <<lock, aged, heartbeat>>
queues == <<list, stream>>
durable == <<owner, running, pending, active, stale>>
receiver == <<recv, batch>>
runnerVars == <<runner, session, closing, handover, inbox>>
bounds == <<admissions, troubles>>
others == <<life, api, recovery, replay, barrier, bounds>>
vars == <<keys, queues, durable, receiver, runnerVars, others>>

-----------------------------------------------------------------------------
Owners == Workers \cup {None, Gone}
RunnerPcs == {"none", "wait", "claim", "load", "run", "boundary", "idle",
              "exit", "release", "push", "publish"}
Sends == {"none", "push", "publish"}

\* A queue that counts beyond its bound (a mutant of Add).
AddUnbounded(n, k) == n + k

(* A queue that is full stays full: its bound means "this many or more".   *)
Add(n, k) == IF n + k > MaxQueue THEN MaxQueue ELSE n + k

Init ==
    /\ lock = None /\ aged = FALSE /\ heartbeat = None /\ barrier = FALSE
    /\ list = 0
    /\ stream = [s \in Workers \cup {Global} |-> 0]
    /\ life = [w \in Workers |-> "on"]
    /\ recv = [w \in Workers |-> "read"]
    /\ batch = [w \in Workers |-> 0]
    /\ runner = [w \in Workers |-> "none"]
    /\ session = [w \in Workers |-> "none"]
    /\ closing = [w \in Workers |-> FALSE]
    /\ handover = [w \in Workers |-> "no"]
    /\ inbox = [w \in Workers |-> 0]
    /\ owner = None
    /\ running = FALSE /\ pending = FALSE /\ active = FALSE /\ stale = FALSE
    /\ api = "none"
    /\ recovery = [w \in Workers |-> "none"]
    /\ replay = IF Replays THEN "ready" ELSE "done"
    /\ admissions = 0
    /\ troubles = 0

Trouble ==
    /\ troubles < MaxTroubles
    /\ troubles' = troubles + 1
    /\ UNCHANGED admissions

-----------------------------------------------------------------------------
(* send_message: RPUSH the message, then announce it.                      *)

LiveOwner == heartbeat = lock /\ lock # None

(* _ROUTE_WAKE_SCRIPT: the stream of the live owner, else the global one.  *)
Route == IF LiveOwner THEN lock ELSE Global

(* XADD.  It is a command of its own, after the script that chose the      *)
(* stream; an entry that comes later can as well be read later, so the two *)
(* are one step.  Nobody reads the stream of a Worker that is gone.        *)
Announce(s) ==
    stream' = IF s = Gone THEN stream
              ELSE [stream EXCEPT ![s] = Add(@, 1)]

Push ==
    /\ list' = Add(list, 1)
    /\ UNCHANGED stream

Publish ==
    /\ Announce(Route)
    /\ UNCHANGED list

(* An API server commits work and a running session, then sends a wake-up. *)
Admit ==
    /\ api = "none"
    /\ admissions < MaxAdmissions
    /\ admissions' = admissions + 1
    /\ pending' = TRUE
    /\ running' = TRUE
    /\ stale' = (stale /\ running)
    /\ api' = "push"
    /\ UNCHANGED <<owner, active, keys, queues, receiver, runnerVars, life,
                   recovery, replay, barrier, troubles>>

\* The notification goes out before the message (a mutant of ApiSends).
ApiAnnouncesFirst ==
    /\ \/ api = "push" /\ Publish /\ api' = "publish"
       \/ api = "publish" /\ Push /\ api' = "none"
    /\ UNCHANGED <<durable, keys, receiver, runnerVars, life, recovery,
                   replay, barrier, bounds>>

ApiSends ==
    /\ \/ api = "push" /\ Push /\ api' = "publish"
       \/ api = "publish" /\ Publish /\ api' = "none"
    /\ UNCHANGED <<durable, keys, receiver, runnerVars, life, recovery,
                   replay, barrier, bounds>>

(* The server dies, or publishing fails and one equal message is removed.  *)
ApiFails ==
    /\ Trouble
    /\ api # "none"
    /\ \/ UNCHANGED list
       \/ api = "publish" /\ list > 0 /\ list' = list - 1
    /\ api' = "none"
    /\ UNCHANGED <<stream, durable, keys, receiver, runnerVars, life,
                   recovery, replay, barrier>>

-----------------------------------------------------------------------------
(* The recovery pass of a Worker: list stuck sessions, then mark each one  *)
(* running and send it a wake-up.                                          *)

\* A scan that looks for active runs only (a mutant of Stuck).
StuckRun == running /\ stale /\ active

Stuck == running /\ stale

RecoveryLists(w) ==
    /\ life[w] = "on"
    /\ recovery[w] = "none"
    /\ Stuck
    /\ recovery' = [recovery EXCEPT ![w] = "listed"]
    /\ UNCHANGED <<durable, keys, queues, receiver, runnerVars, life, api,
                   replay, barrier, bounds>>

(* Whatever became of the session since it was listed.                     *)
RecoveryMarks(w) ==
    /\ recovery[w] = "listed"
    /\ running' = TRUE
    /\ stale' = FALSE
    /\ recovery' = [recovery EXCEPT ![w] = "push"]
    /\ UNCHANGED <<owner, pending, active, keys, queues, receiver, runnerVars,
                   life, api, replay, barrier, bounds>>

RecoverySends(w) ==
    /\ \/ /\ recovery[w] = "push" /\ Push
          /\ recovery' = [recovery EXCEPT ![w] = "publish"]
       \/ /\ recovery[w] = "publish" /\ Publish
          /\ recovery' = [recovery EXCEPT ![w] = "none"]
    /\ UNCHANGED <<durable, keys, receiver, runnerVars, life, api, replay,
                   barrier, bounds>>

(* Something is under way that takes seconds.                              *)
Busy ==
    \/ api # "none"
    \/ replay \notin {"ready", "done"}
    \/ \E w \in Workers :
          \/ recovery[w] # "none"
          \/ recv[w] \notin {"read", "off"}
          \/ recv[w] = "read" /\ stream[w] + stream[Global] > 0
          \/ runner[w] \notin {"none", "wait"}
          \/ runner[w] = "wait" /\ inbox[w] > 0

(* The heartbeat of a running session grows old: three minutes, in which   *)
(* nothing happens unless something takes too long.                        *)
GrowsStale ==
    /\ running /\ ~stale
    /\ IF Busy THEN Trouble ELSE UNCHANGED bounds
    /\ stale' = TRUE
    /\ UNCHANGED <<owner, running, pending, active, keys, queues, receiver,
                   runnerVars, life, api, recovery, replay, barrier>>

-----------------------------------------------------------------------------
(* receive_messages of a Worker.                                           *)

Goto(w, p) == recv' = [recv EXCEPT ![w] = p]

(* A notification is acknowledged as soon as it is read, and no consumer   *)
(* claims the entries another one left unacknowledged.                     *)
Read(w) ==
    /\ recv[w] = "read"
    /\ \E s \in {w, Global} :
          /\ stream[s] > 0
          /\ stream' = [stream EXCEPT ![s] = @ - 1]
    /\ Goto(w, "signal")
    /\ UNCHANGED <<list, durable, keys, batch, runnerVars, others>>

\* Acquisition that ignores the barrier (a mutant of CutoverBlocks).
CutoverIgnored == FALSE

CutoverBlocks == barrier

(* A cutover is in progress: the notification goes back.                   *)
Reinsert(w) ==
    /\ recv[w] = "signal"
    /\ CutoverBlocks
    /\ Announce(Global)
    /\ Goto(w, "read")
    /\ UNCHANGED <<list, durable, keys, batch, runnerVars, others>>

OwnedByAnother(w) == LiveOwner /\ lock # w

Forward(w) ==
    /\ recv[w] = "signal"
    /\ ~CutoverBlocks
    /\ OwnedByAnother(w)
    /\ Announce(lock)
    /\ Goto(w, "read")
    /\ UNCHANGED <<list, durable, keys, batch, runnerVars, others>>

(* Acquired, already owned, or stolen from an owner without heartbeat.     *)
Acquire(w) ==
    /\ recv[w] = "signal"
    /\ ~CutoverBlocks
    /\ ~OwnedByAnother(w)
    /\ lock' = w
    /\ aged' = FALSE
    /\ heartbeat' = w
    /\ Goto(w, "drain")
    /\ UNCHANGED <<queues, durable, batch, runnerVars, others>>

(* LPOP until the LIST is empty.  A message that arrives between two LPOPs *)
(* might as well have come before the first.  Without messages the loop    *)
(* goes on, and keeps the lease it took.                                   *)
Drain(w) ==
    /\ recv[w] = "drain"
    /\ list' = 0
    /\ batch' = [batch EXCEPT ![w] = list]
    /\ Goto(w, IF list = 0 THEN "read" ELSE "dispatch")
    /\ UNCHANGED <<stream, durable, keys, runnerVars, others>>

(* A terminated runner is replaced; one that is on its way out still gets  *)
(* the messages.                                                           *)
Dispatch(w) ==
    /\ recv[w] = "dispatch"
    /\ Goto(w, "read")
    /\ batch' = [batch EXCEPT ![w] = 0]
    /\ inbox' = [inbox EXCEPT ![w] = Add(@, batch[w])]
    /\ runner' = [runner EXCEPT ![w] = IF @ = "none" THEN "wait" ELSE @]
    /\ UNCHANGED <<queues, durable, keys, session, closing, handover, others>>

-----------------------------------------------------------------------------
(* The SessionRunner.                                                      *)

Step(w, p) == runner' = [runner EXCEPT ![w] = p]

(* The task ends; its inbox is lost with it.                               *)
Terminate(w) ==
    /\ Step(w, "none")
    /\ session' = [session EXCEPT ![w] = "none"]
    /\ closing' = [closing EXCEPT ![w] = FALSE]
    /\ handover' = [handover EXCEPT ![w] = "no"]
    /\ inbox' = [inbox EXCEPT ![w] = 0]

(* A boundary is over: wait for more, unless the runner has to end.        *)
Rest(w) ==
    Step(w, IF life[w] = "stopping" \/ (closing'[w] /\ inbox[w] = 0)
            THEN "exit" ELSE "wait")

Take(w) ==
    /\ runner[w] = "wait"
    /\ inbox[w] > 0
    /\ inbox' = [inbox EXCEPT ![w] = @ - 1]
    /\ handover' = [handover EXCEPT ![w] = "no"]
    /\ IF session[w] = "none"
       THEN Step(w, "claim") /\ session' = [session EXCEPT ![w] = "held"]
       ELSE Step(w, "load") /\ UNCHANGED session
    /\ UNCHANGED <<durable, keys, queues, receiver, closing, others>>

(* Shutdown, or 30 minutes without a message.                              *)
LeaveWait(w) ==
    /\ runner[w] = "wait"
    /\ inbox[w] = 0
    /\ life[w] = "stopping" \/ ~Busy
    /\ Step(w, "exit")
    /\ UNCHANGED <<durable, keys, queues, receiver, session, closing, handover,
                   inbox, others>>

(* claim_owner_generation: the lease is not looked at again.               *)
Claim(w) ==
    /\ runner[w] = "claim"
    /\ owner' = w
    /\ session' = [session EXCEPT ![w] = "claimed"]
    /\ Step(w, "load")
    /\ UNCHANGED <<running, pending, active, stale, keys, queues, receiver,
                   closing, handover, inbox, others>>

ClaimFails(w) ==
    /\ Trouble
    /\ runner[w] = "claim"
    /\ Step(w, "exit")
    /\ UNCHANGED <<durable, keys, queues, receiver, session, closing, handover,
                   inbox, life, api, recovery, replay, barrier>>

(* The boundary takes up what is there and executes it as a run.           *)
Load(w) ==
    /\ runner[w] = "load"
    /\ running /\ owner = w
    /\ pending' = FALSE
    /\ active' = (pending \/ active)
    /\ Step(w, IF pending \/ active THEN "run" ELSE "boundary")
    /\ UNCHANGED <<owner, running, stale, keys, queues, receiver, session,
                   closing, handover, inbox, others>>

(* _handle_canonical_execution_error.                                      *)
Reject(w, why) ==
    /\ closing' = [closing EXCEPT ![w] = TRUE]
    /\ handover' = [handover EXCEPT ![w] = why]

NotRunning(w) ==
    /\ runner[w] = "load"
    /\ ~running
    /\ Reject(w, "no")
    /\ Rest(w)
    /\ UNCHANGED <<durable, keys, queues, receiver, session, inbox, others>>

\* The generation is not compared (a mutant of Superseded).
NeverSuperseded(w) == FALSE

Superseded(w) == owner # w

(* A fenced transaction fails: the snapshot, a heartbeat, a turn boundary. *)
LoseOwnership(w) ==
    /\ \/ runner[w] = "load" /\ running
       \/ runner[w] = "run"
    /\ Superseded(w)
    /\ Reject(w, "lost")
    /\ Rest(w)
    /\ UNCHANGED <<durable, keys, queues, receiver, session, inbox, others>>

(* The work the boundary loaded has changed under it.                      *)
Drift(w) ==
    /\ Trouble
    /\ runner[w] = "run"
    /\ ~Superseded(w)
    /\ Reject(w, "drift")
    /\ Rest(w)
    /\ UNCHANGED <<durable, keys, queues, receiver, session, inbox, life, api,
                   recovery, replay, barrier>>

(* A turn boundary promotes inputs that arrived during the run.            *)
Absorb(w) ==
    /\ runner[w] = "run"
    /\ ~Superseded(w)
    /\ pending
    /\ pending' = FALSE
    /\ UNCHANGED <<owner, running, active, stale, keys, queues, receiver,
                   runnerVars, others>>

(* The run ends.  During a shutdown the wake-up is kept for the hand-over, *)
(* unless the user stopped the run.                                        *)
Finish(w) ==
    /\ runner[w] = "run"
    /\ ~Superseded(w)
    /\ active' = FALSE
    /\ IF life[w] = "stopping"
       THEN /\ handover' \in {[handover EXCEPT ![w] = h] : h \in {"active", "no"}}
            /\ Step(w, "exit")
       ELSE UNCHANGED handover /\ Step(w, "boundary")
    /\ UNCHANGED <<owner, running, pending, stale, keys, queues, receiver,
                   session, closing, inbox, others>>

(* The shutdown timeout cancels the run, which stays active.               *)
Cancel(w) ==
    /\ runner[w] = "run"
    /\ life[w] = "stopping"
    /\ handover' = [handover EXCEPT ![w] = "active"]
    /\ Step(w, "exit")
    /\ UNCHANGED <<durable, keys, queues, receiver, session, closing, inbox,
                   others>>

(* _has_follow_up_work: no wake-up is sent for it, one is on its way.      *)
Boundary(w) ==
    /\ runner[w] = "boundary"
    /\ UNCHANGED closing
    /\ IF life[w] # "stopping" /\ inbox[w] = 0 /\ ~pending
       THEN Step(w, "idle")
       ELSE Rest(w)
    /\ UNCHANGED <<durable, keys, queues, receiver, session, handover, inbox,
                   others>>

(* mark_session_idle rechecks the work under the lock of the row.          *)
MarkIdle(w) ==
    /\ runner[w] = "idle"
    /\ ~Superseded(w)
    /\ running' = (running /\ (pending \/ active))
    /\ UNCHANGED closing
    /\ Rest(w)
    /\ UNCHANGED <<owner, pending, active, stale, keys, queues, receiver,
                   session, handover, inbox, others>>

StaleAtIdle(w) ==
    /\ runner[w] = "idle"
    /\ Superseded(w)
    /\ Reject(w, "lost")
    /\ Step(w, "exit")
    /\ UNCHANGED <<durable, keys, queues, receiver, session, inbox, others>>

-----------------------------------------------------------------------------
(* _release_current_session.                                               *)

\* Only an active run needs a successor when the Worker shuts down.
Needless(w) == handover[w] = "active" /\ ~active

(* The generation is asserted first, when one was claimed; a superseded    *)
(* runner raises and releases nothing.  One that already knew it lost the  *)
(* session only tells the owner.                                           *)
Leave(w) ==
    /\ runner[w] = "exit"
    /\ \/ /\ \/ session[w] = "none"
             \/ session[w] = "claimed" /\ handover[w] # "lost" /\ Superseded(w)
          /\ Terminate(w)
       \/ /\ handover[w] = "lost"
          /\ Step(w, "push")
          /\ UNCHANGED <<session, closing, handover, inbox>>
       \/ /\ session[w] # "none" /\ handover[w] # "lost"
          /\ session[w] = "claimed" => ~Superseded(w)
          /\ Step(w, "release")
          /\ handover' = [handover EXCEPT ![w] =
                             IF Needless(w) THEN "no" ELSE @]
          /\ UNCHANGED <<session, closing, inbox>>
    /\ UNCHANGED <<durable, keys, queues, receiver, others>>

(* _RELEASE_LOCK_SCRIPT compares the Worker, not the runner.               *)
Release(w) ==
    /\ runner[w] = "release"
    /\ lock' = IF lock = w THEN None ELSE lock
    /\ heartbeat' = IF lock = w THEN None ELSE heartbeat
    /\ UNCHANGED aged
    /\ IF handover[w] = "no"
       THEN Terminate(w)
       ELSE Step(w, "push") /\ UNCHANGED <<session, closing, handover, inbox>>
    /\ UNCHANGED <<durable, queues, receiver, others>>

HandOver(w) ==
    /\ \/ /\ runner[w] = "push" /\ Push
          /\ Step(w, "publish")
          /\ UNCHANGED <<session, closing, handover, inbox>>
       \/ /\ runner[w] = "publish" /\ Publish
          /\ Terminate(w)
    /\ UNCHANGED <<durable, keys, receiver, others>>

HandOverFails(w) ==
    /\ Trouble
    /\ runner[w] \in {"push", "publish"}
    /\ list' = IF runner[w] = "publish" /\ list > 0 THEN list - 1 ELSE list
    /\ Terminate(w)
    /\ UNCHANGED <<stream, durable, keys, receiver, life, api, recovery,
                   replay, barrier>>

-----------------------------------------------------------------------------
(* Renewals and expiry of the keys.                                        *)

(* heartbeat_session: the durable heartbeat, fenced, and then the lease,   *)
(* by when the generation that was checked may be superseded.              *)
RunHeartbeat(w) ==
    /\ runner[w] = "run"
    /\ ~Superseded(w)
    /\ stale' = FALSE
    /\ UNCHANGED <<owner, running, pending, active, keys, queues, receiver,
                   runnerVars, others>>

RenewLease(w) ==
    /\ runner[w] = "run"
    /\ lock = w
    /\ heartbeat' = w
    /\ aged' = FALSE
    /\ UNCHANGED <<lock, durable, queues, receiver, runnerVars, others>>

\* A renewal that does not compare the lock (a mutant).
RenewsForAnyone(w) == TRUE

RenewsForLockHolder(w) == lock = w

(* A waiting runner renews the heartbeat key, not the lock.                *)
IdleHeartbeat(w) ==
    /\ runner[w] = "wait"
    /\ session[w] # "none"
    /\ RenewsForLockHolder(w)
    /\ heartbeat' = w
    /\ UNCHANGED <<lock, aged, durable, queues, receiver, runnerVars, others>>

(* A Worker renews in time while it receives for the session or runs it.   *)
Renews(w) == recv[w] \in {"drain", "dispatch"} \/ runner[w] # "none"

HeartbeatExpires ==
    /\ heartbeat # None
    /\ \/ heartbeat = Gone /\ UNCHANGED bounds
       \/ heartbeat \in Workers /\ ~Renews(heartbeat) /\ UNCHANGED bounds
       \/ heartbeat \in Workers /\ Renews(heartbeat) /\ Trouble
    /\ heartbeat' = None
    /\ UNCHANGED <<lock, aged, durable, queues, receiver, runnerVars, life, api,
                   recovery, replay, barrier>>

(* The lock lives 30 minutes, as long as the idle window of a runner.      *)
Ages ==
    /\ ~Busy
    /\ lock # None /\ ~aged
    /\ aged' = TRUE
    /\ UNCHANGED <<lock, heartbeat, durable, queues, receiver, runnerVars,
                   others>>

LockExpires ==
    /\ aged /\ lock # None
    /\ lock' = None
    /\ UNCHANGED <<aged, heartbeat, durable, queues, receiver, runnerVars, others>>

-----------------------------------------------------------------------------
(* Worker processes.  Every process has an id of its own.                  *)

(* Shutdown cancels the receive loop, with what it holds, and recovery.    *)
Stop(w) ==
    /\ Trouble
    /\ life[w] = "on"
    /\ life' = [life EXCEPT ![w] = "stopping"]
    /\ Goto(w, "off")
    /\ batch' = [batch EXCEPT ![w] = 0]
    /\ recovery' = [recovery EXCEPT ![w] = "none"]
    /\ UNCHANGED <<durable, keys, queues, runnerVars, api, replay, barrier>>

(* The process is gone, and nobody reads its stream or renews its keys.    *)
Dies(w) ==
    /\ life' = [life EXCEPT ![w] = "dead"]
    /\ Goto(w, "off")
    /\ batch' = [batch EXCEPT ![w] = 0]
    /\ recovery' = [recovery EXCEPT ![w] = "none"]
    /\ Terminate(w)
    /\ lock' = IF lock = w THEN Gone ELSE lock
    /\ UNCHANGED aged
    /\ heartbeat' = IF heartbeat = w THEN Gone ELSE heartbeat
    /\ owner' = IF owner = w THEN None ELSE owner
    /\ stream' = [stream EXCEPT ![w] = 0]
    /\ UNCHANGED <<list, running, pending, active, stale, api, replay, barrier>>

Ended(w) ==
    /\ life[w] = "stopping"
    /\ runner[w] = "none"
    /\ Dies(w)
    /\ UNCHANGED bounds

Crash(w) ==
    /\ Trouble
    /\ life[w] # "dead"
    /\ Dies(w)

Start(w) ==
    /\ life[w] = "dead"
    /\ life' = [life EXCEPT ![w] = "on"]
    /\ Goto(w, "read")
    /\ UNCHANGED <<durable, keys, queues, batch, runnerVars, api, recovery,
                   replay, barrier, bounds>>

-----------------------------------------------------------------------------
(* The cutover replay: a barrier against new owners, a fence against old   *)
(* ones, then the broker's state is discarded and one wake-up is sent.     *)

Replaying(from, to) ==
    /\ replay = from
    /\ replay' = to
    /\ UNCHANGED <<receiver, runnerVars, life, api, recovery, bounds>>

(* A replay begins at any time; it counts as one of the troubles.          *)
SetBarrier ==
    /\ Trouble
    /\ replay = "ready" /\ ~barrier /\ running
    /\ replay' = "fence"
    /\ barrier' = TRUE
    /\ UNCHANGED <<durable, keys, queues, receiver, runnerVars, life, api,
                   recovery>>

Fence ==
    /\ running
    /\ Replaying("fence", "purgeList")
    /\ owner' = None
    /\ UNCHANGED <<running, pending, active, stale, keys, queues, barrier>>

(* The durable state changed since it was read: nothing is purged.         *)
FenceRejected ==
    /\ Replaying("fence", "lift")
    /\ UNCHANGED <<durable, keys, queues, barrier>>

PurgeList ==
    /\ Replaying("purgeList", "purgeLock")
    /\ list' = 0
    /\ UNCHANGED <<durable, keys, stream, barrier>>

PurgeLock ==
    /\ Replaying("purgeLock", "push")
    /\ lock' = None /\ heartbeat' = None /\ UNCHANGED aged
    /\ UNCHANGED <<durable, queues, barrier>>

ReplayPush ==
    /\ Replaying("push", "publish")
    /\ Push
    /\ UNCHANGED <<durable, keys, barrier>>

ReplayPublish ==
    /\ Replaying("publish", "lift")
    /\ Publish
    /\ UNCHANGED <<durable, keys, barrier>>

Lift ==
    /\ Replaying("lift", "done")
    /\ barrier' = FALSE
    /\ UNCHANGED <<durable, keys, queues>>

(* The replay process dies; its barrier expires after an hour.             *)
ReplayDies ==
    /\ Trouble
    /\ replay \notin {"ready", "done"}
    /\ replay' = "done"
    /\ UNCHANGED <<durable, keys, queues, receiver, runnerVars, life, api,
                   recovery, barrier>>

BarrierExpires ==
    /\ barrier /\ replay = "done"
    /\ barrier' = FALSE
    /\ UNCHANGED <<durable, keys, queues, receiver, runnerVars, life, api,
                   recovery, replay, bounds>>

-----------------------------------------------------------------------------
Receives(w) ==
    \/ Read(w) \/ Reinsert(w) \/ Forward(w) \/ Acquire(w) \/ Drain(w)
    \/ Dispatch(w)

\* What a runner does by itself, sooner or later.
Runs(w) ==
    \/ Take(w) \/ LeaveWait(w) \/ Claim(w) \/ Load(w) \/ NotRunning(w)
    \/ LoseOwnership(w) \/ Finish(w) \/ Boundary(w) \/ MarkIdle(w)
    \/ StaleAtIdle(w) \/ Leave(w) \/ Release(w) \/ HandOver(w)

Recovers(w) == RecoveryLists(w) \/ RecoveryMarks(w) \/ RecoverySends(w)

Disturbs(w) ==
    \/ Absorb(w) \/ Cancel(w)
    \/ RunHeartbeat(w) \/ RenewLease(w) \/ IdleHeartbeat(w)
    \/ ClaimFails(w) \/ Drift(w) \/ HandOverFails(w) \/ Stop(w) \/ Crash(w)

Replayed ==
    \/ Fence \/ FenceRejected \/ PurgeList \/ PurgeLock \/ ReplayPush
    \/ ReplayPublish \/ Lift \/ BarrierExpires

Next ==
    \/ Admit \/ ApiSends \/ ApiFails
    \/ GrowsStale \/ HeartbeatExpires \/ Ages \/ LockExpires
    \/ SetBarrier \/ Replayed \/ ReplayDies
    \/ \E w \in Workers :
          \/ Receives(w) \/ Runs(w) \/ Recovers(w) \/ Disturbs(w)
          \/ Ended(w) \/ Start(w)

Spec == Init /\ [][Next]_vars

\* Time passes for a key that nobody renews.
NaturalExpiry == HeartbeatExpires /\ UNCHANGED bounds

(* What goes on by itself: a send that began, the tasks of a Worker, the   *)
(* supervisor that starts processes again, a replay, and time.             *)
Fairness ==
    /\ WF_vars(ApiSends) /\ WF_vars(Replayed)
    /\ WF_vars(GrowsStale) /\ WF_vars(NaturalExpiry)
    /\ WF_vars(Ages) /\ WF_vars(LockExpires)
    /\ \A w \in Workers :
          /\ WF_vars(Receives(w)) /\ WF_vars(Runs(w)) /\ WF_vars(Recovers(w))
          /\ WF_vars(Ended(w) \/ Start(w))

FairSpec == Spec /\ Fairness

-----------------------------------------------------------------------------
TypeOK ==
    /\ lock \in Owners
    /\ aged \in BOOLEAN
    /\ heartbeat \in Owners
    /\ barrier \in BOOLEAN
    /\ list \in 0..MaxQueue
    /\ stream \in [Workers \cup {Global} -> 0..MaxQueue]
    /\ life \in [Workers -> {"on", "stopping", "dead"}]
    /\ recv \in [Workers -> {"read", "signal", "drain", "dispatch", "off"}]
    /\ batch \in [Workers -> 0..MaxQueue]
    /\ runner \in [Workers -> RunnerPcs]
    /\ session \in [Workers -> {"none", "held", "claimed"}]
    /\ closing \in [Workers -> BOOLEAN]
    /\ handover \in [Workers -> {"no", "active", "drift", "lost"}]
    /\ inbox \in [Workers -> 0..MaxQueue]
    /\ owner \in Workers \cup {None}
    /\ running \in BOOLEAN
    /\ pending \in BOOLEAN
    /\ active \in BOOLEAN
    /\ stale \in BOOLEAN
    /\ api \in Sends
    /\ recovery \in [Workers -> Sends \cup {"listed"}]
    /\ replay \in {"ready", "fence", "purgeList", "purgeLock", "push",
                   "publish", "lift", "done"}
    /\ admissions \in 0..MaxAdmissions
    /\ troubles \in 0..MaxTroubles

(* The owner-heartbeat key never vouches for anyone but the holder of the  *)
(* lock: the four scripts that write the keys keep them together, although *)
(* they expire apart and a lease is stolen when only the heartbeat did.    *)
KeysAgree == lock # None /\ heartbeat # None => heartbeat = lock

Announced ==
    \/ \E s \in Workers \cup {Global} : stream[s] > 0
    \/ \E w \in Workers : recv[w] \in {"signal", "drain"}
    \/ api = "publish"
    \/ \E w \in Workers : recovery[w] = "publish" \/ runner[w] = "publish"
    \/ replay = "publish"

(* As long as nothing failed, a message in the LIST has a notification in a *)
(* stream, in the hands of a Worker, or about to be published: no order of *)
(* pushes, drains, forwards and lease changes leaves it unannounced.       *)
QueuedIsAnnounced == troubles = 0 /\ list > 0 => Announced

(* From the purge of a session's broker state to the wake-up of the        *)
(* cutover replay, no Worker holds its lease: neither a receive loop with  *)
(* an old notification nor a runner that still renews brings the keys      *)
(* back.                                                                   *)
PurgedLeaseStaysFree ==
    replay \in {"push", "publish"} => lock = None /\ heartbeat = None

(* What is assumed here of a runner's transactions is what                 *)
(* SessionExecution shows of them: both implement SessionWork.             *)
Work == INSTANCE SessionWork WITH
    owners <- {owner} \ {None}

OwnersDoTheWork == Work!Spec

(* Whatever is lost, crashed, stopped or late, a session ends up idle with *)
(* no work left: the recovery pass makes good every wake-up that Redis or  *)
(* a Worker lost.                                                          *)
SessionRests == <>[](~pending /\ ~active /\ ~running)

(* run-resume.md: "A non-owner worker must not process a session while the *)
(* owner heartbeat is live."  Does not hold (README, section 5).           *)
NoForeignRun ==
    \A w \in Workers :
        runner[w] = "run" /\ ~Superseded(w) => ~OwnedByAnother(w)

(* AgentWorker._receive_or_shutdown: "shutdown takes priority even if      *)
(* messages were already received - those messages are reprocessed by      *)
(* another worker after lock release."  Reprocessing needs the messages:   *)
(* what a stopping Worker had popped is in the LIST again.  Does not hold  *)
(* (README, section 5).                                                    *)
ReceivedIsLeftBehind ==
    [][\A w \in Workers :
          batch[w] > 0 /\ life[w] = "on" /\ life'[w] = "stopping"
              => list' > 0]_vars
=============================================================================
