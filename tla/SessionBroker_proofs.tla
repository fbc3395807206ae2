------------------------ MODULE SessionBroker_proofs ------------------------
(***************************************************************************)
(* Proofs about SessionBroker, for any number of Workers, any bounds and   *)
(* any failures: the two keys of the lease agree; the cutover replay keeps *)
(* the lease free between its purge and its wake-up; types are correct;    *)
(* and a queued message is announced until something fails.                *)
(***************************************************************************)
EXTENDS SessionBroker, TLAPS

(* The steps that write the lease.                                         *)
WritesLease ==
    \/ HeartbeatExpires \/ LockExpires \/ PurgeLock
    \/ \E w \in Workers :
          \/ Acquire(w) \/ Release(w) \/ RenewLease(w) \/ IdleHeartbeat(w)
          \/ Dies(w)

(* Every other step leaves both keys as they are.                          *)
LEMMA LeaseStep ==
    ASSUME [Next]_vars
    PROVE  WritesLease \/ UNCHANGED <<lock, heartbeat>>
<1>1. CASE UNCHANGED vars
  BY <1>1 DEF vars, keys
<1>2. CASE Admit \/ ApiSends \/ ApiFails
  BY <1>2 DEF Admit, ApiSends, ApiFails, keys
<1>3. CASE GrowsStale \/ HeartbeatExpires \/ Ages \/ LockExpires
  BY <1>3 DEF GrowsStale, Ages, keys, WritesLease
<1>4. CASE SetBarrier \/ Replayed \/ ReplayDies
  BY <1>4 DEF SetBarrier, Replayed, ReplayDies, Fence, FenceRejected, PurgeList,
              ReplayPush, ReplayPublish, Lift, BarrierExpires, keys,
              WritesLease
<1>5. ASSUME NEW w \in Workers, Receives(w)
      PROVE  WritesLease \/ UNCHANGED <<lock, heartbeat>>
  BY <1>5 DEF Receives, Read, Reinsert, Forward, Drain, Dispatch, keys,
              WritesLease
<1>6. ASSUME NEW w \in Workers, Runs(w)
      PROVE  WritesLease \/ UNCHANGED <<lock, heartbeat>>
  BY <1>6 DEF Runs, Take, LeaveWait, Claim, Load, NotRunning, LoseOwnership,
              Finish, Boundary, MarkIdle, StaleAtIdle, Leave, HandOver, keys,
              WritesLease
<1>7. ASSUME NEW w \in Workers, Recovers(w)
      PROVE  UNCHANGED <<lock, heartbeat>>
  BY <1>7 DEF Recovers, RecoveryLists, RecoveryMarks, RecoverySends, keys
<1>8. ASSUME NEW w \in Workers, Disturbs(w)
      PROVE  WritesLease \/ UNCHANGED <<lock, heartbeat>>
  BY <1>8 DEF Disturbs, Absorb, Cancel, RunHeartbeat, ClaimFails, Drift,
              HandOverFails, Stop, Crash, keys, WritesLease
<1>9. ASSUME NEW w \in Workers, Ended(w) \/ Start(w)
      PROVE  WritesLease \/ UNCHANGED <<lock, heartbeat>>
  BY <1>9 DEF Ended, Start, keys, WritesLease
<1> QED
  BY <1>1, <1>2, <1>3, <1>4, <1>5, <1>6, <1>7, <1>8, <1>9 DEF Next

LEMMA KeysAgreeStep ==
    ASSUME KeysAgree, [Next]_vars
    PROVE  KeysAgree'
<1> USE DEF KeysAgree
<1>1. CASE UNCHANGED <<lock, heartbeat>>
  BY <1>1
<1>2. CASE HeartbeatExpires
  BY <1>2 DEF HeartbeatExpires
<1>3. CASE LockExpires
  BY <1>3 DEF LockExpires
<1>4. CASE PurgeLock
  BY <1>4 DEF PurgeLock
<1>5. ASSUME NEW w \in Workers, Acquire(w)
      PROVE  KeysAgree'
  BY <1>5 DEF Acquire
<1>6. ASSUME NEW w \in Workers, Release(w)
      PROVE  KeysAgree'
  BY <1>6 DEF Release
<1>7. ASSUME NEW w \in Workers, RenewLease(w)
      PROVE  KeysAgree'
  BY <1>7 DEF RenewLease
<1>8. ASSUME NEW w \in Workers, IdleHeartbeat(w)
      PROVE  KeysAgree'
  BY <1>8 DEF IdleHeartbeat, RenewsForLockHolder
<1>9. ASSUME NEW w \in Workers, Dies(w)
      PROVE  KeysAgree'
  BY <1>9, BrokerAssumption DEF Dies
<1> QED
  BY LeaseStep, <1>1, <1>2, <1>3, <1>4, <1>5, <1>6, <1>7, <1>8, <1>9
  DEF WritesLease

(* The heartbeat key names nobody but the holder of the lock: what the     *)
(* routing of wake-ups and the stealing of leases rely on.                 *)
THEOREM KeysAlwaysAgree == Spec => []KeysAgree
<1>1. Init => KeysAgree
  BY DEF Init, KeysAgree
<1>2. KeysAgree /\ [Next]_vars => KeysAgree'
  BY KeysAgreeStep
<1> QED
  BY <1>1, <1>2, PTL DEF Spec

-----------------------------------------------------------------------------
(* A replay that has begun and not ended holds the barrier.                *)
ReplayHoldsBarrier == replay \notin {"ready", "done"} => barrier

CutoverInv == ReplayHoldsBarrier /\ PurgedLeaseStaysFree

(* Only the steps of the replay change its state or the barrier.           *)
LEMMA ReplayStep ==
    ASSUME [Next]_vars
    PROVE  \/ SetBarrier \/ Replayed \/ ReplayDies
           \/ UNCHANGED <<replay, barrier>>
<1> USE DEF others
<1>1. CASE UNCHANGED vars
  BY <1>1 DEF vars
<1>2. CASE Admit \/ ApiSends \/ ApiFails
  BY <1>2 DEF Admit, ApiSends, ApiFails
<1>3. CASE GrowsStale \/ HeartbeatExpires \/ Ages \/ LockExpires
  BY <1>3 DEF GrowsStale, HeartbeatExpires, Ages, LockExpires
<1>4. ASSUME NEW w \in Workers, Receives(w)
      PROVE  UNCHANGED <<replay, barrier>>
  BY <1>4 DEF Receives, Read, Reinsert, Forward, Acquire, Drain, Dispatch
<1>5. ASSUME NEW w \in Workers, Runs(w)
      PROVE  UNCHANGED <<replay, barrier>>
  BY <1>5 DEF Runs, Take, LeaveWait, Claim, Load, NotRunning, LoseOwnership,
              Finish, Boundary, MarkIdle, StaleAtIdle, Leave, Release, HandOver
<1>6. ASSUME NEW w \in Workers, Recovers(w)
      PROVE  UNCHANGED <<replay, barrier>>
  BY <1>6 DEF Recovers, RecoveryLists, RecoveryMarks, RecoverySends
<1>7. ASSUME NEW w \in Workers, Disturbs(w)
      PROVE  UNCHANGED <<replay, barrier>>
  BY <1>7 DEF Disturbs, Absorb, Cancel, RunHeartbeat, RenewLease, IdleHeartbeat,
              ClaimFails, Drift, HandOverFails, Stop, Crash, Dies
<1>8. ASSUME NEW w \in Workers, Ended(w) \/ Start(w)
      PROVE  UNCHANGED <<replay, barrier>>
  BY <1>8 DEF Ended, Start, Dies
<1> QED
  BY <1>1, <1>2, <1>3, <1>4, <1>5, <1>6, <1>7, <1>8 DEF Next

LEMMA ReplayHoldsBarrierStep ==
    ASSUME ReplayHoldsBarrier, [Next]_vars
    PROVE  ReplayHoldsBarrier'
<1> USE DEF ReplayHoldsBarrier, Replaying
<1>1. CASE UNCHANGED <<replay, barrier>>
  BY <1>1
<1>2. CASE SetBarrier
  BY <1>2 DEF SetBarrier
<1>3. CASE ReplayDies
  BY <1>3 DEF ReplayDies
<1>4. CASE Fence \/ FenceRejected
  BY <1>4 DEF Fence, FenceRejected
<1>5. CASE PurgeList \/ PurgeLock
  BY <1>5 DEF PurgeList, PurgeLock
<1>6. CASE ReplayPush \/ ReplayPublish
  BY <1>6 DEF ReplayPush, ReplayPublish
<1>7. CASE Lift \/ BarrierExpires
  BY <1>7 DEF Lift, BarrierExpires
<1> QED
  BY ReplayStep, <1>1, <1>2, <1>3, <1>4, <1>5, <1>6, <1>7 DEF Replayed

(* A step that enters the span ends with free keys, and within the span no *)
(* step that writes the lease can name a Worker.                           *)
LEMMA PurgedLeaseStep ==
    ASSUME CutoverInv, [Next]_vars
    PROVE  PurgedLeaseStaysFree'
<1> USE DEF CutoverInv, PurgedLeaseStaysFree, ReplayHoldsBarrier
<1>1. CASE PurgeLock
  BY <1>1 DEF PurgeLock
<1>2. CASE ReplayPush
  BY <1>2 DEF ReplayPush, Replaying, keys
<1>3. CASE SetBarrier \/ ReplayDies \/ (Replayed /\ ~PurgeLock /\ ~ReplayPush)
  BY <1>3 DEF SetBarrier, ReplayDies, Replayed, Fence, FenceRejected, PurgeList,
              ReplayPublish, Lift, BarrierExpires, Replaying, keys
<1>4. CASE UNCHANGED <<replay, barrier>>
  <2>1. CASE UNCHANGED <<lock, heartbeat>>
    BY <1>4, <2>1
  <2>2. CASE HeartbeatExpires \/ LockExpires
    BY <1>4, <2>2 DEF HeartbeatExpires, LockExpires
  <2>3. ASSUME NEW w \in Workers, Acquire(w)
        PROVE  PurgedLeaseStaysFree'
    BY <1>4, <2>3 DEF Acquire, CutoverBlocks
  <2>4. ASSUME NEW w \in Workers, Release(w)
        PROVE  PurgedLeaseStaysFree'
    BY <1>4, <2>4 DEF Release
  <2>5. ASSUME NEW w \in Workers, RenewLease(w) \/ IdleHeartbeat(w)
        PROVE  PurgedLeaseStaysFree'
    BY <1>4, <2>5, BrokerAssumption
    DEF RenewLease, IdleHeartbeat, RenewsForLockHolder
  <2>6. ASSUME NEW w \in Workers, Dies(w)
        PROVE  PurgedLeaseStaysFree'
    BY <1>4, <2>6, BrokerAssumption DEF Dies
  <2> QED
    BY LeaseStep, <1>1, <2>1, <2>2, <2>3, <2>4, <2>5, <2>6 DEF WritesLease
<1> QED
  BY ReplayStep, <1>1, <1>2, <1>3, <1>4

(* The replay's wake-up is the first thing that can bring the lease back.  *)
THEOREM PurgedLeaseAlwaysStaysFree == Spec => []PurgedLeaseStaysFree
<1>1. Init => CutoverInv
  BY DEF Init, CutoverInv, ReplayHoldsBarrier, PurgedLeaseStaysFree
<1>2. CutoverInv /\ [Next]_vars => CutoverInv'
  BY ReplayHoldsBarrierStep, PurgedLeaseStep DEF CutoverInv
<1>3. CutoverInv => PurgedLeaseStaysFree
  BY DEF CutoverInv
<1> QED
  BY <1>1, <1>2, <1>3, PTL DEF Spec

-----------------------------------------------------------------------------
(* Type correctness.                                                       *)

(* A queue keeps to its bound.                                             *)
LEMMA AddType ==
    ASSUME NEW n \in 0..MaxQueue, NEW k \in 0..MaxQueue
    PROVE  Add(n, k) \in 0..MaxQueue
BY BrokerAssumption DEF Add

LEMMA AddsSome ==
    ASSUME NEW n \in 0..MaxQueue
    PROVE  Add(n, 1) \in 0..MaxQueue /\ Add(n, 1) > 0
BY BrokerAssumption DEF Add

LEMMA TroubleType ==
    ASSUME TypeOK, Trouble
    PROVE  /\ troubles' \in 0..MaxTroubles /\ troubles' > 0
           /\ admissions' \in 0..MaxAdmissions
BY BrokerAssumption DEF TypeOK, Trouble

(* A notification goes to a stream that exists, or nowhere.                *)
LEMMA AnnounceType ==
    ASSUME TypeOK, NEW s \in Workers \cup {Global, Gone}, Announce(s)
    PROVE  stream' \in [Workers \cup {Global} -> 0..MaxQueue]
<1>1. CASE s = Gone
  BY <1>1 DEF TypeOK, Announce
<1>2. CASE s # Gone
  BY <1>2, AddsSome DEF TypeOK, Announce
<1> QED
  BY <1>1, <1>2

LEMMA SendType ==
    ASSUME TypeOK, Push \/ Publish
    PROVE  /\ list' \in 0..MaxQueue
           /\ stream' \in [Workers \cup {Global} -> 0..MaxQueue]
<1>1. CASE Push
  BY <1>1, AddsSome DEF TypeOK, Push
<1>2. CASE Publish
  <2>1. Route \in Workers \cup {Global, Gone}
    BY DEF Route, LiveOwner, TypeOK, Owners
  <2> QED
    BY <1>2, <2>1, AnnounceType DEF TypeOK, Publish
<1> QED
  BY <1>1, <1>2

(* The variables of the runners, and a runner that ends or waits again.    *)
RunnerTypes ==
    /\ runner \in [Workers -> RunnerPcs]
    /\ session \in [Workers -> {"none", "held", "claimed"}]
    /\ closing \in [Workers -> BOOLEAN]
    /\ handover \in [Workers -> {"no", "active", "drift", "lost"}]
    /\ inbox \in [Workers -> 0..MaxQueue]

LEMMA TerminateType ==
    ASSUME NEW w \in Workers, TypeOK, Terminate(w)
    PROVE  RunnerTypes'
BY BrokerAssumption DEF TypeOK, Terminate, Step, RunnerTypes, RunnerPcs

LEMMA RestType ==
    ASSUME NEW w \in Workers, TypeOK, Rest(w)
    PROVE  runner' \in [Workers -> RunnerPcs]
BY DEF TypeOK, Rest, Step, RunnerPcs

LEMMA RejectType ==
    ASSUME NEW w \in Workers, TypeOK,
           NEW why \in {"no", "active", "drift", "lost"}, Reject(w, why)
    PROVE  /\ closing' \in [Workers -> BOOLEAN]
           /\ handover' \in [Workers -> {"no", "active", "drift", "lost"}]
BY DEF TypeOK, Reject

(* A Worker that dies leaves the name "Gone" in the keys it held.          *)
LEMMA DiesType ==
    ASSUME NEW w \in Workers, TypeOK, Dies(w),
           troubles' \in 0..MaxTroubles, admissions' \in 0..MaxAdmissions
    PROVE  TypeOK'
<1>1. RunnerTypes'
  BY TerminateType DEF Dies
<1>2. stream' \in [Workers \cup {Global} -> 0..MaxQueue]
  BY BrokerAssumption DEF Dies, TypeOK
<1>3. lock' \in Owners /\ heartbeat' \in Owners /\ owner' \in Workers \cup {None}
  BY DEF Dies, TypeOK, Owners
<1>4. /\ life' \in [Workers -> {"on", "stopping", "dead"}]
      /\ recv' \in [Workers -> {"read", "signal", "drain", "dispatch", "off"}]
      /\ batch' \in [Workers -> 0..MaxQueue]
      /\ recovery' \in [Workers -> Sends \cup {"listed"}]
  BY BrokerAssumption DEF Dies, TypeOK, Goto, Sends
<1> QED
  BY <1>1, <1>2, <1>3, <1>4 DEF Dies, TypeOK, RunnerTypes


LEMMA SendersType ==
    ASSUME TypeOK, Admit \/ ApiSends \/ ApiFails
    PROVE  TypeOK'
<1> USE DEF keys, queues, durable, receiver, runnerVars, bounds
<1>1. CASE Admit
  BY <1>1, BrokerAssumption DEF TypeOK, Admit, Sends
<1>2. CASE ApiSends
  <2>1. api' \in Sends
    BY <1>2 DEF ApiSends, Sends
  <2>2. /\ list' \in 0..MaxQueue
        /\ stream' \in [Workers \cup {Global} -> 0..MaxQueue]
    BY <1>2, SendType DEF ApiSends
  <2> QED
    BY <1>2, <2>1, <2>2 DEF TypeOK, ApiSends
<1>3. CASE ApiFails
  <2>1. list' \in 0..MaxQueue
    BY <1>3, BrokerAssumption DEF TypeOK, ApiFails
  <2> QED
    BY <1>3, <2>1, TroubleType DEF TypeOK, ApiFails, Sends
<1> QED
  BY <1>1, <1>2, <1>3

LEMMA TimeType ==
    ASSUME TypeOK, GrowsStale \/ HeartbeatExpires \/ Ages \/ LockExpires
    PROVE  TypeOK'
<1> USE DEF keys, queues, durable, receiver, runnerVars, others, bounds
<1>1. CASE GrowsStale
  BY <1>1, TroubleType DEF TypeOK, GrowsStale
<1>2. CASE HeartbeatExpires
  BY <1>2, TroubleType DEF TypeOK, HeartbeatExpires, Owners
<1>3. CASE Ages \/ LockExpires
  <2>1. lock' \in Owners /\ aged' \in BOOLEAN
    BY <1>3 DEF TypeOK, Ages, LockExpires, Owners
  <2> QED
    BY <1>3, <2>1 DEF TypeOK, Ages, LockExpires
<1> QED
  BY <1>1, <1>2, <1>3

LEMMA CutoverType ==
    ASSUME TypeOK, SetBarrier \/ Replayed \/ ReplayDies
    PROVE  TypeOK'
<1> USE DEF keys, queues, durable, receiver, runnerVars, bounds, Replaying
<1>1. CASE SetBarrier \/ ReplayDies
  BY <1>1, TroubleType DEF TypeOK, SetBarrier, ReplayDies
<1>2. CASE Fence \/ FenceRejected
  BY <1>2 DEF TypeOK, Fence, FenceRejected
<1>3. CASE PurgeList \/ PurgeLock
  BY <1>3, BrokerAssumption DEF TypeOK, PurgeList, PurgeLock, Owners
<1>4. CASE ReplayPush \/ ReplayPublish
  <2>1. Push \/ Publish
    BY <1>4 DEF ReplayPush, ReplayPublish
  <2> QED
    BY <1>4, <2>1, SendType DEF TypeOK, ReplayPush, ReplayPublish
<1>5. CASE Lift \/ BarrierExpires
  BY <1>5 DEF TypeOK, Lift, BarrierExpires
<1> QED
  BY <1>1, <1>2, <1>3, <1>4, <1>5 DEF Replayed

LEMMA ReceivesType ==
    ASSUME NEW w \in Workers, TypeOK, Receives(w)
    PROVE  TypeOK'
<1> USE DEF keys, queues, durable, runnerVars, others, bounds, Goto
<1>1. CASE Read(w)
  <2>1. stream' \in [Workers \cup {Global} -> 0..MaxQueue]
    BY <1>1, BrokerAssumption DEF TypeOK, Read
  <2> QED
    BY <1>1, <2>1 DEF TypeOK, Read
<1>2. CASE Reinsert(w)
  <2>1. stream' \in [Workers \cup {Global} -> 0..MaxQueue]
    BY <1>2, AnnounceType DEF Reinsert
  <2> QED
    BY <1>2, <2>1 DEF TypeOK, Reinsert
<1>3. CASE Forward(w)
  <2>1. lock \in Workers \cup {Global, Gone}
    BY <1>3 DEF TypeOK, Owners, Forward, OwnedByAnother, LiveOwner
  <2>2. stream' \in [Workers \cup {Global} -> 0..MaxQueue]
    BY <1>3, <2>1, AnnounceType DEF Forward
  <2> QED
    BY <1>3, <2>2 DEF TypeOK, Forward
<1>4. CASE Acquire(w)
  BY <1>4 DEF TypeOK, Acquire, Owners
<1>5. CASE Drain(w)
  BY <1>5, BrokerAssumption DEF TypeOK, Drain
<1>6. CASE Dispatch(w)
  <2>1. inbox' \in [Workers -> 0..MaxQueue]
    BY <1>6, AddType DEF TypeOK, Dispatch
  <2>2. batch' \in [Workers -> 0..MaxQueue]
    BY <1>6, BrokerAssumption DEF TypeOK, Dispatch
  <2>3. runner' \in [Workers -> RunnerPcs]
    BY <1>6 DEF TypeOK, Dispatch, RunnerPcs
  <2> QED
    BY <1>6, <2>1, <2>2, <2>3 DEF TypeOK, Dispatch
<1> QED
  BY <1>1, <1>2, <1>3, <1>4, <1>5, <1>6 DEF Receives

LEMMA RunsType ==
    ASSUME NEW w \in Workers, TypeOK, Runs(w)
    PROVE  TypeOK'
<1> USE DEF keys, queues, durable, receiver, runnerVars, others, bounds
<1>1. CASE Take(w)
  <2>1. RunnerTypes'
    BY <1>1, BrokerAssumption DEF TypeOK, Take, Step, RunnerTypes, RunnerPcs
  <2> QED
    BY <1>1, <2>1 DEF TypeOK, Take, RunnerTypes
<1>2. CASE LeaveWait(w) \/ Claim(w) \/ Load(w)
  <2>1. RunnerTypes'
    BY <1>2 DEF TypeOK, LeaveWait, Claim, Load, Step, RunnerTypes, RunnerPcs
  <2>2. /\ owner' \in Workers \cup {None}
        /\ pending' \in BOOLEAN /\ active' \in BOOLEAN
    BY <1>2 DEF TypeOK, LeaveWait, Claim, Load
  <2> QED
    BY <1>2, <2>1, <2>2 DEF TypeOK, LeaveWait, Claim, Load, RunnerTypes
<1>3. CASE NotRunning(w)
  BY <1>3, RestType, RejectType DEF TypeOK, NotRunning
<1>4. CASE LoseOwnership(w)
  BY <1>4, RestType, RejectType DEF TypeOK, LoseOwnership
<1>5. CASE Finish(w)
  <2>1. /\ handover' \in [Workers -> {"no", "active", "drift", "lost"}]
        /\ runner' \in [Workers -> RunnerPcs]
    BY <1>5 DEF TypeOK, Finish, Step, RunnerPcs
  <2> QED
    BY <1>5, <2>1 DEF TypeOK, Finish
<1>6. CASE Boundary(w)
  <2>1. runner' \in [Workers -> RunnerPcs]
    BY <1>6, RestType DEF TypeOK, Boundary, Step, RunnerPcs
  <2> QED
    BY <1>6, <2>1 DEF TypeOK, Boundary
<1>7. CASE MarkIdle(w)
  BY <1>7, RestType DEF TypeOK, MarkIdle
<1>8. CASE StaleAtIdle(w)
  <2>1. runner' \in [Workers -> RunnerPcs]
    BY <1>8 DEF TypeOK, StaleAtIdle, Step, RunnerPcs
  <2> QED
    BY <1>8, <2>1, RejectType DEF TypeOK, StaleAtIdle
<1>9. CASE Leave(w)
  <2>1. RunnerTypes'
    BY <1>9, TerminateType DEF TypeOK, Leave, Step, RunnerTypes, RunnerPcs
  <2> QED
    BY <1>9, <2>1 DEF TypeOK, Leave, RunnerTypes
<1>10. CASE Release(w)
  <2>1. RunnerTypes'
    BY <1>10, TerminateType DEF TypeOK, Release, Step, RunnerTypes, RunnerPcs
  <2> QED
    BY <1>10, <2>1 DEF TypeOK, Release, RunnerTypes, Owners
<1>11. CASE HandOver(w)
  <2>1. RunnerTypes'
    BY <1>11, TerminateType DEF TypeOK, HandOver, Step, RunnerTypes, RunnerPcs
  <2>2. Push \/ Publish
    BY <1>11 DEF HandOver
  <2> QED
    BY <1>11, <2>1, <2>2, SendType DEF TypeOK, HandOver, RunnerTypes
<1> QED
  BY <1>1, <1>2, <1>3, <1>4, <1>5, <1>6, <1>7, <1>8, <1>9, <1>10, <1>11 DEF Runs

LEMMA RecoversType ==
    ASSUME NEW w \in Workers, TypeOK, Recovers(w)
    PROVE  TypeOK'
<1> USE DEF keys, queues, durable, receiver, runnerVars, bounds, Sends
<1>1. CASE RecoveryLists(w) \/ RecoveryMarks(w)
  <2>1. recovery' \in [Workers -> Sends \cup {"listed"}]
    BY <1>1 DEF TypeOK, RecoveryLists, RecoveryMarks
  <2>2. running' \in BOOLEAN /\ stale' \in BOOLEAN
    BY <1>1 DEF TypeOK, RecoveryLists, RecoveryMarks
  <2>3. CASE RecoveryLists(w)
    BY <2>1, <2>2, <2>3 DEF TypeOK, RecoveryLists
  <2>4. CASE RecoveryMarks(w)
    BY <2>1, <2>2, <2>4 DEF TypeOK, RecoveryMarks
  <2> QED
    BY <1>1, <2>3, <2>4
<1>2. CASE RecoverySends(w)
  <2>1. Push \/ Publish
    BY <1>2 DEF RecoverySends
  <2>2. recovery' \in [Workers -> Sends \cup {"listed"}]
    BY <1>2 DEF TypeOK, RecoverySends
  <2> QED
    BY <1>2, <2>1, <2>2, SendType DEF TypeOK, RecoverySends
<1> QED
  BY <1>1, <1>2 DEF Recovers

LEMMA DisturbsType ==
    ASSUME NEW w \in Workers, TypeOK, Disturbs(w) \/ Ended(w) \/ Start(w)
    PROVE  TypeOK'
<1> USE DEF keys, queues, durable, receiver, runnerVars, others, bounds
<1>1. CASE Absorb(w) \/ Cancel(w)
  <2>1. RunnerTypes'
    BY <1>1 DEF TypeOK, Absorb, Cancel, Step, RunnerTypes, RunnerPcs
  <2>2. CASE Absorb(w)
    BY <2>1, <2>2 DEF TypeOK, Absorb, RunnerTypes
  <2>3. CASE Cancel(w)
    BY <2>1, <2>3 DEF TypeOK, Cancel, RunnerTypes
  <2> QED
    BY <1>1, <2>2, <2>3
<1>2. CASE RunHeartbeat(w) \/ RenewLease(w) \/ IdleHeartbeat(w)
  <2>1. heartbeat' \in Owners
    BY <1>2 DEF TypeOK, RunHeartbeat, RenewLease, IdleHeartbeat, Owners
  <2>2. CASE RunHeartbeat(w)
    BY <2>1, <2>2 DEF TypeOK, RunHeartbeat
  <2>3. CASE RenewLease(w)
    BY <2>1, <2>3 DEF TypeOK, RenewLease
  <2>4. CASE IdleHeartbeat(w)
    BY <2>1, <2>4 DEF TypeOK, IdleHeartbeat
  <2> QED
    BY <1>2, <2>2, <2>3, <2>4
<1>3. CASE ClaimFails(w)
  BY <1>3, TroubleType DEF TypeOK, ClaimFails, Step, RunnerPcs
<1>4. CASE Drift(w)
  BY <1>4, TroubleType, RestType, RejectType DEF TypeOK, Drift
<1>5. CASE HandOverFails(w)
  <2>1. list' \in 0..MaxQueue
    BY <1>5, BrokerAssumption DEF TypeOK, HandOverFails
  <2>2. RunnerTypes'
    BY <1>5, TerminateType DEF HandOverFails
  <2> QED
    BY <1>5, <2>1, <2>2, TroubleType DEF TypeOK, HandOverFails, RunnerTypes
<1>6. CASE Stop(w)
  <2>1. /\ life' \in [Workers -> {"on", "stopping", "dead"}]
        /\ recv' \in [Workers -> {"read", "signal", "drain", "dispatch", "off"}]
        /\ batch' \in [Workers -> 0..MaxQueue]
        /\ recovery' \in [Workers -> Sends \cup {"listed"}]
    BY <1>6, BrokerAssumption DEF TypeOK, Stop, Goto, Sends
  <2> QED
    BY <1>6, <2>1, TroubleType DEF TypeOK, Stop
<1>7. CASE Crash(w)
  BY <1>7, TroubleType, DiesType DEF Crash
<1>8. CASE Ended(w)
  BY <1>8, DiesType DEF Ended, TypeOK
<1>9. CASE Start(w)
  BY <1>9 DEF TypeOK, Start, Goto
<1> QED
  BY <1>1, <1>2, <1>3, <1>4, <1>5, <1>6, <1>7, <1>8, <1>9 DEF Disturbs

LEMMA InitType == Init => TypeOK
<1> SUFFICES ASSUME Init PROVE TypeOK
  OBVIOUS
<1>1. RunnerTypes
  BY BrokerAssumption DEF Init, RunnerTypes, RunnerPcs
<1>2. /\ list \in 0..MaxQueue
      /\ stream \in [Workers \cup {Global} -> 0..MaxQueue]
      /\ batch \in [Workers -> 0..MaxQueue]
      /\ admissions \in 0..MaxAdmissions /\ troubles \in 0..MaxTroubles
  BY BrokerAssumption DEF Init
<1>3. /\ life \in [Workers -> {"on", "stopping", "dead"}]
      /\ recv \in [Workers -> {"read", "signal", "drain", "dispatch", "off"}]
      /\ recovery \in [Workers -> Sends \cup {"listed"}]
      /\ api \in Sends
  BY DEF Init, Sends
<1>4. lock \in Owners /\ heartbeat \in Owners /\ owner \in Workers \cup {None}
  BY DEF Init, Owners
<1>5. replay \in {"ready", "done"}
  BY DEF Init
<1> QED
  BY <1>1, <1>2, <1>3, <1>4, <1>5 DEF Init, TypeOK, RunnerTypes

LEMMA TypeStep ==
    ASSUME TypeOK, [Next]_vars
    PROVE  TypeOK'
<1>1. CASE UNCHANGED vars
  BY <1>1 DEF TypeOK, vars, keys, queues, durable, receiver, runnerVars,
              others, bounds
<1> QED
  BY <1>1, SendersType, TimeType, CutoverType, ReceivesType, RunsType,
     RecoversType, DisturbsType
  DEF Next

(* Every variable keeps to its type: no send, failure or renewal takes a   *)
(* queue, a key or a counter out of its range.                             *)
THEOREM TypeCorrect == Spec => []TypeOK
BY InitType, TypeStep, PTL DEF Spec


-----------------------------------------------------------------------------
(* Queued messages are announced.                                          *)

(* Until something fails every Worker lives, the lock does not name a dead *)
(* one, and no replay is under way.                                        *)
Untroubled ==
    /\ life = [w \in Workers |-> "on"]
    /\ lock # Gone
    /\ replay \in {"ready", "done"}

AnnouncedInv == troubles = 0 => Untroubled /\ (list > 0 => Announced)

(* While the count of troubles is zero no step was one, nor is this one:   *)
(* only Trouble writes the count, and it never returns to zero.            *)
LEMMA NoTroubleYet ==
    ASSUME TypeOK, [Next]_vars, troubles' = 0
    PROVE  troubles = 0 /\ ~Trouble
<1>1. ~Trouble
  BY TroubleType
<1>2. UNCHANGED troubles
  <2> USE <1>1 DEF others, bounds
  <2>1. CASE UNCHANGED vars
    BY <2>1 DEF vars
  <2>2. CASE Admit \/ ApiSends \/ ApiFails
    BY <2>2 DEF Admit, ApiSends, ApiFails
  <2>3. CASE GrowsStale \/ HeartbeatExpires \/ Ages \/ LockExpires
    BY <2>3 DEF GrowsStale, HeartbeatExpires, Ages, LockExpires
  <2>4. CASE SetBarrier \/ Replayed \/ ReplayDies
    BY <2>4 DEF SetBarrier, Replayed, ReplayDies, Fence, FenceRejected,
                PurgeList, PurgeLock, ReplayPush, ReplayPublish, Lift,
                BarrierExpires, Replaying
  <2>5. ASSUME NEW w \in Workers, Receives(w) PROVE UNCHANGED troubles
    BY <2>5 DEF Receives, Read, Reinsert, Forward, Acquire, Drain, Dispatch
  <2>6. ASSUME NEW w \in Workers, Runs(w) PROVE UNCHANGED troubles
    BY <2>6 DEF Runs, Take, LeaveWait, Claim, Load, NotRunning, LoseOwnership,
                Finish, Boundary, MarkIdle, StaleAtIdle, Leave, Release,
                HandOver
  <2>7. ASSUME NEW w \in Workers, Recovers(w) PROVE UNCHANGED troubles
    BY <2>7 DEF Recovers, RecoveryLists, RecoveryMarks, RecoverySends
  <2>8. ASSUME NEW w \in Workers, Disturbs(w) PROVE UNCHANGED troubles
    BY <2>8 DEF Disturbs, Absorb, Cancel, RunHeartbeat, RenewLease,
                IdleHeartbeat, ClaimFails, Drift, HandOverFails, Stop, Crash
  <2>9. ASSUME NEW w \in Workers, Ended(w) \/ Start(w)
        PROVE  UNCHANGED troubles
    BY <2>9 DEF Ended, Start
  <2> QED
    BY <2>1, <2>2, <2>3, <2>4, <2>5, <2>6, <2>7, <2>8, <2>9 DEF Next
<1> QED
  BY <1>1, <1>2

(* And it stays so: only a Trouble stops a Worker or begins a replay.      *)
LEMMA UntroubledStep ==
    ASSUME TypeOK, Untroubled, ~Trouble, [Next]_vars
    PROVE  Untroubled'
<1> USE DEF Untroubled, others, bounds
<1>1. CASE UNCHANGED vars
  BY <1>1 DEF vars, keys
<1>2. CASE Admit \/ ApiSends \/ ApiFails
  BY <1>2 DEF Admit, ApiSends, ApiFails, keys
<1>3. CASE GrowsStale \/ HeartbeatExpires \/ Ages \/ LockExpires
  BY <1>3, BrokerAssumption
  DEF GrowsStale, HeartbeatExpires, Ages, LockExpires, keys
<1>4. CASE SetBarrier \/ Replayed \/ ReplayDies
  BY <1>4 DEF SetBarrier, Replayed, ReplayDies, Fence, FenceRejected,
              PurgeList, PurgeLock, ReplayPush, ReplayPublish, Lift,
              BarrierExpires, Replaying, keys
<1>5. ASSUME NEW w \in Workers, Receives(w) PROVE Untroubled'
  BY <1>5, BrokerAssumption
  DEF Receives, Read, Reinsert, Forward, Acquire, Drain, Dispatch, keys
<1>6. ASSUME NEW w \in Workers, Runs(w) PROVE Untroubled'
  BY <1>6, BrokerAssumption
  DEF Runs, Take, LeaveWait, Claim, Load, NotRunning, LoseOwnership, Finish,
      Boundary, MarkIdle, StaleAtIdle, Leave, Release, HandOver, keys
<1>7. ASSUME NEW w \in Workers, Recovers(w) PROVE Untroubled'
  BY <1>7 DEF Recovers, RecoveryLists, RecoveryMarks, RecoverySends, keys
<1>8. ASSUME NEW w \in Workers, Disturbs(w) PROVE Untroubled'
  BY <1>8 DEF Disturbs, Absorb, Cancel, RunHeartbeat, RenewLease,
              IdleHeartbeat, ClaimFails, Drift, HandOverFails, Stop, Crash, keys
<1>9. ASSUME NEW w \in Workers, Ended(w) \/ Start(w) PROVE FALSE
  BY <1>9 DEF Ended, Start
<1> QED
  BY <1>1, <1>2, <1>3, <1>4, <1>5, <1>6, <1>7, <1>8, <1>9 DEF Next


(* What is published before anything failed lands in a stream.             *)
LEMMA AnnounceLands ==
    ASSUME TypeOK, NEW s \in Workers \cup {Global}, Announce(s)
    PROVE  Announced'
<1>1. stream'[s] > 0
  BY AddsSome, BrokerAssumption DEF TypeOK, Announce
<1> QED
  BY <1>1 DEF Announced

LEMMA PublishLands ==
    ASSUME TypeOK, Untroubled, Publish
    PROVE  Announced'
<1>1. Route \in Workers \cup {Global}
  BY DEF Route, LiveOwner, TypeOK, Owners, Untroubled
<1> QED
  BY <1>1, AnnounceLands DEF Publish

(* A step of one runner that was not about to publish takes nothing away.  *)
LEMMA RunnerKeepsAnnounced ==
    ASSUME NEW w \in Workers, Announced, runner[w] # "publish",
           \A v \in Workers \ {w} : runner'[v] = runner[v],
           UNCHANGED <<stream, recv, api, recovery, replay>>
    PROVE  Announced'
BY DEF Announced

(* Nor does one that leaves all of them as they are.                       *)
LEMMA FrameKeepsAnnounced ==
    ASSUME Announced, UNCHANGED <<stream, recv, runner, api, recovery, replay>>
    PROVE  Announced'
BY DEF Announced

LEMMA ReceivesAnnounced ==
    ASSUME NEW w \in Workers, TypeOK, Untroubled, list > 0 => Announced,
           Receives(w), list' > 0
    PROVE  Announced'
<1> USE DEF Goto
<1>1. CASE Read(w) \/ Acquire(w)
  <2>1. recv'[w] \in {"signal", "drain"}
    BY <1>1 DEF TypeOK, Read, Acquire
  <2> QED
    BY <2>1 DEF Announced
<1>2. CASE Reinsert(w)
  BY <1>2, AnnounceLands DEF Reinsert
<1>3. CASE Forward(w)
  <2>1. lock \in Workers \cup {Global}
    BY <1>3 DEF Forward, OwnedByAnother, LiveOwner, TypeOK, Owners, Untroubled
  <2> QED
    BY <1>3, <2>1, AnnounceLands DEF Forward
<1>4. CASE Drain(w)
  BY <1>4 DEF Drain
<1>5. CASE Dispatch(w)
  <2>1. Announced
    BY <1>5 DEF Dispatch, queues
  <2>2. recv[w] = "dispatch" /\ \A v \in Workers \ {w} : recv'[v] = recv[v]
    BY <1>5 DEF Dispatch, TypeOK
  <2>3. \A v \in Workers : runner[v] = "publish" => runner'[v] = "publish"
    BY <1>5 DEF Dispatch, TypeOK
  <2> QED
    BY <1>5, <2>1, <2>2, <2>3
    DEF Dispatch, queues, others, Announced
<1> QED
  BY <1>1, <1>2, <1>3, <1>4, <1>5 DEF Receives

LEMMA RunsAnnounced ==
    ASSUME NEW w \in Workers, TypeOK, Untroubled, list > 0 => Announced,
           Runs(w), list' > 0
    PROVE  Announced'
<1> USE DEF queues, receiver, others, Step
<1>1. CASE Take(w) \/ LeaveWait(w) \/ Claim(w) \/ Load(w)
  BY <1>1, RunnerKeepsAnnounced DEF TypeOK, Take, LeaveWait, Claim, Load
<1>2. CASE NotRunning(w) \/ LoseOwnership(w) \/ Finish(w)
  BY <1>2, RunnerKeepsAnnounced
  DEF TypeOK, NotRunning, LoseOwnership, Finish, Rest
<1>3. CASE Boundary(w) \/ MarkIdle(w) \/ StaleAtIdle(w)
  BY <1>3, RunnerKeepsAnnounced DEF TypeOK, Boundary, MarkIdle, StaleAtIdle, Rest
<1>4. CASE Leave(w) \/ Release(w)
  BY <1>4, RunnerKeepsAnnounced DEF TypeOK, Leave, Release, Terminate
<1>5. CASE HandOver(w)
  <2>1. CASE runner[w] = "push"
    <3>1. runner'[w] = "publish"
      BY <1>5, <2>1 DEF HandOver, TypeOK
    <3> QED
      BY <3>1 DEF Announced
  <2>2. CASE runner[w] = "publish"
    BY <1>5, <2>2, PublishLands DEF HandOver
  <2> QED
    BY <1>5, <2>1, <2>2 DEF HandOver
<1> QED
  BY <1>1, <1>2, <1>3, <1>4, <1>5 DEF Runs

LEMMA RecoversAnnounced ==
    ASSUME NEW w \in Workers, TypeOK, Untroubled, list > 0 => Announced,
           Recovers(w), list' > 0
    PROVE  Announced'
<1>1. CASE RecoveryLists(w) \/ RecoveryMarks(w)
  <2>1. \A v \in Workers : recovery[v] = "publish" => recovery'[v] = "publish"
    BY <1>1 DEF TypeOK, RecoveryLists, RecoveryMarks
  <2> QED
    BY <1>1, <2>1 DEF RecoveryLists, RecoveryMarks, Announced, queues,
                      receiver, runnerVars
<1>2. CASE RecoverySends(w)
  <2>1. CASE recovery[w] = "push"
    <3>1. recovery'[w] = "publish"
      BY <1>2, <2>1 DEF RecoverySends, TypeOK
    <3> QED
      BY <3>1 DEF Announced
  <2>2. CASE recovery[w] # "push"
    BY <1>2, <2>2, PublishLands DEF RecoverySends
  <2> QED
    BY <2>1, <2>2
<1> QED
  BY <1>1, <1>2 DEF Recovers

LEMMA AnnouncedStep ==
    ASSUME TypeOK, Untroubled, list > 0 => Announced, ~Trouble,
           [Next]_vars, list' > 0
    PROVE  Announced'
<1> USE DEF queues, receiver, runnerVars, others, bounds
<1>1. CASE UNCHANGED vars
  BY <1>1, FrameKeepsAnnounced DEF vars
<1>2. CASE Admit
  <2>1. Announced
    BY <1>2 DEF Admit
  <2> QED
    BY <1>2, <2>1 DEF Admit, Announced
<1>3. CASE ApiSends
  <2>1. CASE api = "push"
    BY <1>3, <2>1 DEF ApiSends, Announced
  <2>2. CASE api = "publish"
    BY <1>3, <2>2, PublishLands DEF ApiSends
  <2> QED
    BY <1>3, <2>1, <2>2 DEF ApiSends
<1>4. CASE GrowsStale \/ HeartbeatExpires \/ Ages \/ LockExpires
  BY <1>4, FrameKeepsAnnounced
  DEF GrowsStale, HeartbeatExpires, Ages, LockExpires
<1>5. CASE Replayed
  <2>1. BarrierExpires
    BY <1>5 DEF Untroubled, Replayed, Fence, FenceRejected, PurgeList,
                PurgeLock, ReplayPush, ReplayPublish, Lift, Replaying
  <2> QED
    BY <2>1, FrameKeepsAnnounced DEF BarrierExpires
<1>6. ASSUME NEW w \in Workers, Absorb(w) \/ Cancel(w)
      PROVE  Announced'
  BY <1>6, RunnerKeepsAnnounced DEF TypeOK, Absorb, Cancel, Step
<1>7. ASSUME NEW w \in Workers,
             RunHeartbeat(w) \/ RenewLease(w) \/ IdleHeartbeat(w)
      PROVE  Announced'
  BY <1>7, FrameKeepsAnnounced DEF RunHeartbeat, RenewLease, IdleHeartbeat
<1>8. ASSUME NEW w \in Workers, Disturbs(w)
      PROVE  Announced'
  BY <1>6, <1>7, <1>8
  DEF Disturbs, ClaimFails, Drift, HandOverFails, Stop, Crash
<1>9. ~(ApiFails \/ SetBarrier \/ ReplayDies)
  BY DEF ApiFails, SetBarrier, ReplayDies
<1>10. \A w \in Workers : ~(Ended(w) \/ Start(w))
  BY DEF Untroubled, Ended, Start
<1> QED
  BY <1>1, <1>2, <1>3, <1>4, <1>5, <1>8, <1>9, <1>10, ReceivesAnnounced,
     RunsAnnounced, RecoversAnnounced
  DEF Next

(* Until something fails, no order of pushes, drains, forwards and lease   *)
(* changes leaves a queued message without its notification.               *)
THEOREM QueuedAlwaysAnnounced == Spec => []QueuedIsAnnounced
<1>1. Init => AnnouncedInv
  BY BrokerAssumption DEF Init, AnnouncedInv, Untroubled
<1>2. TypeOK /\ AnnouncedInv /\ [Next]_vars => AnnouncedInv'
  BY NoTroubleYet, UntroubledStep, AnnouncedStep DEF AnnouncedInv
<1>3. AnnouncedInv => QueuedIsAnnounced
  BY DEF AnnouncedInv, QueuedIsAnnounced
<1> QED
  BY <1>1, <1>2, <1>3, TypeCorrect, PTL DEF Spec

-----------------------------------------------------------------------------
(* SessionBroker implements SessionWork.                                   *)

USE DEF Work!vars, Work!Next, Work!Done

LEMMA WorkInit == Init => Work!Init
BY DEF Init, Work!Init

(* What a step that leaves the durable record alone is to SessionWork.     *)
LEMMA RecordKept ==
    ASSUME UNCHANGED <<owner, running, pending, active>>
    PROVE  UNCHANGED Work!vars
OBVIOUS

(* The owner that is current is the one of SessionWork.                    *)
LEMMA CurrentOwner ==
    ASSUME NEW w \in Workers, ~Superseded(w)
    PROVE  w \in {owner} \ {None}
BY BrokerAssumption DEF Superseded

LEMMA WorkLoad ==
    ASSUME NEW w \in Workers, TypeOK, Load(w)
    PROVE  [Work!Next]_(Work!vars)
<1>1. running /\ w \in {owner} \ {None}
  BY CurrentOwner DEF Load, Superseded
<1>2. UNCHANGED <<owner, running>> /\ pending' = FALSE
  BY DEF Load
<1>3. CASE pending \/ active
  <2>1. active' = TRUE
    BY <1>3 DEF Load
  <2>2. Work!Begin(w)
    BY <1>1, <1>2, <2>1 DEF Work!Begin
  <2> QED
    BY <2>2
<1>4. CASE ~pending /\ ~active
  <2>1. pending' = pending /\ active' = active
    BY <1>4 DEF Load, TypeOK
  <2> QED
    BY <1>2, <2>1
<1> QED
  BY <1>3, <1>4

LEMMA WorkIdle ==
    ASSUME NEW w \in Workers, TypeOK, MarkIdle(w)
    PROVE  [Work!Next]_(Work!vars)
<1>1. w \in {owner} \ {None}
  BY CurrentOwner DEF MarkIdle
<1>2. UNCHANGED <<owner, pending, active>>
  BY DEF MarkIdle
<1>3. CASE running /\ (pending \/ active)
  <2>1. running' = running
    BY <1>3 DEF MarkIdle, TypeOK
  <2> QED
    BY <1>2, <2>1
<1>4. CASE ~(pending \/ active)
  <2>1. running' = FALSE
    BY <1>4 DEF MarkIdle
  <2>2. Work!Rest(w)
    BY <1>1, <1>2, <1>4, <2>1 DEF Work!Rest
  <2> QED
    BY <2>2
<1>5. CASE ~running
  <2>1. running' = running
    BY <1>5 DEF MarkIdle, TypeOK
  <2> QED
    BY <1>2, <2>1
<1> QED
  BY <1>3, <1>4, <1>5

LEMMA WorkRuns ==
    ASSUME NEW w \in Workers, TypeOK, Runs(w)
    PROVE  [Work!Next]_(Work!vars)
<1>1. CASE Claim(w)
  <2>1. {owner'} \ {None} = {w} /\ UNCHANGED <<running, pending, active>>
    BY <1>1, BrokerAssumption DEF Claim
  <2>2. Work!Claim(w)
    BY <2>1 DEF Work!Claim
  <2> QED
    BY <2>2
<1>2. CASE Finish(w)
  <2>1. w \in {owner} \ {None} /\ UNCHANGED <<owner, running, pending>>
    BY <1>2, CurrentOwner DEF Finish
  <2>2. active' = FALSE
    BY <1>2 DEF Finish
  <2>3. CASE active
    <3>1. Work!Finish(w)
      BY <2>1, <2>2, <2>3 DEF Work!Finish
    <3> QED
      BY <3>1
  <2>4. CASE ~active
    BY <2>1, <2>2, <2>4 DEF TypeOK
  <2> QED
    BY <2>3, <2>4
<1>3. CASE Load(w)
  BY <1>3, WorkLoad
<1>4. CASE MarkIdle(w)
  BY <1>4, WorkIdle
<1>5. CASE UNCHANGED durable
  BY <1>5, RecordKept DEF durable
<1> QED
  BY <1>1, <1>2, <1>3, <1>4, <1>5
  DEF Runs, Take, LeaveWait, NotRunning, LoseOwnership, Boundary, StaleAtIdle,
      Leave, Release, HandOver

(* A process that dies takes its ownership along.                          *)
LEMMA WorkDies ==
    ASSUME NEW w \in Workers, Dies(w)
    PROVE  [Work!Next]_(Work!vars)
<1>1. UNCHANGED <<running, pending, active>>
  BY DEF Dies
<1>2. CASE owner = w
  <2>1. {owner'} \ {None} = {}
    BY <1>2 DEF Dies
  <2>2. Work!Leave
    BY <1>1, <2>1 DEF Work!Leave
  <2> QED
    BY <2>2
<1>3. CASE owner # w
  BY <1>1, <1>3 DEF Dies
<1> QED
  BY <1>2, <1>3

LEMMA WorkDisturbs ==
    ASSUME NEW w \in Workers, Disturbs(w)
    PROVE  [Work!Next]_(Work!vars)
<1>1. CASE Absorb(w)
  <2>1. Work!Drop
    BY <1>1 DEF Absorb, Work!Drop
  <2> QED
    BY <2>1
<1>2. CASE Crash(w)
  BY <1>2, WorkDies DEF Crash
<1>3. CASE UNCHANGED <<owner, running, pending, active>>
  BY <1>3, RecordKept
<1> QED
  BY <1>1, <1>2, <1>3
  DEF Disturbs, Cancel, RunHeartbeat, RenewLease, IdleHeartbeat, ClaimFails,
      Drift, HandOverFails, Stop, durable

LEMMA WorkRecovers ==
    ASSUME NEW w \in Workers, Recovers(w)
    PROVE  [Work!Next]_(Work!vars)
<1>1. CASE RecoveryMarks(w)
  <2>1. Work!Wake
    BY <1>1 DEF RecoveryMarks, Work!Wake
  <2> QED
    BY <2>1
<1>2. CASE UNCHANGED durable
  BY <1>2, RecordKept DEF durable
<1> QED
  BY <1>1, <1>2 DEF Recovers, RecoveryLists, RecoverySends

LEMMA WorkReplayed ==
    ASSUME SetBarrier \/ Replayed \/ ReplayDies
    PROVE  [Work!Next]_(Work!vars)
<1>1. CASE Fence
  <2>1. {owner'} \ {None} = {} /\ UNCHANGED <<running, pending, active>>
    BY <1>1 DEF Fence
  <2>2. Work!Leave
    BY <2>1 DEF Work!Leave
  <2> QED
    BY <2>2
<1>2. CASE UNCHANGED durable
  BY <1>2, RecordKept DEF durable
<1> QED
  BY <1>1, <1>2
  DEF SetBarrier, Replayed, ReplayDies, FenceRejected, PurgeList, PurgeLock,
      ReplayPush, ReplayPublish, Lift, BarrierExpires

LEMMA WorkStep == TypeOK /\ [Next]_vars => [Work!Next]_(Work!vars)
<1> SUFFICES ASSUME TypeOK, [Next]_vars
             PROVE  [Work!Next]_(Work!vars)
  OBVIOUS
<1>1. CASE Admit
  <2>1. Work!Admit
    BY <1>1 DEF Admit, Work!Admit
  <2> QED
    BY <2>1
<1>2. CASE SetBarrier \/ Replayed \/ ReplayDies
  BY <1>2, WorkReplayed
<1>3. ASSUME NEW w \in Workers,
             Runs(w) \/ Recovers(w) \/ Disturbs(w) \/ Ended(w)
      PROVE  [Work!Next]_(Work!vars)
  BY <1>3, WorkRuns, WorkRecovers, WorkDisturbs, WorkDies DEF Ended
<1>4. CASE UNCHANGED <<owner, running, pending, active>>
  BY <1>4, RecordKept
<1>5. ASSUME NEW w \in Workers, Receives(w) \/ Start(w)
      PROVE  UNCHANGED <<owner, running, pending, active>>
  BY <1>5
  DEF Receives, Read, Reinsert, Forward, Acquire, Drain, Dispatch, Start, durable
<1>6. CASE \/ ApiSends \/ ApiFails \/ GrowsStale \/ HeartbeatExpires \/ Ages
           \/ LockExpires \/ UNCHANGED vars
  BY <1>4, <1>6
  DEF ApiSends, ApiFails, GrowsStale, HeartbeatExpires, Ages, LockExpires,
      durable, vars
<1> QED
  BY <1>1, <1>2, <1>3, <1>4, <1>5, <1>6 DEF Next

(* Whatever Redis, the Workers and a cutover do, the durable record changes *)
(* as SessionWork allows: only the Worker of the current generation begins *)
(* and ends runs, and it lets the session rest only when all is done.      *)
THEOREM ImplementsSessionWork == Spec => OwnersDoTheWork
<1>1. TypeOK /\ [Next]_vars => [Work!Next]_(Work!vars)
  BY WorkStep
<1> QED
  BY <1>1, WorkInit, TypeCorrect, PTL DEF Spec, OwnersDoTheWork, Work!Spec

(* Whatever SessionWork allows, a session rests only when all is done.     *)
LEMMA WorkRests ==
    ASSUME Work!RestMeansDone, [Work!Next]_(Work!vars)
    PROVE  Work!RestMeansDone'
<1>1. (\A v, w \in {owner} \ {None} : v = w)'
  OBVIOUS
<1>2. CASE running'
  BY <1>1, <1>2 DEF Work!RestMeansDone
<1>3. CASE ~running'
  <2>1. CASE UNCHANGED <<running, active>> /\ (pending' => pending)
    BY <1>1, <1>3, <2>1 DEF Work!RestMeansDone
  <2>2. ASSUME NEW w \in Workers, Work!Rest(w)
        PROVE  Work!RestMeansDone'
    BY <1>1, <2>2 DEF Work!RestMeansDone, Work!Rest
  <2>3. ASSUME NEW w \in Workers, Work!Finish(w)
        PROVE  Work!RestMeansDone'
    BY <1>1, <1>3, <2>3 DEF Work!RestMeansDone, Work!Finish
  <2>4. Work!Drop \/ Work!Leave \/ UNCHANGED Work!vars
           => UNCHANGED <<running, active>> /\ (pending' => pending)
    BY DEF Work!Drop, Work!Leave
  <2>5. \A w \in Workers :
           Work!Claim(w) => UNCHANGED <<running, active>> /\ (pending' => pending)
    BY DEF Work!Claim
  <2>6. ASSUME NEW w \in Workers, Work!Begin(w)
        PROVE  FALSE
    <3>1. running /\ running' = running
      BY <2>6, Zenon DEF Work!Begin
    <3> QED
      BY <1>3, <3>1
  <2>7. /\ ~(Work!Admit \/ Work!Retry \/ Work!Wake)
        /\ \A w \in Workers : ~Work!Continue(w)
    BY <1>3 DEF Work!Admit, Work!Retry, Work!Wake, Work!Continue
  <2>8. ASSUME NEW w \in Workers,
               \/ Work!Claim(w) \/ Work!Begin(w) \/ Work!Finish(w)
               \/ Work!Rest(w) \/ Work!Continue(w)
        PROVE  Work!RestMeansDone'
    BY <2>1, <2>2, <2>3, <2>5, <2>6, <2>7, <2>8
  <2>9. CASE Work!Drop \/ Work!Leave \/ UNCHANGED Work!vars
    BY <2>1, <2>4, <2>9
  <2> QED
    BY <2>7, <2>8, <2>9
<1> QED
  BY <1>2, <1>3

(* So a session at rest has no work left, whatever was lost on the way: a  *)
(* wake-up that Redis loses costs time, never a session that sleeps on its *)
(* work.                                                                   *)
THEOREM RestsOnlyWhenDone == Spec => []Work!RestMeansDone
<1>1. Work!Init => Work!RestMeansDone
  BY DEF Work!Init, Work!RestMeansDone
<1>2. ASSUME Work!RestMeansDone, [Work!Next]_(Work!vars)
      PROVE  Work!RestMeansDone'
  BY WorkRests, <1>2
<1> QED
  BY <1>1, <1>2, ImplementsSessionWork, PTL DEF OwnersDoTheWork, Work!Spec
=============================================================================
