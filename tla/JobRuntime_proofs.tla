-------------------------- MODULE JobRuntime_proofs --------------------------
(* Proofs about JobRuntime.  Shape says, for one key, how its task, its     *)
(* handler, its container and its place among the detached agree; PoolBalance *)
(* and SlotBalance count the permits that are out.                          *)
EXTENDS JobRuntime, FiniteSetTheorems, TLAPS

Running == {"running"} \cup Grace

Types ==
    /\ task \in [Keys -> {"created", "slotWait", "poolWait"}
                         \cup Inside \cup Done]
    /\ cleanup \in [Keys -> {"none", "created", "waiting"}]
    /\ handlers \in [Keys -> Nat]
    /\ open \subseteq Keys /\ rerun \subseteq Keys
    /\ detached \subseteq Keys /\ awaited \subseteq Keys
    /\ interrupted \subseteq Keys
    /\ pool \in Nat
    /\ slots \in [Limited -> Nat]
    /\ closer \in {"no", "waiting", "done"}
    /\ submits \in 0..MaxSubmits /\ cancels \in 0..MaxCancels
    /\ \A k \in Keys : task[k] = "slotWait" => IsLimited(k)

Shape(k) ==
    /\ handlers[k] <= 1
    /\ handlers[k] = 1 =>
           task[k] \in Running \/ k \in detached \/ k \in interrupted
    /\ k \in detached /\ handlers[k] = 1 =>
           cleanup[k] # "none" \/ k \in interrupted
    /\ k \in interrupted => \/ task[k] \in {"unwinding", "none"}
                            \/ k \in detached /\ cleanup[k] = "none"
    /\ k \in interrupted => closer # "no"
    /\ k \in detached => task[k] = "finished"
    /\ cleanup[k] # "none" => k \in detached
    /\ k \in open <=> task[k] \in Running \/ k \in detached
    /\ closer = "done" => task[k] = "none"

Shapes == \A k \in Keys : Shape(k)

Holders == {k \in Keys : task[k] \in Inside \/ k \in detached}
SlotHolders(h) ==
    {k \in Keys : /\ HandlerOf[k] = h
                  /\ task[k] \in Inside \cup {"poolWait"} \/ k \in detached}

PoolBalance == pool + Cardinality(Holders) = MaxConcurrency
SlotBalance ==
    \A h \in Limited : slots[h] + Cardinality(SlotHolders(h)) <= SlotLimit[h]

IInv == Types /\ Shapes /\ PoolBalance /\ SlotBalance

-----------------------------------------------------------------------------
(* Subsets of Keys can be counted, and one key more or less changes the     *)
(* count by one.                                                            *)
LEMMA Counting ==
  ASSUME NEW S \in SUBSET Keys
  PROVE  /\ IsFiniteSet(S) /\ Cardinality(S) \in Nat
         /\ \A T \in SUBSET S : Cardinality(T) <= Cardinality(S)
         /\ \A k : k \notin S => Cardinality(S \cup {k}) = Cardinality(S) + 1
         /\ \A k \in S : Cardinality(S \ {k}) = Cardinality(S) - 1
<1>1. IsFiniteSet(S)
  BY JobAssumption, FS_Subset
<1> QED
  BY <1>1, FS_CardinalityType, FS_Subset, FS_AddElement, FS_RemoveElement

-----------------------------------------------------------------------------
(* Every step keeps the types of the variables.                             *)
LEMMA TypesKept == Types /\ [Next]_vars => Types'
<1> SUFFICES ASSUME Types, [Next]_vars PROVE Types'
  OBVIOUS
<1> USE JobAssumption DEF Types, Inside, Grace, Done, IsLimited
<1>1. ASSUME NEW k \in Keys, Accept(k) PROVE Types'
  BY <1>1 DEF Accept, permits, closing
<1>2. ASSUME NEW k \in Keys, Coalesce(k) PROVE Types'
  BY <1>2 DEF Coalesce, permits, closing
<1>3. ASSUME NEW k \in Keys, HandlerEnds(k) PROVE Types'
  BY <1>3 DEF HandlerEnds, permits, closing
<1>4. ASSUME NEW k \in Keys, Step(k) PROVE Types'
  <2> USE DEF permits, closing, ReturnPermits, ReturnSlot, Settle,
              FirstWait
  <2>1. CASE Begin(k)
    BY <2>1 DEF Begin
  <2>2. CASE AcquireSlot(k)
    BY <2>2 DEF AcquireSlot, TakeSlot
  <2>3. CASE SlotTimesOut(k)
    BY <2>3 DEF SlotTimesOut
  <2>4. CASE AcquirePool(k)
    BY <2>4 DEF AcquirePool
  <2>5. CASE PoolTimesOut(k)
    BY <2>5 DEF PoolTimesOut
  <2>6. CASE Enter(k)
    BY <2>6 DEF Enter
  <2>7. CASE EnterFails(k)
    BY <2>7 DEF EnterFails
  <2>8. CASE HandlerSettles(k)
    BY <2>8 DEF HandlerSettles
  <2>9. CASE DeadlinePasses(k)
    BY <2>9 DEF DeadlinePasses
  <2>10. CASE Detach(k)
    BY <2>10 DEF Detach, Quarantine
  <2>11. CASE Leave(k)
    BY <2>11 DEF Leave
  <2>12. CASE Unwind(k)
    BY <2>12 DEF Unwind
  <2>13. CASE CleanupBegins(k)
    BY <2>13 DEF CleanupBegins
  <2>14. CASE CleanupEnds(k)
    BY <2>14 DEF CleanupEnds
  <2> QED
    BY <1>4, <2>1, <2>2, <2>3, <2>4, <2>5, <2>6, <2>7, <2>8, <2>9, <2>10,
       <2>11, <2>12, <2>13, <2>14 DEF Step
<1>5. CASE Close
  BY <1>5 DEF Close, Snapshot, Owned, permits
<1>6. CASE Gathered
  BY <1>6 DEF Gathered, Snapshot, Owned, permits
<1>7. CASE CloseCancelled
  BY <1>7 DEF CloseCancelled, CancelledTask, permits
<1>8. CASE UNCHANGED vars
  BY <1>8 DEF vars, permits, closing
<1> QED
  BY <1>1, <1>2, <1>3, <1>4, <1>5, <1>6, <1>7, <1>8 DEF Next
-----------------------------------------------------------------------------
(* Every step keeps task, handler, container and detachment of a key in     *)
(* agreement.                                                               *)
LEMMA ShapesKept == Types /\ Shapes /\ [Next]_vars => Shapes'
<1> SUFFICES ASSUME Types, Shapes, [Next]_vars, NEW j \in Keys
             PROVE  Shape(j)'
  BY DEF Shapes
<1>0. Shape(j)
  BY DEF Shapes
<1> USE <1>0 DEF Types, Shape, Running, Inside, Grace, Done
<1>1. ASSUME NEW k \in Keys, Accept(k) PROVE Shape(j)'
  BY <1>1 DEF Accept, permits, closing
<1>2. ASSUME NEW k \in Keys, Coalesce(k) PROVE Shape(j)'
  BY <1>2 DEF Coalesce, permits, closing
<1>3. ASSUME NEW k \in Keys, HandlerEnds(k) PROVE Shape(j)'
  BY <1>3 DEF HandlerEnds, permits, closing
<1>4. ASSUME NEW k \in Keys, Step(k) PROVE Shape(j)'
  <2>0. Shape(k)
    BY DEF Shapes
  <2> USE <2>0 DEF permits, closing, Settle, FirstWait
  <2>1. CASE Begin(k)
    BY <2>1 DEF Begin
  <2>2. CASE AcquireSlot(k)
    BY <2>2 DEF AcquireSlot
  <2>3. CASE SlotTimesOut(k)
    BY <2>3 DEF SlotTimesOut
  <2>4. CASE AcquirePool(k)
    BY <2>4 DEF AcquirePool
  <2>5. CASE PoolTimesOut(k)
    BY <2>5 DEF PoolTimesOut
  <2>6. CASE Enter(k)
    BY <2>6 DEF Enter
  <2>7. CASE EnterFails(k)
    BY <2>7 DEF EnterFails
  <2>8. CASE HandlerSettles(k)
    BY <2>8 DEF HandlerSettles
  <2>9. CASE DeadlinePasses(k)
    BY <2>9 DEF DeadlinePasses
  <2>10. CASE Detach(k)
    BY <2>10 DEF Detach, Quarantine
  <2>11. CASE Leave(k)
    BY <2>11 DEF Leave
  <2>12. CASE Unwind(k)
    BY <2>12 DEF Unwind
  <2>13. CASE CleanupBegins(k)
    BY <2>13 DEF CleanupBegins
  <2>14. CASE CleanupEnds(k)
    BY <2>14 DEF CleanupEnds
  <2> QED
    BY <1>4, <2>1, <2>2, <2>3, <2>4, <2>5, <2>6, <2>7, <2>8,
       <2>9, <2>10, <2>11, <2>12, <2>13, <2>14 DEF Step
<1>5. CASE Close
  BY <1>5 DEF Close, Snapshot, Owned, permits
<1>6. CASE Gathered
  BY <1>6 DEF Gathered, Snapshot, Owned, permits
<1>7. CASE CloseCancelled
  BY <1>7 DEF CloseCancelled, CancelledTask, permits
<1>8. CASE UNCHANGED vars
  BY <1>8 DEF vars, permits, closing
<1> QED
  BY <1>1, <1>2, <1>3, <1>4, <1>5, <1>6, <1>7, <1>8 DEF Next
-----------------------------------------------------------------------------
(* A step leaves the permits of the pool alone, or takes one for the key k  *)
(* that goes in, or gives one back for the key k that comes out.            *)
PoolMove(k) ==
    \/ Holders' = Holders /\ pool' = pool
    \/ k \notin Holders /\ Holders' = Holders \cup {k} /\ pool' = pool - 1
    \/ k \in Holders /\ Holders' = Holders \ {k} /\ pool' = pool + 1

(* The same for the permits of the handler h, which may also be lost.       *)
SlotMove(h, k) ==
    \/ SlotHolders(h)' \subseteq SlotHolders(h) /\ slots'[h] = slots[h]
    \/ /\ k \notin SlotHolders(h)
       /\ SlotHolders(h)' = SlotHolders(h) \cup {k}
       /\ slots'[h] = slots[h] - 1
    \/ /\ k \in SlotHolders(h)
       /\ SlotHolders(h)' = SlotHolders(h) \ {k}
       /\ slots'[h] = slots[h] + 1

(* Such a move keeps the balance of the pool.                               *)
LEMMA PoolMoveBalances ==
  ASSUME Types, PoolBalance, NEW k, PoolMove(k) PROVE PoolBalance'
<1>1. Holders \in SUBSET Keys
  BY DEF Holders
<1>2. /\ Cardinality(Holders) \in Nat
      /\ k \notin Holders =>
             Cardinality(Holders \cup {k}) = Cardinality(Holders) + 1
      /\ k \in Holders => Cardinality(Holders \ {k}) = Cardinality(Holders) - 1
  BY <1>1, Counting
<1>3. pool \in Nat /\ pool + Cardinality(Holders) = MaxConcurrency
  BY DEF PoolBalance, Types
<1>4. CASE Holders' = Holders /\ pool' = pool
  BY <1>3, <1>4 DEF PoolBalance
<1>5. CASE k \notin Holders /\ Holders' = Holders \cup {k} /\ pool' = pool - 1
  <2>1. pool' + Cardinality(Holders') = MaxConcurrency
    BY <1>2, <1>3, <1>5
  <2> QED
    BY <2>1 DEF PoolBalance
<1>6. CASE k \in Holders /\ Holders' = Holders \ {k} /\ pool' = pool + 1
  <2>1. pool' + Cardinality(Holders') = MaxConcurrency
    BY <1>2, <1>3, <1>6
  <2> QED
    BY <2>1 DEF PoolBalance
<1> QED
  BY <1>4, <1>5, <1>6 DEF PoolMove

(* Such a move keeps the permits of a handler within its limit.             *)
LEMMA SlotMoveBalances ==
  ASSUME Types, SlotBalance, NEW h \in Limited, NEW k, SlotMove(h, k)
  PROVE  slots'[h] + Cardinality(SlotHolders(h)') <= SlotLimit[h]
<1>1. SlotHolders(h) \in SUBSET Keys /\ SlotHolders(h)' \in SUBSET Keys
  BY DEF SlotHolders
<1>2. /\ Cardinality(SlotHolders(h)) \in Nat
      /\ k \notin SlotHolders(h) =>
             Cardinality(SlotHolders(h) \cup {k})
                 = Cardinality(SlotHolders(h)) + 1
      /\ k \in SlotHolders(h) =>
             Cardinality(SlotHolders(h) \ {k}) = Cardinality(SlotHolders(h)) - 1
  BY <1>1, Counting
<1>3. Cardinality(SlotHolders(h)') \in Nat
  BY <1>1, Counting
<1>4. SlotHolders(h)' \subseteq SlotHolders(h) =>
          Cardinality(SlotHolders(h)') <= Cardinality(SlotHolders(h))
  BY <1>1, Counting
<1>5. /\ slots[h] \in Nat
      /\ slots[h] + Cardinality(SlotHolders(h)) <= SlotLimit[h]
      /\ SlotLimit[h] \in Nat
  BY JobAssumption DEF SlotBalance, Types
<1>6. CASE SlotHolders(h)' \subseteq SlotHolders(h) /\ slots'[h] = slots[h]
  BY <1>2, <1>3, <1>4, <1>5, <1>6
<1>7. CASE /\ k \notin SlotHolders(h)
           /\ SlotHolders(h)' = SlotHolders(h) \cup {k}
           /\ slots'[h] = slots[h] - 1
  BY <1>2, <1>5, <1>7
<1>8. CASE /\ k \in SlotHolders(h)
           /\ SlotHolders(h)' = SlotHolders(h) \ {k}
           /\ slots'[h] = slots[h] + 1
  BY <1>2, <1>5, <1>8
<1> QED
  BY <1>6, <1>7, <1>8 DEF SlotMove

-----------------------------------------------------------------------------
(* Every step is such a move of the pool.                                   *)
LEMMA PoolMoves ==
  ASSUME Types, Shapes, Keys # {}, [Next]_vars PROVE \E k \in Keys : PoolMove(k)
<1> USE DEF Types, PoolMove, Holders, Inside, Grace, Done
<1>1. ASSUME NEW k \in Keys, Accept(k) PROVE PoolMove(k)
  BY <1>1 DEF Accept, permits, closing, Shapes, Shape
<1>2. ASSUME NEW k \in Keys, Coalesce(k) PROVE PoolMove(k)
  BY <1>2 DEF Coalesce, permits
<1>3. ASSUME NEW k \in Keys, HandlerEnds(k) PROVE PoolMove(k)
  BY <1>3 DEF HandlerEnds, permits
<1>4. ASSUME NEW k \in Keys, Step(k) PROVE PoolMove(k)
  <2>0. Shape(k)
    BY DEF Shapes
  <2> USE <2>0 DEF Shape, permits, ReturnPermits, Settle, FirstWait
  <2>1. CASE Begin(k)
    BY <2>1 DEF Begin
  <2>2. CASE AcquireSlot(k)
    BY <2>2 DEF AcquireSlot
  <2>3. CASE SlotTimesOut(k)
    BY <2>3 DEF SlotTimesOut
  <2>4. CASE AcquirePool(k)
    BY <2>4 DEF AcquirePool
  <2>5. CASE PoolTimesOut(k)
    BY <2>5 DEF PoolTimesOut
  <2>6. CASE Enter(k)
    BY <2>6 DEF Enter
  <2>7. CASE EnterFails(k)
    BY <2>7 DEF EnterFails
  <2>8. CASE HandlerSettles(k)
    BY <2>8 DEF HandlerSettles
  <2>9. CASE DeadlinePasses(k)
    BY <2>9 DEF DeadlinePasses
  <2>10. CASE Detach(k)
    BY <2>10 DEF Detach, Quarantine
  <2>11. CASE Leave(k)
    BY <2>11 DEF Leave
  <2>12. CASE Unwind(k)
    BY <2>12 DEF Unwind
  <2>13. CASE CleanupBegins(k)
    BY <2>13 DEF CleanupBegins
  <2>14. CASE CleanupEnds(k)
    BY <2>14 DEF CleanupEnds
  <2> QED
    BY <1>4, <2>1, <2>2, <2>3, <2>4, <2>5, <2>6, <2>7, <2>8,
       <2>9, <2>10, <2>11, <2>12, <2>13, <2>14 DEF Step
<1>5. ASSUME NEW k \in Keys, Close PROVE PoolMove(k)
  BY <1>5 DEF Close, permits
<1>6. ASSUME NEW k \in Keys, Gathered PROVE PoolMove(k)
  BY <1>6 DEF Gathered, permits
<1>7. ASSUME NEW k \in Keys, CloseCancelled PROVE PoolMove(k)
  BY <1>7 DEF CloseCancelled, CancelledTask, permits
<1>8. ASSUME NEW k \in Keys, UNCHANGED vars PROVE PoolMove(k)
  BY <1>8 DEF vars, permits
<1> QED
  BY <1>1, <1>2, <1>3, <1>4, <1>5, <1>6, <1>7, <1>8 DEF Next

(* Every step is such a move of every limited handler.                      *)
LEMMA SlotMoves ==
  ASSUME Types, Shapes, Keys # {}, [Next]_vars, NEW h \in Limited
  PROVE  \E k \in Keys : SlotMove(h, k)
<1> USE DEF Types, SlotMove, SlotHolders, Inside, Grace, Done
<1>1. ASSUME NEW k \in Keys, Accept(k) PROVE SlotMove(h, k)
  BY <1>1 DEF Accept, permits, closing, Shapes, Shape
<1>2. ASSUME NEW k \in Keys, Coalesce(k) PROVE SlotMove(h, k)
  BY <1>2 DEF Coalesce, permits
<1>3. ASSUME NEW k \in Keys, HandlerEnds(k) PROVE SlotMove(h, k)
  BY <1>3 DEF HandlerEnds, permits
<1>4. ASSUME NEW k \in Keys, Step(k) PROVE SlotMove(h, k)
  <2>0. Shape(k)
    BY DEF Shapes
  <2> USE <2>0 DEF Shape, permits, ReturnPermits, ReturnSlot, Settle,
                   FirstWait, IsLimited
  <2>1. CASE Begin(k)
    BY <2>1 DEF Begin
  <2>2. CASE AcquireSlot(k)
    BY <2>2 DEF AcquireSlot, TakeSlot
  <2>3. CASE SlotTimesOut(k)
    BY <2>3 DEF SlotTimesOut
  <2>4. CASE AcquirePool(k)
    BY <2>4 DEF AcquirePool
  <2>5. CASE PoolTimesOut(k)
    BY <2>5 DEF PoolTimesOut
  <2>6. CASE Enter(k)
    BY <2>6 DEF Enter
  <2>7. CASE EnterFails(k)
    BY <2>7 DEF EnterFails
  <2>8. CASE HandlerSettles(k)
    BY <2>8 DEF HandlerSettles
  <2>9. CASE DeadlinePasses(k)
    BY <2>9 DEF DeadlinePasses
  <2>10. CASE Detach(k)
    BY <2>10 DEF Detach, Quarantine
  <2>11. CASE Leave(k)
    BY <2>11 DEF Leave
  <2>12. CASE Unwind(k)
    BY <2>12 DEF Unwind
  <2>13. CASE CleanupBegins(k)
    BY <2>13 DEF CleanupBegins
  <2>14. CASE CleanupEnds(k)
    BY <2>14 DEF CleanupEnds
  <2> QED
    BY <1>4, <2>1, <2>2, <2>3, <2>4, <2>5, <2>6, <2>7, <2>8,
       <2>9, <2>10, <2>11, <2>12, <2>13, <2>14 DEF Step
<1>5. ASSUME NEW k \in Keys, Close PROVE SlotMove(h, k)
  BY <1>5 DEF Close, permits
<1>6. ASSUME NEW k \in Keys, Gathered PROVE SlotMove(h, k)
  BY <1>6 DEF Gathered, permits
<1>7. ASSUME NEW k \in Keys, CloseCancelled PROVE SlotMove(h, k)
  BY <1>7 DEF CloseCancelled, CancelledTask, permits
<1>8. ASSUME NEW k \in Keys, UNCHANGED vars PROVE SlotMove(h, k)
  BY <1>8 DEF vars, permits
<1> QED
  BY <1>1, <1>2, <1>3, <1>4, <1>5, <1>6, <1>7, <1>8 DEF Next
-----------------------------------------------------------------------------
(* At the start no permit is out.                                           *)
LEMMA InitIInv == Init => IInv
<1> SUFFICES ASSUME Init PROVE IInv
  OBVIOUS
<1> USE JobAssumption DEF Init
<1>1. Types
  BY DEF Types, Inside, Grace, Done
<1>2. Shapes
  BY DEF Shapes, Shape, Running, Grace
<1>3. Holders = {} /\ \A h \in Limited : SlotHolders(h) = {}
  BY DEF Holders, SlotHolders, Inside, Grace
<1>4. Cardinality({}) = 0
  BY FS_EmptySet
<1>5. PoolBalance
  BY <1>3, <1>4 DEF PoolBalance
<1>6. SlotBalance
  <2> SUFFICES ASSUME NEW h \in Limited
               PROVE  slots[h] + Cardinality(SlotHolders(h)) <= SlotLimit[h]
    BY DEF SlotBalance
  <2>1. slots[h] + 0 <= SlotLimit[h]
    OBVIOUS
  <2> QED
    BY <2>1, <1>3, <1>4
<1> QED
  BY <1>1, <1>2, <1>5, <1>6 DEF IInv

(* Without keys nothing moves but close.                                    *)
LEMMA NoKeys == Types /\ Keys = {} /\ [Next]_vars => UNCHANGED permits
<1> SUFFICES ASSUME Types, Keys = {}, [Next]_vars PROVE UNCHANGED permits
  OBVIOUS
<1> QED
  BY DEF Next, Close, Gathered, CloseCancelled, vars

(* Every step keeps the invariant.                                          *)
LEMMA NextIInv == IInv /\ [Next]_vars => IInv'
<1> SUFFICES ASSUME IInv, [Next]_vars PROVE IInv'
  OBVIOUS
<1>1. Types /\ Shapes /\ PoolBalance /\ SlotBalance
  BY DEF IInv
<1>2. Types' /\ Shapes'
  BY <1>1, TypesKept, ShapesKept
<1>3. CASE Keys # {}
  <2>1. PoolBalance'
    BY <1>1, <1>3, PoolMoves, PoolMoveBalances
  <2>2. ASSUME NEW h \in Limited
        PROVE  slots'[h] + Cardinality(SlotHolders(h)') <= SlotLimit[h]
    BY <1>1, <1>3, SlotMoves, SlotMoveBalances
  <2>3. SlotBalance'
    BY <2>2 DEF SlotBalance
  <2> QED
    BY <1>2, <2>1, <2>3 DEF IInv
<1>4. CASE Keys = {}
  <2>1. UNCHANGED permits
    BY <1>1, <1>4, NoKeys
  <2>2. Holders' = Holders /\ \A h \in Limited : SlotHolders(h)' = SlotHolders(h)
    BY <1>4 DEF Holders, SlotHolders
  <2>3. PoolBalance'
    BY <1>1, <2>1, <2>2 DEF PoolBalance, permits
  <2>4. SlotBalance'
    BY <1>1, <2>1, <2>2 DEF SlotBalance, permits
  <2> QED
    BY <1>2, <2>3, <2>4 DEF IInv
<1> QED
  BY <1>3, <1>4

(* The invariant holds in every reachable state.                            *)
THEOREM Invariance == Spec => []IInv
<1> QED
  BY InitIInv, NextIInv, PTL DEF Spec

-----------------------------------------------------------------------------
(* The variables keep their types, and no permit is handed out or returned  *)
(* twice: neither semaphore ever exceeds its limit.                         *)
THEOREM TypeCorrect == Spec => []TypeOK
<1>1. IInv => TypeOK
  <2> SUFFICES ASSUME IInv PROVE TypeOK
    OBVIOUS
  <2>1. Types /\ PoolBalance /\ SlotBalance
    BY DEF IInv
  <2>2. Cardinality(Holders) \in Nat
    BY Counting DEF Holders
  <2>3. pool \in 0..MaxConcurrency
    BY <2>1, <2>2, JobAssumption DEF Types, PoolBalance
  <2>4. ASSUME NEW h \in Limited PROVE slots[h] \in 0..SlotLimit[h]
    <3>1. Cardinality(SlotHolders(h)) \in Nat
      BY Counting DEF SlotHolders
    <3>2. slots[h] + Cardinality(SlotHolders(h)) <= SlotLimit[h]
      BY <2>1 DEF SlotBalance
    <3>3. slots[h] \in Nat /\ SlotLimit[h] \in Nat
      BY <2>1, JobAssumption DEF Types
    <3> QED
      BY <3>1, <3>2, <3>3
  <2> QED
    BY <2>1, <2>3, <2>4 DEF Types, TypeOK
<1> QED
  BY <1>1, Invariance, PTL

(* A key never has two live handlers.                                       *)
THEOREM OneRunPerKeyAlways == Spec => []OneRunPerKey
<1>1. IInv => OneRunPerKey
  BY DEF IInv, Shapes, Shape, OneRunPerKey
<1> QED
  BY <1>1, Invariance, PTL

(* A live handler holds its permits, unless a cancellation interrupted its  *)
(* grace period; so the limits bound the handlers that run.                 *)
THEOREM CapacityAlways == Spec => []CapacityHolds
<1>1. IInv => CapacityHolds
  <2> SUFFICES ASSUME IInv PROVE CapacityHolds
    OBVIOUS
  <2>1. Types /\ Shapes /\ PoolBalance /\ SlotBalance
    BY DEF IInv
  <2>2. ASSUME NEW k \in Live \ Released
        PROVE  task[k] \in Running \/ k \in detached
    BY <2>1 DEF Live, Released, Types, Shapes, Shape
  <2>3. Live \ Released \subseteq Holders
    BY <2>2 DEF Live, Holders, Running, Inside
  <2>4. Cardinality(Live \ Released) <= MaxConcurrency
    <3>1. Holders \in SUBSET Keys /\ Live \ Released \in SUBSET Keys
      BY DEF Holders, Live
    <3>2. /\ Cardinality(Holders) \in Nat
          /\ Cardinality(Live \ Released) \in Nat
          /\ Cardinality(Live \ Released) <= Cardinality(Holders)
      BY <2>3, <3>1, Counting
    <3>3. pool \in Nat /\ pool + Cardinality(Holders) = MaxConcurrency
      BY <2>1 DEF PoolBalance, Types
    <3> QED
      BY <3>2, <3>3
  <2>5. ASSUME NEW h \in Limited
        PROVE  Cardinality({k \in Live \ Released : HandlerOf[k] = h})
                   <= SlotLimit[h]
    <3> DEFINE L == {k \in Live \ Released : HandlerOf[k] = h}
    <3>1. SlotHolders(h) \in SUBSET Keys /\ L \in SUBSET Keys
      BY DEF SlotHolders, Live
    <3>2. L \subseteq SlotHolders(h)
      BY <2>2 DEF Live, SlotHolders, Running, Inside
    <3> HIDE DEF L
    <3>3. /\ Cardinality(SlotHolders(h)) \in Nat
          /\ Cardinality(L) \in Nat
          /\ Cardinality(L) <= Cardinality(SlotHolders(h))
      BY <3>1, <3>2, Counting
    <3>4. slots[h] + Cardinality(SlotHolders(h)) <= SlotLimit[h]
      BY <2>1 DEF SlotBalance
    <3>5. slots[h] \in Nat /\ SlotLimit[h] \in Nat
      BY <2>1, JobAssumption DEF Types
    <3>6. Cardinality(L) <= SlotLimit[h]
      BY <3>3, <3>4, <3>5
    <3> QED
      BY <3>6 DEF L
  <2> QED
    BY <2>4, <2>5 DEF CapacityHolds
<1> QED
  BY <1>1, Invariance, PTL

(* A live handler has its container and a task, its own or a cleanup, that  *)
(* will close it, unless a cancellation of close took that task away.       *)
THEOREM HandlersAlwaysOwned == Spec => []HandlersOwned
<1>1. IInv => HandlersOwned
  BY DEF IInv, Types, Shapes, Shape, HandlersOwned, Live, Running
<1> QED
  BY <1>1, Invariance, PTL

(* close ends only when nothing is left of the accepted executions.         *)
THEOREM CloseLeavesNothing == Spec => []ClosedIsQuiet
<1>1. IInv => ClosedIsQuiet
  <2> SUFFICES ASSUME IInv, closer = "done"
               PROVE  /\ Owned = {} /\ open = {} /\ pool = MaxConcurrency
                      /\ Live \subseteq interrupted
    BY DEF ClosedIsQuiet
  <2>1. Types /\ Shapes /\ PoolBalance
    BY DEF IInv
  <2>2. \A k \in Keys : task[k] = "none" /\ k \notin detached
                         /\ cleanup[k] = "none" /\ k \notin open
    BY <2>1 DEF Shapes, Shape, Running, Grace
  <2>3. Holders = {} /\ Owned = {} /\ open = {}
    BY <2>1, <2>2 DEF Holders, Owned, Inside, Grace, Types
  <2>4. pool = MaxConcurrency
    <3>1. pool + 0 = MaxConcurrency /\ pool \in Nat
      BY <2>1, <2>3, FS_EmptySet DEF PoolBalance, Types
    <3> QED
      BY <3>1
  <2>5. Live \subseteq interrupted
    BY <2>1, <2>2 DEF Live, Types, Shapes, Shape, Running, Grace
  <2> QED
    BY <2>3, <2>4, <2>5
<1> QED
  BY <1>1, Invariance, PTL
=============================================================================
