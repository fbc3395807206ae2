-------------------------- MODULE TaskCycles_proofs --------------------------
(* What every implementation of TaskCycles has, whatever happens in it      *)
(* besides.                                                                 *)
EXTENDS TaskCycles, TLAPS

USE DEF Is, Nothing, In, Of, Exists, Dropped

(* As ScheduledTasks has it: instants are counted, and "no instant" is none *)
(* of them.                                                                 *)
Counted == Instants \subseteq Nat /\ None \notin Nat

CycleStates == [phase : {"none", "admitted", "started"},
                task : Tasks \union {None}, for : Nat]

TypeOK ==
    /\ clock \in Nat
    /\ kind \in [Tasks -> {"new", "once", "cron", "gone"}]
    /\ owed \in [Tasks -> Nat \union {None}]
    /\ cycle \in [Cycles -> CycleStates]

NotEarly == \A c \in Cycles : cycle[c].phase # "none" => cycle[c].for <= clock

OwesMore == \A t \in Tasks : kind[t] = "cron" => owed[t] # None

(* The order of the occurrences is not inductive by itself: nothing may be  *)
(* admitted early, and a recurring task must owe something.                 *)
IInv == TypeOK /\ NotEarly /\ OwesMore /\ OccurrencesAdvance

(* Cycles that go, and tasks that keep what they owe or put it off, keep    *)
(* the order.                                                               *)
LEMMA DroppedKeepsOrder ==
  ASSUME Counted, IInv, NEW cs, cycle' = Dropped(cs), clock' = clock,
         kind' \in [Tasks -> {"new", "once", "cron", "gone"}],
         owed' \in [Tasks -> Nat \union {None}],
         \A t \in Tasks : kind'[t] = "cron" =>
             \/ kind[t] = "cron" /\ owed'[t] = owed[t]
             \/ owed'[t] = clock + 1
  PROVE  IInv'
<1> USE DEF IInv
<1>1. TypeOK'
  BY DEF TypeOK, CycleStates
<1>2. \A c \in Cycles : cycle'[c].phase # "none" => cycle'[c] = cycle[c]
  BY DEF TypeOK
<1>3. NotEarly'
  BY <1>2 DEF NotEarly
<1>4. OwesMore'
  BY DEF TypeOK, OwesMore, Counted
<1>5. ASSUME NEW t \in Tasks, NEW c \in Cycles,
             kind'[t] = "cron", cycle'[c].phase # "none", cycle'[c].task = t
      PROVE  cycle'[c].for < owed'[t]
  <2>1. cycle[c].for \in Nat /\ cycle[c].for <= clock /\ clock \in Nat
    BY <1>2, <1>5 DEF TypeOK, CycleStates, NotEarly
  <2> QED
    BY <1>2, <1>5, <2>1 DEF OccurrencesAdvance
<1> QED
  BY <1>1, <1>3, <1>4, <1>5 DEF OccurrencesAdvance

LEMMA StepKeepsOrder ==
  ASSUME Counted, IInv, [Next]_vars
  PROVE  IInv'
<1>1. ASSUME NEW t \in Tasks, NEW k \in {"once", "cron"}, NEW at \in Instants,
             Define(t, k, at)
      PROVE  IInv'
  <2>1. /\ clock' = clock /\ cycle' = Dropped(Of(t) \cap In("admitted"))
        /\ kind' \in [Tasks -> {"new", "once", "cron", "gone"}]
        /\ owed' \in [Tasks -> Nat \union {None}]
    BY <1>1 DEF Define, IInv, TypeOK, Counted
  <2>2. \A u \in Tasks : kind'[u] = "cron" =>
            \/ kind[u] = "cron" /\ owed'[u] = owed[u]
            \/ owed'[u] = clock + 1
    BY <1>1 DEF Define, IInv, TypeOK
  <2> QED
    BY <2>1, <2>2, DroppedKeepsOrder
<1>2. ASSUME NEW t \in Tasks, Remove(t)
      PROVE  IInv'
  <2>1. /\ clock' = clock /\ owed' = owed
        /\ kind' \in [Tasks -> {"new", "once", "cron", "gone"}]
        /\ \A u \in Tasks : kind'[u] = "cron" => kind[u] = "cron"
    BY <1>2 DEF Remove, IInv, TypeOK
  <2>2. cycle' = Dropped({}) \/ cycle' = Dropped(Of(t) \cap In("admitted"))
    <3>1. cycle = Dropped({})
      BY DEF IInv, TypeOK
    <3> QED
      BY <1>2, <3>1 DEF Remove
  <2> HIDE DEF Of, In, Dropped
  <2> QED
    BY <2>1, <2>2, DroppedKeepsOrder DEF IInv, TypeOK
<1>3. CASE RemoveAll
  BY <1>3, DroppedKeepsOrder DEF RemoveAll, IInv, TypeOK
<1>4. ASSUME NEW t \in Tasks, NEW c \in Cycles, Admit(t, c)
      PROVE  IInv'
  <2>1. owed[t] \in Nat /\ owed[t] <= clock /\ clock \in Nat
    BY <1>4 DEF Admit, IInv, TypeOK
  <2>2. \A n \in {c} : Is("admitted", t, owed[t]) \in CycleStates
    BY <2>1 DEF CycleStates
  <2>3. TypeOK'
    BY <1>4, <2>1, <2>2 DEF Admit, IInv, TypeOK
  <2>4. NotEarly'
    BY <1>4, <2>1 DEF Admit, IInv, TypeOK, NotEarly
  <2>5. OwesMore'
    BY <1>4, <2>1 DEF Admit, IInv, TypeOK, OwesMore, Counted
  <2>6. ASSUME NEW u \in Tasks, NEW b \in Cycles,
               kind'[u] = "cron", cycle'[b].phase # "none", cycle'[b].task = u
        PROVE  cycle'[b].for < owed'[u]
    <3>1. CASE b = c
      BY <1>4, <2>1, <2>6, <3>1 DEF Admit, IInv, TypeOK
    <3>2. CASE b # c
      BY <1>4, <2>6, <3>2 DEF Admit, IInv, TypeOK, OccurrencesAdvance
    <3> QED
      BY <3>1, <3>2
  <2> QED
    BY <2>3, <2>4, <2>5, <2>6 DEF IInv, OccurrencesAdvance
<1>5. ASSUME NEW c \in Cycles, Start(c)
      PROVE  IInv'
  BY <1>5
     DEF Start, IInv, TypeOK, CycleStates, NotEarly, OwesMore, OccurrencesAdvance
<1>6. ASSUME NEW c \in Cycles, Drop(c)
      PROVE  IInv'
  BY <1>6, DroppedKeepsOrder DEF Drop, IInv, TypeOK
<1>7. ASSUME NEW c \in Cycles, End(c)
      PROVE  IInv'
  BY <1>7, DroppedKeepsOrder DEF End, IInv, TypeOK
<1>8. CASE Tick
  BY <1>8
     DEF Tick, IInv, TypeOK, CycleStates, NotEarly, OwesMore, OccurrencesAdvance
<1>9. CASE UNCHANGED vars
  BY <1>9 DEF vars, IInv, TypeOK, NotEarly, OwesMore, OccurrencesAdvance
<1> QED
  BY <1>1, <1>2, <1>3, <1>4, <1>5, <1>6, <1>7, <1>8, <1>9 DEF Next

(* A recurring task works through its schedule: the occurrence under way is *)
(* always earlier than the one it owes next.                                *)
THEOREM OccurrencesAlwaysAdvance ==
  ASSUME Counted
  PROVE  Spec => []OccurrencesAdvance
<1>1. Init => IInv
  BY DEF Init, IInv, TypeOK, CycleStates, NotEarly, OwesMore, OccurrencesAdvance
<1>2. IInv /\ [Next]_vars => IInv'
  BY StepKeepsOrder
<1>3. IInv => OccurrencesAdvance
  BY DEF IInv
<1> QED
  BY <1>1, <1>2, <1>3, PTL DEF Spec
=============================================================================
