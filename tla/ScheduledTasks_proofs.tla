------------------------ MODULE ScheduledTasks_proofs ------------------------
(* Proofs about ScheduledTasks.  The fence of a task and its live cycle     *)
(* name each other, a lease is held on a due task only, and the trigger of  *)
(* a cycle stays in the mailbox as long as the cycle is admitted.           *)
EXTENDS ScheduledTasks, TLAPS

\* A task that does not exist yet has no cycle.
NewTasks ==
    \A t \in Tasks, c \in Cycles :
        task[t].kind = "new" /\ cycle[c].task = t => cycle[c].phase = "none"

\* Leased tasks are due, and have no cycle unless they are recurring.
Leases ==
    \A t \in Tasks : task[t].lease # None =>
        /\ task[t].next <= clock
        /\ task[t].active = None \/ task[t].kind = "cron"

\* Occurrences are coalesced with a cycle only.
Pendings == \A t \in Tasks : task[t].active = None => task[t].pending = None

\* A cycle that has started has no trigger any more.
Triggered ==
    \A c \in Cycles : Item("trigger", c) \in mailbox => cycle[c].phase = "admitted"

Fences == OneLiveCycle /\ NewTasks
Occurrences == OwedIsKept /\ Leases /\ Pendings
Work == WorkHasFuture /\ Triggered

IInv == TypeOK /\ Fences /\ Occurrences /\ Work

-----------------------------------------------------------------------------
(* What the proofs use of the assumptions on the constants.                 *)
LEMMA Numbers ==
  /\ MaxTime \in Nat /\ MaxEdits \in Nat /\ MaxTroubles \in Nat
  /\ None \notin Tasks /\ None \notin Dispatchers /\ None \notin Cycles
  /\ None \notin Runs /\ None \notin Nat
BY TasksAssumption

(* The rows that the operations write.                                      *)
LEMMA NewRows ==
  ASSUME clock \in 0..MaxTime
  PROVE  /\ \A k \in {"new", "gone"} : NoTask(k) \in Rows
         /\ \A p \in BOOLEAN : \A s \in Schedules(p) :
                /\ s.kind \in {"once", "cron"} /\ s.at \in Times
                /\ \A a \in Cycles \cup {None} : Scheduled(s, a) \in Rows
         /\ FirstFuture \in Times
         /\ NoCycle \in CycleStates /\ NoRun \in RunStates
<1>1. \A p \in BOOLEAN : \A s \in Schedules(p) :
          s.kind \in {"once", "cron"} /\ s.at \in Times
  BY Numbers DEF Schedules, FirstFuture, Times
<1>2. \A k \in {"new", "gone", "once", "cron"} : NoTask(k) \in Rows
  BY Numbers DEF NoTask, Rows, Times
<1>3. \A p \in BOOLEAN : \A s \in Schedules(p) :
          \A a \in Cycles \cup {None} : Scheduled(s, a) \in Rows
  BY <1>1, Numbers DEF Scheduled, NoTask, Rows
<1> QED
  BY <1>1, <1>2, <1>3, Numbers
     DEF FirstFuture, Times, NoCycle, NoRun, CycleStates, RunStates

(* Removing admitted cycles keeps the types.                                *)
LEMMA RemovedTypes ==
  ASSUME TypeOK, NEW cs, RemoveAdmitted(cs)
  PROVE  cycle' \in [Cycles -> CycleStates] /\ mailbox' \subseteq Items
BY NewRows DEF TypeOK, RemoveAdmitted

(* Users keep the types.                                                    *)
LEMMA EditTypes ==
  ASSUME TypeOK, NEW t \in Tasks, Create(t) \/ Replace(t) \/ Delete(t)
  PROVE  TypeOK'
<1>1. CASE Create(t)
  <2>1. PICK s \in Schedules(FALSE) :
            /\ task' = [task EXCEPT ![t] = Scheduled(s, None)]
            /\ owed' = [owed EXCEPT ![t] = s.at]
    BY <1>1 DEF Create
  <2>2. Scheduled(s, None) \in Rows /\ s.at \in Times
    BY NewRows DEF TypeOK
  <2>3. task' \in [Tasks -> Rows] /\ owed' \in [Tasks -> Times \cup {None}]
    BY <2>1, <2>2 DEF TypeOK
  <2> QED
    BY <1>1, <2>3 DEF TypeOK, Create, bounds, Active
<1>2. CASE Replace(t)
  <2>1. cycle' \in [Cycles -> CycleStates] /\ mailbox' \subseteq Items
    BY <1>2, RemovedTypes DEF Replace
  <2> DEFINE a == IF HasStarted(t) THEN task[t].active ELSE None
  <2>2. a \in Cycles \cup {None} /\ HasStarted(t) \in BOOLEAN
    BY DEF TypeOK, Rows, HasStarted
  <2>3. PICK s \in Schedules(HasStarted(t)) :
            /\ task' = [task EXCEPT ![t] = Scheduled(s, a)]
            /\ owed' = [owed EXCEPT ![t] = s.at]
    BY <1>2 DEF Replace, TypeOK
  <2> HIDE DEF a
  <2>4. Scheduled(s, a) \in Rows /\ s.at \in Times
    BY <2>2, NewRows DEF TypeOK
  <2>5. task' \in [Tasks -> Rows] /\ owed' \in [Tasks -> Times \cup {None}]
    BY <2>3, <2>4 DEF TypeOK
  <2> QED
    BY <1>2, <2>1, <2>5, Numbers DEF TypeOK, Replace, Edit, Active
<1>3. CASE Delete(t)
  <2>1. cycle' \in [Cycles -> CycleStates] /\ mailbox' \subseteq Items
    BY <1>3, RemovedTypes DEF Delete
  <2>2. NoTask("gone") \in Rows
    BY NewRows DEF TypeOK
  <2>3. task' \in [Tasks -> Rows]
    BY <1>3, <2>2 DEF TypeOK, Delete
  <2> QED
    BY <1>3, <2>1, <2>3 DEF TypeOK, Delete, bounds, Active
<1> QED
  BY <1>1, <1>2, <1>3

(* A claimed task keeps its type when its claim is completed.               *)
LEMMA CompletedTypes ==
  ASSUME TypeOK, NEW t \in Tasks, NEW a \in Cycles \cup {None},
         NEW p \in Times \cup {None}
  PROVE  Completed(t, a, p) \in Rows
<1>1. FirstFuture \in Times /\ task[t] \in Rows
  BY NewRows DEF TypeOK
<1> QED
  BY <1>1, Numbers DEF Completed, Rows

(* Dispatcher passes keep the types.                                        *)
LEMMA DispatchTypes ==
  ASSUME TypeOK, NEW d \in Dispatchers,
         Dispatch(d) \/ DeleteUnauthorized(d) \/ StopDispatcher(d)
  PROVE  TypeOK'
<1>1. CASE Claim(d)
  <2>1. PICK t \in Tasks :
            /\ task' = [task EXCEPT ![t].lease = d, ![t].live = TRUE]
            /\ claim' = [claim EXCEPT ![d] = t]
    BY <1>1 DEF Claim
  <2>2. [task[t] EXCEPT !.lease = d, !.live = TRUE] \in Rows
    BY DEF TypeOK, Rows
  <2>3. task' = [task EXCEPT ![t] = [task[t] EXCEPT !.lease = d, !.live = TRUE]]
    BY <2>1 DEF TypeOK, Rows
  <2>4. task' \in [Tasks -> Rows]
    BY <2>2, <2>3 DEF TypeOK
  <2> QED
    BY <1>1, <2>1, <2>4 DEF TypeOK, Claim, bounds, Active
<1>2. CASE Admit(d)
  <2>1. claim[d] \in Tasks /\ FirstFuture \in Times
        /\ task[claim[d]].next \in Times
    BY <1>2, NewRows DEF Admit, Fenced, TypeOK, Rows
  <2>2. PICK c \in Cycles :
            /\ cycle' = [cycle EXCEPT ![c] =
                   [phase |-> "admitted", task |-> claim[d],
                    for |-> task[claim[d]].next, host |-> None]]
            /\ mailbox' = mailbox \cup {Item("trigger", c)}
            /\ task' = [task EXCEPT ![claim[d]] = Completed(claim[d], c, None)]
            /\ lost' = lost \ {c}
    BY <1>2 DEF Admit
  <2>3. cycle' \in [Cycles -> CycleStates]
    BY <2>1, <2>2 DEF TypeOK, CycleStates
  <2>4. mailbox' \subseteq Items
    BY <2>2 DEF TypeOK, Item, Items
  <2>5. task' \in [Tasks -> Rows]
    BY <2>1, <2>2, CompletedTypes DEF TypeOK
  <2>6. owed' \in [Tasks -> Times \cup {None}]
    BY <1>2, <2>1 DEF Admit, TypeOK
  <2> QED
    BY <1>2, <2>2, <2>3, <2>4, <2>5, <2>6 DEF TypeOK, Admit, bounds, Active
<1>3. CASE Coalesce(d)
  <2>1. claim[d] \in Tasks
    BY <1>3 DEF Coalesce, Fenced, TypeOK
  <2> DEFINE t == claim[d]
  <2>2. task[t].active \in Cycles \cup {None} /\ Pending(t) \in Times \cup {None}
    BY <2>1 DEF TypeOK, Rows, Pending
  <2>3. task' = [task EXCEPT ![t] = Completed(t, task[t].active, Pending(t))]
    BY <1>3 DEF Coalesce
  <2> HIDE DEF t
  <2>4. task' \in [Tasks -> Rows]
    BY <2>2, <2>3, CompletedTypes DEF TypeOK
  <2> QED
    BY <1>3, <2>4 DEF TypeOK, Coalesce, bounds, Active
<1>4. CASE LoseClaim(d) \/ StopDispatcher(d)
  BY <1>4, Numbers
     DEF TypeOK, LoseClaim, StopDispatcher, Trouble, bounds, Active
<1>5. CASE DeleteUnauthorized(d)
  <2>1. NoTask("gone") \in Rows
    BY NewRows DEF TypeOK
  <2>2. task' \in [Tasks -> Rows]
    BY <1>5, <2>1 DEF TypeOK, DeleteUnauthorized
  <2> QED
    BY <1>5, <2>2 DEF TypeOK, DeleteUnauthorized, bounds, Active
<1> QED
  BY <1>1, <1>2, <1>3, <1>4, <1>5 DEF Dispatch

(* The mailbox keeps its type, and the cycles that its items start.         *)
LEMMA PromoteTypes ==
  ASSUME TypeOK, NEW i \in Items, DeleteItem(i) \/ Promote(i)
  PROVE  TypeOK'
<1>0. i.cycle \in Cycles
  BY DEF Items
<1>1. CASE DeleteItem(i)
  BY <1>0, <1>1, Numbers DEF TypeOK, DeleteItem, Edit, Active
<1>2. ASSUME NEW r \in Runs, Bind(i, r)
      PROVE  /\ cycle' \in [Cycles -> CycleStates] /\ run' \in [Runs -> RunStates]
             /\ Active' = Active
  <2>1. [cycle[i.cycle] EXCEPT !.phase = "started", !.host = r] \in CycleStates
    <3>1. \A c \in Cycles :
              [cycle[c] EXCEPT !.phase = "started", !.host = r] \in CycleStates
      BY DEF TypeOK, CycleStates
    <3> QED
      BY <1>0, <3>1
  <2>2. cycle' = [cycle EXCEPT ![i.cycle] =
                     [cycle[i.cycle] EXCEPT !.phase = "started", !.host = r]]
    BY <1>0, <1>2 DEF TypeOK, CycleStates, Bind
  <2>3. [run[r] EXCEPT !.cycle = i.cycle] \in RunStates
    BY <1>0 DEF TypeOK, RunStates
  <2>4. run' = [run EXCEPT ![r] = [run[r] EXCEPT !.cycle = i.cycle]]
    BY <1>2 DEF TypeOK, RunStates, Bind
  <2>5. Active' = Active
    BY <2>4 DEF TypeOK, RunStates, Active
  <2> QED
    BY <2>1, <2>2, <2>3, <2>4, <2>5 DEF TypeOK
<1>3. ASSUME NEW r \in Runs, PromoteTrigger(i, r)
      PROVE  TypeOK'
  <2>1. CASE Bind(i, r)
    BY <1>2, <1>3, <2>1 DEF TypeOK, PromoteTrigger, bounds
  <2>2. CASE ~Starts(i.cycle)
             /\ cycle' = [cycle EXCEPT ![i.cycle] =
                    IF i.cycle \in Admitted THEN NoCycle ELSE @]
             /\ UNCHANGED run
    <3>1. cycle' \in [Cycles -> CycleStates]
      BY <2>2, NewRows DEF TypeOK
    <3> QED
      BY <1>3, <2>2, <3>1 DEF TypeOK, PromoteTrigger, bounds, Active
  <2> QED
    BY <1>3, <2>1, <2>2 DEF PromoteTrigger
<1>4. ASSUME NEW r \in Runs, PromoteContinuation(i, r)
      PROVE  TypeOK'
  <2>1. CASE Bind(i, r)
    BY <1>2, <1>4, <2>1 DEF TypeOK, PromoteContinuation, bounds
  <2>2. CASE UNCHANGED <<cycle, run>>
    BY <1>4, <2>2 DEF TypeOK, PromoteContinuation, bounds, Active
  <2> QED
    BY <1>4, <2>1, <2>2 DEF PromoteContinuation
<1> QED
  BY <1>1, <1>3, <1>4 DEF Promote

(* Runs keep the types, and there is one active run at most.                *)
LEMMA RunTypes ==
  ASSUME TypeOK, NEW r \in Runs,
         StartRun(r) \/ Submit(r) \/ Complete(r) \/ Fail(r)
  PROVE  TypeOK'
<1>1. CASE StartRun(r)
  <2>1. [NoRun EXCEPT !.status = "active"] \in RunStates
    BY DEF NoRun, RunStates
  <2>2. run' \in [Runs -> RunStates]
    BY <1>1, <2>1 DEF TypeOK, StartRun
  <2>3. Active' = {r}
    BY <1>1 DEF TypeOK, StartRun, Active, NoRun
  <2> QED
    BY <1>1, <2>2, <2>3 DEF TypeOK, StartRun, bounds
<1>2. CASE Submit(r)
  <2>1. NoCycle \in CycleStates /\ NoTask("gone") \in Rows
    BY NewRows DEF TypeOK
  <2>2. cycle' \in [Cycles -> CycleStates]
    BY <1>2, <2>1 DEF TypeOK, Submit
  <2>3. \A t \in Tasks : Released(t) \in Rows
    <3> SUFFICES ASSUME NEW t \in Tasks, task[t].kind # "once"
                 PROVE  Released(t) \in Rows
      BY <2>1 DEF Released
    <3> DEFINE n == IF task[t].pending = None THEN task[t].next
                                              ELSE task[t].pending
    <3>1. task[t] \in Rows
      BY DEF TypeOK
    <3>2. n \in Times
      BY <3>1 DEF Rows
    <3>3. Released(t) = [task[t] EXCEPT !.next = n, !.active = None,
                                        !.pending = None, !.lease = None,
                                        !.live = FALSE]
      BY DEF Released
    <3> HIDE DEF n
    <3> QED
      BY <3>1, <3>2, <3>3 DEF Rows
  <2>4. task' \in [Tasks -> Rows]
    BY <1>2, <2>3 DEF TypeOK, Submit
  <2>5. [run[r] EXCEPT !.result = TRUE] \in RunStates
    <3>1. run[r] \in RunStates
      BY DEF TypeOK
    <3> QED
      BY <3>1 DEF RunStates
  <2>6. run' \in [Runs -> RunStates] /\ Active' = Active
    <3>1. run' = [run EXCEPT ![r] = [run[r] EXCEPT !.result = TRUE]]
      BY <1>2 DEF Submit
    <3>2. run' \in [Runs -> RunStates]
      BY <2>5, <3>1 DEF TypeOK
    <3>3. \A q \in Runs : run'[q].status = run[q].status
      BY <3>1 DEF TypeOK, RunStates
    <3> QED
      BY <3>2, <3>3 DEF Active
  <2> QED
    BY <1>2, <2>2, <2>4, <2>6 DEF TypeOK, Submit, bounds
<1>3. CASE Complete(r) \/ Fail(r)
  <2>1. PICK e \in {"completed", "failed"} :
            run' = [run EXCEPT ![r].status = e]
    BY <1>3 DEF Complete, Fail
  <2>2. [run[r] EXCEPT !.status = e] \in RunStates
    <3>1. run[r] \in RunStates
      BY DEF TypeOK
    <3> QED
      BY <3>1 DEF RunStates
  <2>3. run' \in [Runs -> RunStates] /\ Active' \subseteq Active
    BY <2>1, <2>2 DEF TypeOK, Active, RunStates
  <2>4. lost' \subseteq Cycles /\ troubles' \in 0..MaxTroubles
    BY <1>3, Numbers DEF TypeOK, Complete, Fail, Trouble, bounds, Started
  <2> QED
    BY <1>3, <2>3, <2>4 DEF TypeOK, Complete, Fail, bounds
<1> QED
  BY <1>1, <1>2, <1>3

(* Leases, the boundary, the archival and time keep the types.              *)
LEMMA OtherTypes ==
  ASSUME TypeOK,
         \/ \E t \in Tasks : ExpireLease(t)
         \/ CloseBoundary \/ Archive \/ Tick
  PROVE  TypeOK'
<1>1. ASSUME NEW t \in Tasks, ExpireLease(t) PROVE TypeOK'
  <2>1. [task[t] EXCEPT !.live = FALSE] \in Rows
    BY DEF TypeOK, Rows
  <2>2. task' \in [Tasks -> Rows]
    BY <1>1, <2>1 DEF TypeOK, ExpireLease, Rows
  <2>3. troubles' \in 0..MaxTroubles
    BY <1>1, Numbers DEF TypeOK, ExpireLease, Trouble
  <2> QED
    BY <1>1, <2>2, <2>3 DEF TypeOK, ExpireLease, Active
<1>2. CASE CloseBoundary
  <2>1. Continued \subseteq Cycles
    BY DEF Continued, Started
  <2> QED
    BY <1>2, <2>1 DEF TypeOK, CloseBoundary, bounds, Active, Item, Items
<1>3. CASE Archive
  <2>1. NoTask("gone") \in Rows /\ NoCycle \in CycleStates
    BY NewRows DEF TypeOK
  <2>2. task' \in [Tasks -> Rows] /\ cycle' \in [Cycles -> CycleStates]
    BY <1>3, <2>1 DEF TypeOK, Archive
  <2> QED
    BY <1>3, <2>2 DEF TypeOK, Archive, bounds, Active
<1>4. CASE Tick
  BY <1>4, Numbers DEF TypeOK, Tick, bounds, Active
<1> QED
  BY <1>1, <1>2, <1>3, <1>4

(* Every step keeps the types of the variables.                             *)
LEMMA TypesKept == TypeOK /\ [Next]_vars => TypeOK'
<1>1. TypeOK /\ Next => TypeOK'
  BY EditTypes, DispatchTypes, PromoteTypes, RunTypes, OtherTypes DEF Next
<1>2. TypeOK /\ UNCHANGED vars => TypeOK'
  BY DEF TypeOK, vars, bounds, Active
<1> QED
  BY <1>1, <1>2

-----------------------------------------------------------------------------
(* Fences.                                                                  *)

(* Cycles that keep their task and stay as alive as they were, and tasks    *)
(* that keep their fence or go, keep the fences.                            *)
LEMMA FenceFrame ==
  ASSUME TypeOK, Fences,
         \A c \in Cycles : cycle'[c].task = cycle[c].task
                           /\ (cycle'[c].phase = "none" <=> cycle[c].phase = "none"),
         \A t \in Tasks : \/ /\ task'[t].kind = task[t].kind
                             /\ task'[t].active = task[t].active
                          \/ task'[t].kind = "gone",
         \A c \in Cycles : cycle'[c].phase \in {"none", "admitted", "started"}
  PROVE  Fences'
BY DEF Fences, OneLiveCycle, NewTasks, Exists, Admitted, Started, TypeOK,
       CycleStates

(* A live cycle is admitted or started.                                     *)
LEMMA LiveCycles ==
  ASSUME cycle \in [Cycles -> CycleStates], NEW c \in Cycles
  PROVE  c \in Admitted \cup Started <=> cycle[c].phase # "none"
BY DEF CycleStates, Admitted, Started

(* The removal of the admitted cycle of a task concerns no other task.      *)
LEMMA FencesAfterRemoval ==
  ASSUME TypeOK, Fences, NEW t \in Tasks, Exists(t),
         RemoveAdmitted({task[t].active}), TypeOK',
         \A u \in Tasks : u # t => task'[u] = task[u],
         \/ task'[t].kind = "gone"
         \/ /\ task'[t].kind # "new"
            /\ task'[t].active =
                   IF HasStarted(t) THEN task[t].active ELSE None
  PROVE  Fences'
<1> DEFINE live(c) == cycle[c].phase # "none"
<1>1. \A c \in Cycles : /\ c \in Admitted \cup Started <=> live(c)
                        /\ (c \in Admitted \cup Started)' <=> (live(c))'
  BY LiveCycles DEF TypeOK, CycleStates, Admitted, Started
<1>2. \A c \in Cycles :
          (live(c))' <=> live(c) /\ ~(c = task[t].active /\ c \in Admitted)
  BY DEF RemoveAdmitted, TypeOK, CycleStates, NoCycle, Admitted
<1>3. \A c \in Cycles : (live(c))' => cycle'[c] = cycle[c]
  BY DEF RemoveAdmitted, TypeOK, CycleStates, NoCycle
<1>4. \A u \in Tasks, c \in Cycles :
          Exists(u) => (task[u].active = c <=> live(c) /\ cycle[c].task = u)
  BY <1>1 DEF Fences, OneLiveCycle
<1>5. \A u \in Tasks, c \in Cycles :
          Exists(u)' => (task'[u].active = c <=> (live(c))' /\ cycle'[c].task = u)
  <2> SUFFICES ASSUME NEW u \in Tasks, NEW c \in Cycles, Exists(u)'
               PROVE  task'[u].active = c <=> (live(c))' /\ cycle'[c].task = u
    OBVIOUS
  <2>1. CASE u # t
    BY <1>2, <1>3, <1>4, <2>1 DEF Exists
  <2>2. CASE u = t /\ HasStarted(t)
    <3>1. task'[t].active = task[t].active /\ task[t].active \notin Admitted
      BY <2>2 DEF HasStarted, Started, Admitted, Exists
    <3> QED
      BY <1>2, <1>3, <1>4, <2>2, <3>1
  <2>3. CASE u = t /\ ~HasStarted(t)
    <3>1. task'[t].active # c
      BY <2>3, Numbers DEF Exists
    <3>2. (live(c))' => cycle'[c].task # t
      BY <1>1, <1>2, <1>3, <1>4, <2>3 DEF HasStarted
    <3> QED
      BY <2>3, <3>1, <3>2
  <2> QED
    BY <2>1, <2>2, <2>3
<1>6. OneLiveCycle'
  BY <1>1, <1>5 DEF OneLiveCycle
<1>7. NewTasks'
  BY <1>2, <1>3 DEF NewTasks, Fences
<1> QED
  BY <1>6, <1>7 DEF Fences

(* Users keep the fences.                                                   *)
LEMMA EditFences ==
  ASSUME TypeOK, Fences, NEW t \in Tasks, TypeOK',
         Create(t) \/ Replace(t) \/ Delete(t)
  PROVE  Fences'
<1>1. CASE Create(t)
  <2>1. PICK s \in Schedules(FALSE) :
            task' = [task EXCEPT ![t] = Scheduled(s, None)]
    BY <1>1 DEF Create
  <2>2. s.kind \in {"once", "cron"}
    BY NewRows DEF TypeOK
  <2>3. Scheduled(s, None).active = None /\ Scheduled(s, None).kind = s.kind
    BY DEF Scheduled, NoTask
  <2>4. task'[t].active = None /\ task'[t].kind \in {"once", "cron"}
        /\ \A u \in Tasks : u # t => task'[u] = task[u]
    BY <2>1, <2>2, <2>3 DEF TypeOK
  <2>5. cycle' = cycle /\ task[t].kind = "new"
    BY <1>1 DEF Create
  <2> QED
    BY <2>4, <2>5, Numbers, LiveCycles
       DEF Fences, OneLiveCycle, NewTasks, Exists, Admitted, Started, TypeOK
<1>2. CASE Replace(t)
  <2> DEFINE a == IF HasStarted(t) THEN task[t].active ELSE None
  <2>1. PICK s \in Schedules(HasStarted(t)) :
            task' = [task EXCEPT ![t] = Scheduled(s, a)]
    BY <1>2 DEF Replace, TypeOK
  <2>2. s.kind \in {"once", "cron"}
    <3>1. HasStarted(t) \in BOOLEAN
      BY DEF HasStarted
    <3> QED
      BY <3>1, NewRows DEF TypeOK
  <2>3. task'[t].active = a /\ task'[t].kind # "new"
        /\ \A u \in Tasks : u # t => task'[u] = task[u]
    BY <2>1, <2>2 DEF TypeOK, Scheduled, NoTask
  <2>4. Exists(t) /\ RemoveAdmitted({task[t].active})
    BY <1>2 DEF Replace
  <2> QED
    BY <2>3, <2>4, FencesAfterRemoval
<1>3. CASE Delete(t)
  <2>1. Exists(t) /\ RemoveAdmitted({task[t].active}) /\ task'[t].kind = "gone"
        /\ \A u \in Tasks : u # t => task'[u] = task[u]
    BY <1>3 DEF Delete, TypeOK, NoTask
  <2> QED
    BY <2>1, FencesAfterRemoval
<1> QED
  BY <1>1, <1>2, <1>3

(* Dispatcher passes keep the fences.                                       *)
LEMMA DispatchFences ==
  ASSUME TypeOK, Fences, NEW d \in Dispatchers, TypeOK',
         Dispatch(d) \/ DeleteUnauthorized(d) \/ StopDispatcher(d)
  PROVE  Fences'
<1>0. \A c \in Cycles : cycle[c].phase \in {"none", "admitted", "started"}
  BY DEF TypeOK, CycleStates
<1>1. CASE Claim(d)
  <2>1. cycle' = cycle /\ \A t \in Tasks :
            task'[t].kind = task[t].kind /\ task'[t].active = task[t].active
    BY <1>1 DEF Claim, TypeOK, Rows
  <2> QED
    BY <1>0, <2>1, FenceFrame
<1>2. CASE Admit(d)
  <2> DEFINE t == claim[d]
  <2>1. t \in Tasks /\ Exists(t) /\ task[t].active = None
    BY <1>2 DEF Admit, Fenced, TypeOK
  <2>2. PICK c \in Cycles :
            /\ UnusedCycle(c)
            /\ cycle' = [cycle EXCEPT ![c] =
                   [phase |-> "admitted", task |-> t,
                    for |-> task[t].next, host |-> None]]
            /\ task' = [task EXCEPT ![t] = Completed(t, c, None)]
    BY <1>2 DEF Admit
  <2>3. Completed(t, c, None).active = c
        /\ Completed(t, c, None).kind = task[t].kind
    BY <2>1 DEF Completed, TypeOK, Rows
  <2> HIDE DEF t
  <2>4. /\ task'[t].active = c /\ task'[t].kind = task[t].kind
        /\ \A u \in Tasks : u # t => task'[u] = task[u]
        /\ cycle'[c].phase = "admitted" /\ cycle'[c].task = t
        /\ \A e \in Cycles : e # c => cycle'[e] = cycle[e]
        /\ cycle[c].phase = "none"
    BY <2>1, <2>2, <2>3 DEF TypeOK, UnusedCycle
  <2>5. OneLiveCycle'
    BY <2>1, <2>4, Numbers
       DEF Fences, OneLiveCycle, Exists, Admitted, Started
  <2>6. NewTasks'
    BY <2>1, <2>4 DEF Fences, NewTasks, Exists
  <2> QED
    BY <2>5, <2>6 DEF Fences
<1>3. CASE Coalesce(d)
  <2> DEFINE t == claim[d]
  <2>1. t \in Tasks /\ cycle' = cycle
        /\ task' = [task EXCEPT ![t] = Completed(t, task[t].active, Pending(t))]
    BY <1>3 DEF Coalesce, Fenced, TypeOK
  <2>2. Completed(t, task[t].active, Pending(t)).active = task[t].active
        /\ Completed(t, task[t].active, Pending(t)).kind = task[t].kind
    BY <2>1 DEF Completed, TypeOK, Rows
  <2> HIDE DEF t
  <2>3. \A u \in Tasks :
            task'[u].kind = task[u].kind /\ task'[u].active = task[u].active
    BY <2>1, <2>2 DEF TypeOK
  <2> QED
    BY <1>0, <2>1, <2>3, FenceFrame
<1>4. CASE LoseClaim(d) \/ StopDispatcher(d)
  BY <1>0, <1>4, FenceFrame DEF LoseClaim, StopDispatcher
<1>5. CASE DeleteUnauthorized(d)
  <2>1. cycle' = cycle /\ \A t \in Tasks :
            task'[t] = task[t] \/ task'[t].kind = "gone"
    BY <1>5 DEF DeleteUnauthorized, TypeOK, NoTask
  <2> QED
    BY <1>0, <2>1, FenceFrame
<1> QED
  BY <1>1, <1>2, <1>3, <1>4, <1>5 DEF Dispatch

(* A trigger that starts nothing belonged to a task that is gone.           *)
LEMMA PromoteFences ==
  ASSUME TypeOK, Fences, NEW i \in Items, TypeOK', DeleteItem(i) \/ Promote(i)
  PROVE  Fences'
<1>0. /\ \A c \in Cycles : /\ cycle[c].phase \in {"none", "admitted", "started"}
                           /\ cycle'[c].phase \in {"none", "admitted", "started"}
      /\ i.cycle \in Cycles
  BY DEF TypeOK, CycleStates, Items
<1> DEFINE c == i.cycle
<1>1. ASSUME NEW r \in Runs, Bind(i, r), c \in Admitted \cup Started,
             task' = task
      PROVE  Fences'
  <2>1. \A e \in Cycles :
            /\ cycle'[e].task = cycle[e].task
            /\ cycle'[e].phase = "none" <=> cycle[e].phase = "none"
    BY <1>0, <1>1 DEF Bind, TypeOK, CycleStates, Admitted, Started
  <2> QED
    BY <1>0, <1>1, <2>1, FenceFrame
<1>2. CASE DeleteItem(i)
  BY <1>0, <1>2, FenceFrame DEF DeleteItem
<1>3. ASSUME NEW r \in Runs, PromoteContinuation(i, r)
      PROVE  Fences'
  <2>1. CASE i.cycle \in Started /\ Bind(i, r)
    BY <1>1, <1>3, <2>1 DEF PromoteContinuation
  <2>2. CASE UNCHANGED <<cycle, run>>
    BY <1>0, <1>3, <2>2, FenceFrame DEF PromoteContinuation
  <2> QED
    BY <1>3, <2>1, <2>2 DEF PromoteContinuation
<1>4. ASSUME NEW r \in Runs, PromoteTrigger(i, r)
      PROVE  Fences'
  <2>1. CASE Starts(i.cycle) /\ Bind(i, r)
    BY <1>1, <1>4, <2>1 DEF PromoteTrigger, Starts
  <2>2. CASE ~Starts(i.cycle) /\ i.cycle \in Admitted
             /\ cycle' = [cycle EXCEPT ![i.cycle] = NoCycle]
    <3>1. task' = task /\ cycle'[c].phase = "none"
          /\ \A e \in Cycles : e # c => cycle'[e] = cycle[e]
      BY <1>0, <1>4, <2>2 DEF PromoteTrigger, NoCycle, TypeOK
    <3>2. \A t \in Tasks : Exists(t) => task[t].active # c
      BY <1>0, <2>2 DEF Starts, Fences, OneLiveCycle
    <3> HIDE DEF c
    <3>3. OneLiveCycle'
      BY <3>1, <3>2
         DEF Fences, OneLiveCycle, Exists, Admitted, Started
    <3>4. NewTasks'
      BY <3>1 DEF Fences, NewTasks
    <3> QED
      BY <3>3, <3>4 DEF Fences
  <2>3. CASE i.cycle \notin Admitted
             /\ cycle' = [cycle EXCEPT ![i.cycle] = @]
    <3>1. \A e \in Cycles : cycle'[e] = cycle[e]
      BY <1>0, <2>3 DEF TypeOK
    <3> QED
      BY <1>0, <1>4, <3>1, FenceFrame DEF PromoteTrigger
  <2> QED
    BY <1>4, <2>1, <2>2, <2>3 DEF PromoteTrigger
<1> QED
  BY <1>2, <1>3, <1>4 DEF Promote

(* A result ends its cycle and releases the task that names it.             *)
LEMMA SubmitFences ==
  ASSUME TypeOK, Fences, NEW r \in Runs, TypeOK', Submit(r)
  PROVE  Fences'
<1> DEFINE c == run[r].cycle
<1>1. /\ c \in Cycles /\ c \in Started
      /\ cycle' = [cycle EXCEPT ![c] = NoCycle]
      /\ task' = [t \in Tasks |->
             IF Exists(t) /\ task[t].active = c THEN Released(t) ELSE task[t]]
  BY DEF Submit, Started
<1> HIDE DEF c
<1>2. \A t \in Tasks :
          /\ Exists(t) /\ task[t].active = c =>
                 \/ task'[t].kind = "gone"
                 \/ task'[t].kind = task[t].kind /\ task'[t].active = None
          /\ ~(Exists(t) /\ task[t].active = c) => task'[t] = task[t]
  <2>1. \A t \in Tasks : \/ Released(t).kind = "gone"
                         \/ /\ Released(t).kind = task[t].kind
                            /\ Released(t).active = None
    <3> SUFFICES ASSUME NEW t \in Tasks
                 PROVE  \/ Released(t).kind = "gone"
                        \/ /\ Released(t).kind = task[t].kind
                           /\ Released(t).active = None
      OBVIOUS
    <3>1. task[t] \in Rows
      BY DEF TypeOK
    <3> QED
      BY <3>1 DEF Released, NoTask, Rows
  <2>2. \A t \in Tasks :
            task'[t] = IF Exists(t) /\ task[t].active = c THEN Released(t)
                                                          ELSE task[t]
    BY <1>1
  <2> QED
    BY <2>1, <2>2
<1>3. /\ cycle'[c].phase = "none"
      /\ \A e \in Cycles : e # c => cycle'[e] = cycle[e]
  BY <1>1 DEF NoCycle, TypeOK
<1>4. OneLiveCycle'
  BY <1>1, <1>2, <1>3, Numbers
     DEF Fences, OneLiveCycle, Exists, Admitted, Started
<1>5. NewTasks'
  BY <1>1, <1>2, <1>3 DEF Fences, NewTasks, Exists
<1> QED
  BY <1>4, <1>5 DEF Fences

(* Every step keeps the fences.                                             *)
LEMMA FencesKept == TypeOK /\ TypeOK' /\ Fences /\ [Next]_vars => Fences'
<1> SUFFICES ASSUME TypeOK, TypeOK', Fences, [Next]_vars PROVE Fences'
  OBVIOUS
<1>0. \A c \in Cycles : cycle[c].phase \in {"none", "admitted", "started"}
  BY DEF TypeOK, CycleStates
<1>1. CASE UNCHANGED <<task, cycle>>
  BY <1>0, <1>1, FenceFrame
<1>2. ASSUME NEW t \in Tasks, ExpireLease(t) PROVE Fences'
  <2>1. \A u \in Tasks :
            task'[u].kind = task[u].kind /\ task'[u].active = task[u].active
    BY <1>2 DEF ExpireLease, TypeOK, Rows
  <2> QED
    BY <1>0, <1>2, <2>1, FenceFrame DEF ExpireLease
<1>3. CASE Archive
  <2>1. \A t \in Tasks : task'[t].kind = "gone"
    BY <1>3 DEF Archive, NoTask
  <2> QED
    BY <2>1 DEF Fences, OneLiveCycle, NewTasks, Exists
<1>4. ASSUME NEW r \in Runs, StartRun(r) \/ Complete(r) \/ Fail(r)
      PROVE  Fences'
  BY <1>1, <1>4 DEF StartRun, Complete, Fail
<1>5. CASE CloseBoundary \/ Tick
  BY <1>1, <1>5 DEF CloseBoundary, Tick
<1>6. CASE UNCHANGED vars
  BY <1>1, <1>6 DEF vars
<1> QED
  BY <1>2, <1>3, <1>4, <1>5, <1>6, EditFences, DispatchFences, PromoteFences,
     SubmitFences DEF Next

-----------------------------------------------------------------------------
(* Occurrences.                                                             *)

\* What Occurrences says of a task.
Known(t) ==
    /\ task[t].kind = "cron" =>
           owed[t] = (IF task[t].pending = None THEN task[t].next
                                                 ELSE task[t].pending)
    /\ task[t].kind = "once" /\ task[t].active = None => owed[t] = task[t].next
    /\ task[t].lease # None =>
           task[t].next <= clock
           /\ (task[t].active = None \/ task[t].kind = "cron")
    /\ task[t].active = None => task[t].pending = None

(* What a dispatcher knows about tasks is kept as time passes, and has to   *)
(* be shown for the tasks that a step writes.                               *)
LEMMA KnownFrame ==
  ASSUME TypeOK, TypeOK', Occurrences, clock <= clock',
         \A t \in Tasks : \/ task'[t] = task[t] /\ owed'[t] = owed[t]
                          \/ Known(t)'
  PROVE  Occurrences'
<1>1. \A t \in Tasks : Known(t)
  BY DEF Known, Occurrences, OwedIsKept, Leases, Pendings
<1>2. \A t \in Tasks : Known(t)'
  <2> SUFFICES ASSUME NEW t \in Tasks, task'[t] = task[t], owed'[t] = owed[t]
               PROVE  Known(t)'
    OBVIOUS
  <2>1. task[t].next \in Nat /\ clock \in Nat /\ clock' \in Nat
    BY Numbers DEF TypeOK, Rows, Times
  <2> QED
    BY <1>1, <2>1 DEF Known
<1> QED
  BY <1>2 DEF Known, Occurrences, OwedIsKept, Leases, Pendings

(* Rows without a lease and without coalesced occurrences.                  *)
LEMMA FreshRows ==
  /\ NoTask("gone").kind = "gone" /\ NoTask("gone").active = None
  /\ NoTask("gone").pending = None /\ NoTask("gone").lease = None
  /\ \A p \in BOOLEAN : \A s \in Schedules(p) : \A a \in Cycles \cup {None} :
         /\ Scheduled(s, a).kind = s.kind /\ Scheduled(s, a).next = s.at
         /\ Scheduled(s, a).pending = None /\ Scheduled(s, a).lease = None
BY DEF NoTask, Scheduled

(* An edit decides anew which occurrence is owed.                           *)
LEMMA EditOccurrences ==
  ASSUME TypeOK, TypeOK', Occurrences, NEW t \in Tasks,
         Create(t) \/ Replace(t) \/ Delete(t)
  PROVE  Occurrences'
<1>0. clock' = clock /\ clock <= clock
  <2>1. clock' = clock
    BY DEF Create, Replace, Delete
  <2> QED
    BY <2>1, Numbers DEF TypeOK
<1>1. CASE Create(t) \/ Replace(t)
  <2> DEFINE a == IF HasStarted(t) THEN task[t].active ELSE None
  <2>1. a \in Cycles \cup {None} /\ HasStarted(t) \in BOOLEAN
    BY DEF TypeOK, Rows, HasStarted
  <2>2. PICK p \in BOOLEAN, b \in Cycles \cup {None} :
            \E s \in Schedules(p) :
                /\ task' = [task EXCEPT ![t] = Scheduled(s, b)]
                /\ owed' = [owed EXCEPT ![t] = s.at]
    BY <1>1, <2>1 DEF Create, Replace, TypeOK
  <2>3. PICK s \in Schedules(p) :
            /\ task' = [task EXCEPT ![t] = Scheduled(s, b)]
            /\ owed' = [owed EXCEPT ![t] = s.at]
    BY <2>2
  <2>4. task'[t] = Scheduled(s, b) /\ owed'[t] = s.at
        /\ \A u \in Tasks : u # t => task'[u] = task[u] /\ owed'[u] = owed[u]
    BY <2>3 DEF TypeOK
  <2>5. Known(t)'
    BY <2>4, FreshRows DEF Known
  <2> QED
    BY <1>0, <2>4, <2>5, KnownFrame
<1>2. CASE Delete(t)
  <2>1. task'[t] = NoTask("gone") /\ owed' = owed
        /\ \A u \in Tasks : u # t => task'[u] = task[u]
    BY <1>2 DEF Delete, TypeOK
  <2>2. Known(t)'
    BY <2>1, FreshRows DEF Known
  <2> QED
    BY <1>0, <2>1, <2>2, KnownFrame
<1> QED
  BY <1>1, <1>2

(* A fenced claim is on a due task, a recurring one if it has a cycle.      *)
LEMMA FencedIsDue ==
  ASSUME TypeOK, Occurrences, NEW d \in Dispatchers, Fenced(d)
  PROVE  /\ claim[d] \in Tasks
         /\ task[claim[d]].kind \in {"once", "cron"}
         /\ task[claim[d]].next \in Nat /\ task[claim[d]].next <= clock
         /\ task[claim[d]].active = None \/ task[claim[d]].kind = "cron"
<1>1. claim[d] \in Tasks /\ task[claim[d]].lease # None
  BY Numbers DEF Fenced, TypeOK
<1>2. task[claim[d]] \in Rows
  BY <1>1 DEF TypeOK
<1> QED
  BY <1>1, <1>2, Numbers DEF Fenced, Exists, Occurrences, Leases, Rows, Times

(* Admission moves a recurring task to the next occurrence and coalescing   *)
(* keeps the one that is owed.                                              *)
LEMMA DispatchOccurrences ==
  ASSUME TypeOK, TypeOK', Occurrences, NEW d \in Dispatchers,
         Dispatch(d) \/ DeleteUnauthorized(d) \/ StopDispatcher(d)
  PROVE  Occurrences'
<1>0. clock' = clock /\ clock <= clock /\ clock \in Nat
  BY Numbers DEF TypeOK, Dispatch, Claim, Admit, Coalesce, LoseClaim,
                 DeleteUnauthorized, StopDispatcher
<1>1. CASE Claim(d)
  <2>1. PICK t \in Tasks :
            /\ Due(t) /\ (task[t].active = None \/ task[t].kind = "cron")
            /\ task' = [task EXCEPT ![t].lease = d, ![t].live = TRUE]
    BY <1>1 DEF Claim
  <2>2. task[t] \in Rows
    BY DEF TypeOK
  <2>3. /\ task'[t].kind = task[t].kind /\ task'[t].next = task[t].next
        /\ task'[t].pending = task[t].pending
        /\ task'[t].active = task[t].active
        /\ \A u \in Tasks : u # t => task'[u] = task[u]
        /\ owed' = owed
    BY <1>1, <2>1, <2>2 DEF Claim, TypeOK, Rows
  <2>4. Known(t)'
    BY <1>0, <2>1, <2>3
       DEF Known, Due, Occurrences, OwedIsKept, Leases, Pendings
  <2> QED
    BY <1>0, <2>3, <2>4, KnownFrame
<1>2. CASE Admit(d)
  <2>0. PICK t \in Tasks : t = claim[d]
    BY <1>2, FencedIsDue DEF Admit
  <2>1. task[t].kind \in {"once", "cron"} /\ task[t].next <= clock
    BY <1>2, <2>0, FencedIsDue DEF Admit
  <2>2. PICK c \in Cycles : task' = [task EXCEPT ![t] = Completed(t, c, None)]
    BY <1>2, <2>0 DEF Admit
  <2>3. owed' = [owed EXCEPT ![t] = IF task[t].kind = "cron" THEN FirstFuture
                                                             ELSE None]
    BY <1>2, <2>0 DEF Admit
  <2>4. task[t] \in Rows
    BY DEF TypeOK
  <2>5. /\ task'[t].kind = task[t].kind /\ task'[t].active = c
        /\ task'[t].pending = None /\ task'[t].lease = None
        /\ task[t].kind = "cron" => task'[t].next = FirstFuture
        /\ \A u \in Tasks : u # t => task'[u] = task[u] /\ owed'[u] = owed[u]
    BY <2>1, <2>2, <2>3, <2>4 DEF TypeOK, Completed, Rows
  <2>6. task[t].kind = "cron" => owed'[t] = FirstFuture
    BY <2>1, <2>3 DEF TypeOK
  <2>7. Known(t)'
    BY <2>5, <2>6, Numbers DEF Known
  <2> QED
    BY <1>0, <2>1, <2>5, <2>7, KnownFrame
<1>3. CASE Coalesce(d)
  <2>0. PICK t \in Tasks : t = claim[d]
    BY <1>3, FencedIsDue DEF Coalesce
  <2>1. /\ task[t].kind = "cron" /\ task[t].next <= clock
        /\ task[t].active # None /\ owed' = owed
        /\ task' = [task EXCEPT ![t] = Completed(t, task[t].active, Pending(t))]
    BY <1>3, <2>0, FencedIsDue DEF Coalesce
  <2>2. task[t] \in Rows
    BY DEF TypeOK
  <2>3. /\ task'[t].kind = "cron" /\ task'[t].active = task[t].active
        /\ task'[t].pending = Pending(t) /\ task'[t].lease = None
        /\ \A u \in Tasks : u # t => task'[u] = task[u]
    BY <2>1, <2>2 DEF TypeOK, Completed, Rows
  <2>4. owed[t] = Pending(t) /\ Pending(t) # None
    BY <2>1, <2>2, Numbers DEF Occurrences, OwedIsKept, Pending, Rows, Times
  <2>5. Known(t)'
    BY <2>1, <2>3, <2>4 DEF Known
  <2> QED
    BY <1>0, <2>1, <2>3, <2>5, KnownFrame
<1>4. CASE LoseClaim(d) \/ StopDispatcher(d)
  BY <1>0, <1>4, KnownFrame DEF LoseClaim, StopDispatcher
<1>5. CASE DeleteUnauthorized(d)
  <2>1. claim[d] \in Tasks
    BY <1>5 DEF DeleteUnauthorized, Fenced, TypeOK
  <2>2. task'[claim[d]] = NoTask("gone") /\ owed' = owed
        /\ \A u \in Tasks : u # claim[d] => task'[u] = task[u]
    BY <1>5, <2>1 DEF DeleteUnauthorized, TypeOK
  <2>3. \A u \in Tasks : \/ task'[u] = task[u] /\ owed'[u] = owed[u]
                         \/ Known(u)'
    BY <2>2, FreshRows DEF Known
  <2> QED
    BY <1>0, <2>3, KnownFrame
<1> QED
  BY <1>1, <1>2, <1>3, <1>4, <1>5 DEF Dispatch

(* The result of a cycle makes its coalesced occurrence the next one.       *)
LEMMA SubmitOccurrences ==
  ASSUME TypeOK, TypeOK', Occurrences, NEW r \in Runs, Submit(r)
  PROVE  Occurrences'
<1>0. clock' = clock /\ clock <= clock
  BY Numbers DEF TypeOK, Submit
<1>1. \A t \in Tasks : owed'[t] = owed[t]
          /\ (task'[t] = task[t] \/ (Exists(t) /\ task'[t] = Released(t)))
  BY DEF Submit
<1>2. ASSUME NEW t \in Tasks, Exists(t), task'[t] = Released(t)
      PROVE  Known(t)'
  <2>1. task[t] \in Rows
    BY DEF TypeOK
  <2>2. CASE task[t].kind = "once"
    <3>1. task'[t] = NoTask("gone")
      BY <1>2, <2>2 DEF Released
    <3> QED
      BY <3>1, FreshRows DEF Known
  <2>3. CASE task[t].kind # "once"
    <3> DEFINE n == IF task[t].pending = None THEN task[t].next
                                              ELSE task[t].pending
    <3>1. task'[t] = [task[t] EXCEPT !.next = n, !.active = None,
                                     !.pending = None, !.lease = None,
                                     !.live = FALSE]
      BY <1>2, <2>3 DEF Released
    <3>2. task[t].kind = "cron" /\ owed'[t] = n
      BY <1>1, <1>2, <2>3 DEF Exists, Occurrences, OwedIsKept
    <3> HIDE DEF n
    <3>3. task'[t].kind = "cron" /\ task'[t].next = n
          /\ task'[t].pending = None /\ task'[t].lease = None
      BY <2>1, <3>1, <3>2 DEF Rows
    <3> QED
      BY <3>2, <3>3 DEF Known
  <2> QED
    BY <2>2, <2>3
<1> QED
  BY <1>0, <1>1, <1>2, KnownFrame

(* Every step keeps what the dispatcher knows.                              *)
LEMMA OccurrencesKept ==
  TypeOK /\ TypeOK' /\ Occurrences /\ [Next]_vars => Occurrences'
<1> SUFFICES ASSUME TypeOK, TypeOK', Occurrences, [Next]_vars
             PROVE  Occurrences'
  OBVIOUS
<1>0. clock <= clock /\ clock <= clock + 1
  BY Numbers DEF TypeOK
<1>1. CASE UNCHANGED <<clock, task, owed>>
  BY <1>0, <1>1, KnownFrame
<1>2. ASSUME NEW t \in Tasks, ExpireLease(t) PROVE Occurrences'
  <2>1. task[t] \in Rows
    BY DEF TypeOK
  <2>2. /\ task'[t] = [task[t] EXCEPT !.live = FALSE]
        /\ \A u \in Tasks : u # t => task'[u] = task[u]
        /\ owed' = owed /\ clock' = clock
    BY <1>2, <2>1 DEF ExpireLease, TypeOK, Rows
  <2>3. Known(t)'
    BY <2>1, <2>2
       DEF Known, Rows, Occurrences, OwedIsKept, Leases, Pendings
  <2> QED
    BY <1>0, <2>2, <2>3, KnownFrame
<1>3. CASE Archive
  <2>1. clock' = clock /\ \A t \in Tasks : task'[t] = NoTask("gone")
    BY <1>3 DEF Archive
  <2>2. \A t \in Tasks : Known(t)'
    BY <2>1, FreshRows DEF Known
  <2> QED
    BY <1>0, <2>1, <2>2, KnownFrame
<1>4. CASE Tick
  BY <1>0, <1>4, KnownFrame DEF Tick
<1>5. ASSUME NEW i \in Items, DeleteItem(i) \/ Promote(i) PROVE Occurrences'
  BY <1>1, <1>5 DEF DeleteItem, Promote, PromoteTrigger, PromoteContinuation
<1>6. ASSUME NEW r \in Runs, StartRun(r) \/ Complete(r) \/ Fail(r)
      PROVE  Occurrences'
  BY <1>1, <1>6 DEF StartRun, Complete, Fail
<1>7. CASE CloseBoundary
  BY <1>1, <1>7 DEF CloseBoundary
<1>8. CASE UNCHANGED vars
  BY <1>1, <1>8 DEF vars
<1> QED
  BY <1>2, <1>3, <1>4, <1>5, <1>6, <1>7, <1>8, EditOccurrences,
     DispatchOccurrences, SubmitOccurrences DEF Next

-----------------------------------------------------------------------------
(* Work.                                                                    *)

(* Items are told apart by their kind and their cycle.                      *)
LEMMA ItemsDiffer ==
  /\ \A c \in Cycles, e \in Cycles :
         /\ Item("trigger", c) = Item("trigger", e) => c = e
         /\ Item("continuation", c) = Item("continuation", e) => c = e
         /\ Item("trigger", c) # Item("continuation", e)
  /\ \A i \in Items : /\ i.cycle \in Cycles /\ i.kind \in {"trigger", "continuation"}
                      /\ i = Item(i.kind, i.cycle)
  /\ \A c \in Cycles, k \in {"trigger", "continuation"} :
         Item(k, c).kind = k /\ Item(k, c).cycle = c
BY DEF Item, Items

(* Steps that touch neither cycles nor items keep the work, and those that  *)
(* start a run or open the boundary.                                        *)
LEMMA WorkFrame ==
  ASSUME Work, UNCHANGED <<cycle, mailbox, session, lost>>,
         \/ UNCHANGED <<run, boundary>>
         \/ Active' # {}
         \/ boundary' # None
  PROVE  Work'
BY DEF Work, WorkHasFuture, Triggered, Admitted, Started, Active

(* Deleted cycles take their items along.                                   *)
LEMMA RemovalWork ==
  ASSUME TypeOK, Work, NEW cs, RemoveAdmitted(cs),
         UNCHANGED <<run, boundary, session, lost>>
  PROVE  Work'
<1>1. \A c \in Cycles :
          IF c \in cs /\ cycle[c].phase = "admitted"
          THEN cycle'[c].phase = "none"
               /\ \A k \in {"trigger", "continuation"} : Item(k, c) \notin mailbox'
          ELSE cycle'[c].phase = cycle[c].phase
               /\ \A k \in {"trigger", "continuation"} :
                      Item(k, c) \in mailbox' <=> Item(k, c) \in mailbox
  BY ItemsDiffer DEF RemoveAdmitted, Admitted, NoCycle
<1>2. Active' = Active
  BY DEF Active
<1> QED
  BY <1>1, <1>2 DEF Work, WorkHasFuture, Triggered, Admitted, Started

(* The trigger of a new cycle.                                              *)
LEMMA AdmitWork ==
  ASSUME TypeOK, Work, NEW d \in Dispatchers, Admit(d)
  PROVE  Work'
<1>1. PICK c \in Cycles :
          /\ UnusedCycle(c)
          /\ cycle' = [cycle EXCEPT ![c] =
                 [phase |-> "admitted", task |-> claim[d],
                  for |-> task[claim[d]].next, host |-> None]]
          /\ mailbox' = mailbox \cup {Item("trigger", c)}
          /\ lost' = lost \ {c}
  BY DEF Admit
<1>2. /\ cycle'[c].phase = "admitted" /\ Item("trigger", c) \in mailbox'
      /\ \A e \in Cycles : e # c =>
             /\ cycle'[e] = cycle[e]
             /\ e \in lost' <=> e \in lost
             /\ \A k \in {"trigger", "continuation"} :
                    Item(k, e) \in mailbox' <=> Item(k, e) \in mailbox
  BY <1>1, ItemsDiffer DEF TypeOK
<1>3. boundary' = boundary /\ session' = session /\ Active' = Active
  BY DEF Admit, Active
<1> QED
  BY <1>2, <1>3 DEF Work, WorkHasFuture, Triggered, Admitted, Started

(* An item is taken by an active run, or deleted by a user.                 *)
LEMMA ItemWork ==
  ASSUME TypeOK, Work, NEW i \in Items, DeleteItem(i) \/ Promote(i)
  PROVE  Work'
<1>0. PICK c \in Cycles, k \in {"trigger", "continuation"} :
          i = Item(k, c) /\ i.cycle = c /\ i.kind = k
  BY ItemsDiffer
<1>1. CASE DeleteItem(i)
  <2>1. /\ cycle' = cycle /\ Active' = Active /\ boundary' = boundary
        /\ session' = session /\ lost' = lost \cup {c}
        /\ mailbox' = mailbox \ {i}
    BY <1>0, <1>1 DEF DeleteItem, Active
  <2>2. \A e \in Cycles, l \in {"trigger", "continuation"} :
            Item(l, e) \in mailbox' =>
                Item(l, e) \in mailbox
    BY <2>1
  <2>3. \A e \in Cycles, l \in {"trigger", "continuation"} : e # c =>
            (Item(l, e) \in mailbox' <=> Item(l, e) \in mailbox)
    BY <1>0, <2>1, ItemsDiffer
  <2> QED
    BY <2>1, <2>2, <2>3 DEF Work, WorkHasFuture, Triggered, Admitted, Started
<1>2. ASSUME NEW r \in Runs, PromoteTrigger(i, r)
      PROVE  Work'
  <2>1. /\ i = Item("trigger", c) /\ mailbox' = mailbox \ {i}
        /\ lost' = lost /\ session' = session
    BY <1>0, <1>2 DEF PromoteTrigger
  <2>2. \A e \in Cycles : e # c => cycle'[e].phase = cycle[e].phase
    BY <1>0, <1>2 DEF PromoteTrigger, Bind, TypeOK, CycleStates
  <2>3. cycle'[c].phase # "admitted"
    BY <1>0, <1>2
       DEF PromoteTrigger, Bind, TypeOK, CycleStates, Admitted, NoCycle
  <2>4. r \in Active'
    BY <1>2 DEF PromoteTrigger, Polls, Bind, Active, TypeOK, RunStates
  <2>5. \A e \in Cycles : e # c =>
            (Item("trigger", e) \in mailbox' <=> Item("trigger", e) \in mailbox)
    BY <2>1, ItemsDiffer
  <2>6. Item("trigger", c) \notin mailbox'
    BY <2>1
  <2>7. WorkHasFuture'
    <3>1. \A e \in (Admitted \ lost)' : Item("trigger", e) \in mailbox'
      BY <2>1, <2>2, <2>3, <2>5 DEF Work, WorkHasFuture, Admitted
    <3> QED
      BY <2>4, <3>1 DEF WorkHasFuture
  <2>8. Triggered'
    BY <2>2, <2>5, <2>6 DEF Work, Triggered
  <2> QED
    BY <2>7, <2>8 DEF Work
<1>3. ASSUME NEW r \in Runs, PromoteContinuation(i, r)
      PROVE  Work'
  <2>1. /\ i = Item("continuation", c) /\ mailbox' = mailbox \ {i}
        /\ lost' = lost /\ session' = session
    BY <1>0, <1>3 DEF PromoteContinuation
  <2>2. \A e \in Cycles : cycle'[e].phase = cycle[e].phase
    BY <1>0, <1>3 DEF PromoteContinuation, Bind, TypeOK, CycleStates, Started
  <2>3. r \in Active'
    BY <1>3 DEF PromoteContinuation, Polls, Bind, Active, TypeOK, RunStates
  <2>4. \A e \in Cycles :
            Item("trigger", e) \in mailbox' <=> Item("trigger", e) \in mailbox
    BY <2>1, ItemsDiffer
  <2>5. WorkHasFuture'
    <3>1. \A e \in (Admitted \ lost)' : Item("trigger", e) \in mailbox'
      BY <2>1, <2>2, <2>4 DEF Work, WorkHasFuture, Admitted
    <3> QED
      BY <2>3, <3>1 DEF WorkHasFuture
  <2>6. Triggered'
    BY <2>2, <2>4 DEF Work, Triggered
  <2> QED
    BY <2>5, <2>6 DEF Work
<1> QED
  BY <1>1, <1>2, <1>3 DEF Promote

(* A result ends a cycle that has started.                                  *)
LEMMA SubmitWork ==
  ASSUME TypeOK, Work, NEW r \in Runs, Submit(r)
  PROVE  Work'
<1>1. PICK c \in Started : cycle' = [cycle EXCEPT ![c] = NoCycle]
  BY DEF Submit
<1>2. cycle'[c].phase = "none" /\ cycle[c].phase = "started" /\ c \in Cycles
      /\ \A e \in Cycles : e # c => cycle'[e] = cycle[e]
  BY <1>1 DEF TypeOK, NoCycle, Started
<1>3. /\ mailbox' = mailbox /\ lost' = lost /\ session' = session
  BY DEF Submit
<1>4. r \in Active'
  BY DEF Submit, Polls, Active, TypeOK, RunStates
<1>5. Item("trigger", c) \notin mailbox
  BY <1>2 DEF Work, Triggered
<1>6. WorkHasFuture'
  BY <1>2, <1>3, <1>4 DEF Work, WorkHasFuture, Admitted
<1>7. Triggered'
  BY <1>2, <1>3, <1>5 DEF Work, Triggered
<1> QED
  BY <1>6, <1>7 DEF Work

(* A run that fails leaves the cycles that have no item to the lost ones.   *)
LEMMA FailWork ==
  ASSUME TypeOK, Work, NEW r \in Runs, Fail(r)
  PROVE  Work'
<1>1. /\ cycle' = cycle /\ mailbox' = mailbox /\ session' = session
      /\ lost' = lost \cup {c \in Started : ~InMailbox(c)}
  BY DEF Fail
<1>2. \A c \in Started' \ lost' : Item("continuation", c) \in mailbox'
  <2> SUFFICES ASSUME NEW c \in Cycles, cycle[c].phase = "started",
                      c \notin lost'
               PROVE  Item("continuation", c) \in mailbox
    BY <1>1 DEF Started
  <2>1. PICK i \in mailbox : i.cycle = c
    BY <1>1 DEF InMailbox, Started
  <2>2. i = Item("trigger", c) \/ i = Item("continuation", c)
    BY <2>1, ItemsDiffer DEF TypeOK
  <2> QED
    BY <2>1, <2>2 DEF Work, Triggered
<1>3. Triggered' /\ \A c \in Admitted' \ lost' : Item("trigger", c) \in mailbox'
  BY <1>1 DEF Work, WorkHasFuture, Triggered, Admitted
<1> QED
  BY <1>2, <1>3 DEF Work, WorkHasFuture

(* The boundary gives every started cycle its continuation.                 *)
LEMMA BoundaryWork ==
  ASSUME TypeOK, Work, CloseBoundary
  PROVE  Work'
<1>1. /\ mailbox = {} /\ cycle' = cycle /\ session' = session
      /\ mailbox' = {Item("continuation", c) : c \in Continued}
      /\ lost' = lost \ Continued
  BY DEF CloseBoundary
<1>2. Continued \subseteq Started /\ (session = "active" => Continued = Started)
  BY DEF Continued
<1>3. Admitted' \subseteq lost'
  BY <1>1, <1>2 DEF Work, WorkHasFuture, Admitted, Started
<1>4. \A c \in Cycles : Item("trigger", c) \notin mailbox'
  BY <1>1, <1>2, ItemsDiffer DEF Started
<1>5. session = "active" =>
          \A c \in Started' : Item("continuation", c) \in mailbox'
  BY <1>1, <1>2 DEF Started
<1> QED
  BY <1>1, <1>3, <1>4, <1>5 DEF Work, WorkHasFuture, Triggered

(* Every step keeps the work.                                               *)
LEMMA WorkKept == TypeOK /\ Work /\ [Next]_vars => Work'
<1> SUFFICES ASSUME TypeOK, Work, [Next]_vars PROVE Work'
  OBVIOUS
<1>1. ASSUME NEW t \in Tasks, Create(t) \/ Replace(t) \/ Delete(t) \/ ExpireLease(t)
      PROVE  Work'
  <2>1. CASE Create(t) \/ ExpireLease(t)
    BY <2>1, WorkFrame DEF Create, ExpireLease
  <2>2. CASE Replace(t) \/ Delete(t)
    <3>1. RemoveAdmitted({task[t].active})
          /\ UNCHANGED <<run, boundary, session, lost>>
      BY <2>2 DEF Replace, Delete
    <3> QED
      BY <3>1, RemovalWork
  <2> QED
    BY <1>1, <2>1, <2>2
<1>2. ASSUME NEW d \in Dispatchers,
             Dispatch(d) \/ DeleteUnauthorized(d) \/ StopDispatcher(d)
      PROVE  Work'
  <2>1. CASE Claim(d) \/ Coalesce(d) \/ LoseClaim(d)
    BY <2>1, WorkFrame DEF Claim, Coalesce, LoseClaim
  <2>2. CASE DeleteUnauthorized(d) \/ StopDispatcher(d)
    BY <2>2, WorkFrame DEF DeleteUnauthorized, StopDispatcher
  <2> QED
    BY <1>2, <2>1, <2>2, AdmitWork DEF Dispatch
<1>3. ASSUME NEW r \in Runs, StartRun(r) PROVE Work'
  <2>1. r \in Active'
    BY <1>3 DEF StartRun, Active, TypeOK, NoRun
  <2> QED
    BY <1>3, <2>1, WorkFrame DEF StartRun
<1>4. ASSUME NEW r \in Runs, Complete(r) PROVE Work'
  <2>1. boundary' # None
    BY <1>4, Numbers DEF Complete
  <2> QED
    BY <1>4, <2>1, WorkFrame DEF Complete
<1>5. CASE Archive
  <2>1. /\ \A c \in Cycles : cycle'[c].phase # "admitted"
        /\ \A c \in Cycles : Item("trigger", c) \notin mailbox'
        /\ session' # "active"
    BY <1>5 DEF Archive, Admitted, NoCycle, Item, Triggers
  <2> QED
    BY <2>1 DEF Work, WorkHasFuture, Triggered, Admitted
<1>6. CASE Tick
  BY <1>6, WorkFrame DEF Tick
<1>7. CASE UNCHANGED vars
  BY <1>7, WorkFrame DEF vars
<1> QED
  BY <1>1, <1>2, <1>3, <1>4, <1>5, <1>6, <1>7, ItemWork, SubmitWork, FailWork,
     BoundaryWork DEF Next

-----------------------------------------------------------------------------
(* The theorems.                                                            *)

(* The invariant holds in every state of every behaviour.                   *)
THEOREM Invariance == Spec => []IInv
<1>1. Init => IInv
  <2>1. ASSUME Init PROVE TypeOK
    <3>1. clock \in 0..MaxTime /\ edits \in 0..MaxEdits
          /\ troubles \in 0..MaxTroubles
      BY <2>1, Numbers DEF Init
    <3>2. NoTask("new") \in Rows /\ NoCycle \in CycleStates /\ NoRun \in RunStates
      BY <3>1, NewRows
    <3>3. Active = {}
      BY <2>1 DEF Init, Active, NoRun
    <3> QED
      BY <2>1, <3>1, <3>2, <3>3 DEF Init, TypeOK
  <2>2. ASSUME Init PROVE Fences /\ Occurrences
    BY <2>1, <2>2, Numbers
       DEF Init, Fences, OneLiveCycle, NewTasks, Exists, Occurrences, OwedIsKept,
           Leases, Pendings, NoTask, NoCycle
  <2>3. ASSUME Init PROVE Work
    BY <2>3 DEF Init, Work, WorkHasFuture, Triggered, Admitted, Started, NoCycle
  <2> QED
    BY <2>1, <2>2, <2>3 DEF IInv
<1>2. IInv /\ [Next]_vars => IInv'
  BY TypesKept, FencesKept, OccurrencesKept, WorkKept DEF IInv
<1> QED
  BY <1>1, <1>2, PTL DEF Spec

(* The types of the variables, and one active run at most.                  *)
THEOREM TypeCorrect == Spec => []TypeOK
<1>1. IInv => TypeOK
  BY DEF IInv
<1> QED
  BY <1>1, Invariance, PTL

(* The fence of a task and its live cycle name each other.                  *)
THEOREM OneLiveCycleAlways == Spec => []OneLiveCycle
<1>1. IInv => OneLiveCycle
  BY DEF IInv, Fences
<1> QED
  BY <1>1, Invariance, PTL

(* The row of a task knows the occurrence that is owed.                     *)
THEOREM OwedAlwaysKept == Spec => []OwedIsKept
<1>1. IInv => OwedIsKept
  BY DEF IInv, Occurrences
<1> QED
  BY <1>1, Invariance, PTL

(* Admitted and started cycles are not forgotten.                           *)
THEOREM WorkAlwaysHasFuture == Spec => []WorkHasFuture
<1>1. IInv => WorkHasFuture
  BY DEF IInv, Work
<1> QED
  BY <1>1, Invariance, PTL

(* An item starts the cycle it names, deletes it when it has not started,   *)
(* or changes nothing.                                                      *)
LEMMA PromotedPhases ==
  ASSUME TypeOK, NEW i \in Items, DeleteItem(i) \/ Promote(i), NEW c \in Cycles
  PROVE  \/ cycle'[c].phase = cycle[c].phase
         \/ cycle'[c].phase = "started"
         \/ cycle[c].phase = "admitted" /\ cycle'[c].phase = "none"
<1>1. i.cycle \in Cycles
  BY ItemsDiffer
<1>2. CASE DeleteItem(i)
  BY <1>2 DEF DeleteItem
<1>3. ASSUME NEW r \in Runs, Bind(i, r)
      PROVE  cycle'[c].phase = cycle[c].phase \/ cycle'[c].phase = "started"
  BY <1>1, <1>3 DEF Bind, TypeOK, CycleStates
<1>4. ASSUME NEW r \in Runs, PromoteTrigger(i, r), ~Starts(i.cycle)
      PROVE  \/ cycle'[c].phase = cycle[c].phase
             \/ cycle[c].phase = "admitted" /\ cycle'[c].phase = "none"
  <2>1. CASE i.cycle \in Admitted
    <3>1. cycle' = [cycle EXCEPT ![i.cycle] = NoCycle]
      BY <1>4, <2>1 DEF PromoteTrigger
    <3> QED
      BY <1>1, <2>1, <3>1 DEF NoCycle, TypeOK, Admitted
  <2>2. CASE i.cycle \notin Admitted
    BY <1>1, <1>4, <2>2 DEF PromoteTrigger, TypeOK
  <2> QED
    BY <2>1, <2>2
<1> QED
  BY <1>2, <1>3, <1>4 DEF Promote, PromoteTrigger, PromoteContinuation

(* Only a fenced claim admits, and it admits what is owed, when it is due.  *)
THEOREM OccurrencesInOrder == Spec => AdmitsWhatIsOwed
<1> DEFINE A == \A c \in Cycles :
          cycle[c].phase = "none" /\ cycle'[c].phase = "admitted" =>
              /\ cycle'[c].for = owed[cycle'[c].task]
              /\ cycle'[c].for <= clock
              /\ owed'[cycle'[c].task] # cycle'[c].for
<1>1. IInv /\ [Next]_vars => A
  <2> SUFFICES ASSUME TypeOK, Occurrences, [Next]_vars PROVE A
    BY DEF IInv
  <2>1. ASSUME NEW d \in Dispatchers, Admit(d) PROVE A
    <3>0. PICK t \in Tasks : t = claim[d]
      BY <2>1, FencedIsDue DEF Admit
    <3>1. /\ task[t].kind \in {"once", "cron"} /\ task[t].active = None
          /\ task[t].next \in Nat /\ task[t].next <= clock
      BY <2>1, <3>0, FencedIsDue DEF Admit
    <3>2. owed[t] = task[t].next
      BY <3>1 DEF Occurrences, OwedIsKept, Pendings
    <3>3. owed'[t] = IF task[t].kind = "cron" THEN FirstFuture ELSE None
      BY <2>1, <3>0 DEF Admit, TypeOK
    <3>4. owed'[t] # task[t].next
      BY <3>1, <3>3, Numbers DEF TypeOK, FirstFuture
    <3>5. PICK c \in Cycles : cycle' = [cycle EXCEPT ![c] =
                   [phase |-> "admitted", task |-> t,
                    for |-> task[t].next, host |-> None]]
      BY <2>1, <3>0 DEF Admit
    <3>6. \A e \in Cycles : IF e = c THEN cycle'[e].task = t
                                          /\ cycle'[e].for = task[t].next
                                     ELSE cycle'[e] = cycle[e]
      BY <3>5 DEF TypeOK
    <3> QED
      BY <3>1, <3>2, <3>4, <3>6
  <2>2. ASSUME \A c \in Cycles : cycle'[c].phase = cycle[c].phase
                                 \/ cycle'[c].phase # "admitted"
        PROVE  A
    BY <2>2
  <2>3. ASSUME NEW cs, RemoveAdmitted(cs) PROVE A
    BY <2>2, <2>3 DEF RemoveAdmitted, NoCycle
  <2>4. ASSUME NEW t \in Tasks, Create(t) \/ Replace(t) \/ Delete(t) \/ ExpireLease(t)
        PROVE  A
    BY <2>2, <2>3, <2>4 DEF Create, Replace, Delete, ExpireLease
  <2>5. ASSUME NEW d \in Dispatchers,
               Dispatch(d) \/ DeleteUnauthorized(d) \/ StopDispatcher(d)
        PROVE  A
    BY <2>1, <2>2, <2>5 DEF Dispatch, Claim, Coalesce, LoseClaim,
                            DeleteUnauthorized, StopDispatcher
  <2>6. ASSUME NEW i \in Items, DeleteItem(i) \/ Promote(i) PROVE A
    BY <2>2, <2>6, PromotedPhases
  <2>7. ASSUME NEW r \in Runs, StartRun(r) \/ Submit(r) \/ Complete(r) \/ Fail(r)
        PROVE  A
    BY <2>2, <2>7 DEF StartRun, Submit, Complete, Fail, NoCycle, TypeOK
  <2>8. CASE CloseBoundary \/ Archive \/ Tick \/ UNCHANGED vars
    BY <2>2, <2>8 DEF CloseBoundary, Archive, Tick, vars, NoCycle
  <2> QED
    BY <2>4, <2>5, <2>6, <2>7, <2>8 DEF Next
<1> QED
  BY <1>1, Invariance, PTL DEF Spec, AdmitsWhatIsOwed

(* Only the result of its run ends a cycle that has started.                *)
THEOREM StartedAlwaysKept == Spec => StartedIsKept
<1> DEFINE A == \A c \in Started :
          c \notin Started' =>
              \E r \in Active : /\ r = cycle[c].host /\ run[r].cycle = c
                                /\ ~run[r].result /\ run'[r].result
<1>1. TypeOK /\ [Next]_vars => A
  <2> SUFFICES ASSUME TypeOK, [Next]_vars PROVE A
    OBVIOUS
  <2>1. ASSUME NEW r \in Runs, Submit(r) PROVE A
    <3>1. PICK c \in Cycles : /\ c = run[r].cycle /\ cycle[c].host = r
                              /\ cycle' = [cycle EXCEPT ![c] = NoCycle]
      BY <2>1 DEF Submit, Started
    <3>2. r \in Active /\ ~run[r].result /\ run'[r].result
      BY <2>1 DEF Submit, Polls, TypeOK, RunStates
    <3>3. \A e \in Cycles : e # c => cycle'[e] = cycle[e]
      BY <3>1 DEF TypeOK
    <3> QED
      BY <3>1, <3>2, <3>3 DEF Started
  <2>2. ASSUME \A c \in Started : cycle'[c].phase = "started" PROVE A
    BY <2>2 DEF Started
  <2>3. ASSUME NEW cs, RemoveAdmitted(cs) PROVE A
    BY <2>2, <2>3 DEF RemoveAdmitted, Admitted, Started
  <2>4. ASSUME NEW t \in Tasks, Create(t) \/ Replace(t) \/ Delete(t) \/ ExpireLease(t)
        PROVE  A
    BY <2>2, <2>3, <2>4 DEF Create, Replace, Delete, ExpireLease, Started
  <2>5. ASSUME NEW d \in Dispatchers,
               Dispatch(d) \/ DeleteUnauthorized(d) \/ StopDispatcher(d)
        PROVE  A
    <3>1. CASE Admit(d)
      <4>1. PICK c \in Cycles : cycle[c].phase = "none"
                                /\ \A e \in Cycles : e # c => cycle'[e] = cycle[e]
        BY <3>1 DEF Admit, UnusedCycle, TypeOK
      <4> QED
        BY <2>2, <4>1 DEF Started
    <3> QED
      BY <2>2, <2>5, <3>1 DEF Dispatch, Claim, Coalesce, LoseClaim,
                              DeleteUnauthorized, StopDispatcher, Started
  <2>6. ASSUME NEW i \in Items, DeleteItem(i) \/ Promote(i) PROVE A
    BY <2>2, <2>6, PromotedPhases DEF Started
  <2>7. ASSUME NEW r \in Runs, StartRun(r) \/ Complete(r) \/ Fail(r) PROVE A
    BY <2>2, <2>7 DEF StartRun, Complete, Fail, Started
  <2>8. CASE CloseBoundary \/ Archive \/ Tick \/ UNCHANGED vars
    BY <2>2, <2>8 DEF CloseBoundary, Archive, Tick, vars, Started, Admitted
  <2> QED
    BY <2>1, <2>4, <2>5, <2>6, <2>7, <2>8 DEF Next
<1> QED
  BY <1>1, TypeCorrect, PTL DEF Spec, StartedIsKept

-----------------------------------------------------------------------------
(* ScheduledTasks implements TaskCycles.                                    *)

\* What TaskCycles sees of tasks and cycles.
Kinds == [t \in Tasks |-> task[t].kind]
View(c) == [phase |-> cycle[c].phase, task |-> cycle[c].task,
            for |-> cycle[c].for]
Views == [c \in Cycles |-> View(c)]

USE DEF Promise!vars, Promise!Next

LEMMA PromiseInit == Init => Promise!Init
BY DEF Init, Promise!Init, Promise!Nothing, Promise!Is, NoTask, NoCycle

(* A cycle belongs to a task.                                               *)
CyclesHaveTask ==
    \A c \in Cycles : cycle[c].phase # "none" => cycle[c].task \in Tasks

LEMMA CyclesHaveTaskKept ==
  ASSUME TypeOK, CyclesHaveTask, [Next]_vars
  PROVE  CyclesHaveTask'
<1> USE DEF CyclesHaveTask
<1>1. ASSUME NEW cs, RemoveAdmitted(cs) PROVE CyclesHaveTask'
  BY <1>1 DEF RemoveAdmitted, NoCycle
<1>2. ASSUME NEW t \in Tasks, Create(t) \/ Replace(t) \/ Delete(t) \/ ExpireLease(t)
      PROVE  CyclesHaveTask'
  BY <1>1, <1>2 DEF Create, Replace, Delete, ExpireLease
<1>3. ASSUME NEW d \in Dispatchers, Admit(d) PROVE CyclesHaveTask'
  <2>1. claim[d] \in Tasks
    BY <1>3 DEF Admit, Fenced, TypeOK
  <2> QED
    BY <1>3, <2>1 DEF Admit, TypeOK
<1>4. ASSUME NEW d \in Dispatchers,
             \/ Dispatch(d) \/ DeleteUnauthorized(d) \/ StopDispatcher(d)
      PROVE  CyclesHaveTask'
  BY <1>3, <1>4
     DEF Dispatch, Claim, Coalesce, LoseClaim, DeleteUnauthorized, StopDispatcher
<1>5. ASSUME NEW i \in Items, NEW r \in Runs, PromoteTrigger(i, r)
      PROVE  CyclesHaveTask'
  <2>2. i.cycle \in Cycles
    BY DEF Items
  <2>3. CASE Starts(i.cycle) /\ Bind(i, r)
    BY <2>2, <2>3 DEF Bind, Starts, Admitted, TypeOK, CycleStates
  <2>4. CASE cycle' = [cycle EXCEPT ![i.cycle] =
                 IF i.cycle \in Admitted THEN NoCycle ELSE @]
    BY <2>2, <2>4 DEF TypeOK, NoCycle
  <2> QED
    BY <1>5, <2>3, <2>4 DEF PromoteTrigger
<1>6. ASSUME NEW i \in Items, NEW r \in Runs, PromoteContinuation(i, r)
      PROVE  CyclesHaveTask'
  <2>1. i.cycle \in Cycles
    BY DEF Items
  <2> QED
    BY <1>6, <2>1
       DEF PromoteContinuation, Bind, Started, TypeOK, CycleStates
<1>7. ASSUME NEW i \in Items, DeleteItem(i) \/ Promote(i)
      PROVE  CyclesHaveTask'
  BY <1>5, <1>6, <1>7 DEF DeleteItem, Promote
<1>8. ASSUME NEW r \in Runs, StartRun(r) \/ Submit(r) \/ Complete(r) \/ Fail(r)
      PROVE  CyclesHaveTask'
  BY <1>8 DEF StartRun, Submit, Complete, Fail, NoCycle, Started, TypeOK
<1>9. CASE CloseBoundary \/ Archive \/ Tick \/ UNCHANGED vars
  BY <1>9 DEF CloseBoundary, Archive, Tick, vars, NoCycle, Admitted
<1> QED
  BY <1>2, <1>4, <1>7, <1>8, <1>9 DEF Next

(* What is all the same to TaskCycles.                                      *)
LEMMA PromiseFrame ==
  ASSUME UNCHANGED <<clock, owed>>,
         \A t \in Tasks : task'[t].kind = task[t].kind,
         \A c \in Cycles : View(c)' = View(c)
  PROVE  UNCHANGED Promise!vars
<1>1. Kinds' = Kinds
  BY DEF Kinds
<1>2. Views' = Views
  BY DEF Views
<1> QED
  BY <1>1, <1>2 DEF Kinds, Views, View

(* The cycles of a task, as its row knows them.                             *)
LEMMA CyclesOf ==
  ASSUME TypeOK, OneLiveCycle, NEW t \in Tasks, Exists(t)
  PROVE  /\ Promise!Of(t) \cap Promise!In("admitted") = {task[t].active} \cap Admitted
         /\ HasStarted(t) <=> Promise!Of(t) \cap Promise!In("started") # {}
         /\ task[t].active = None => Promise!Of(t) = {}
<1>1. \A c \in Cycles : /\ c \in Promise!Of(t) <=>
                              cycle[c].phase # "none" /\ cycle[c].task = t
                        /\ \A p : c \in Promise!In(p) <=> cycle[c].phase = p
  BY DEF Promise!Of, Promise!In
<1>2. \A c \in Cycles : task[t].active = c <=>
                          c \in Admitted \cup Started /\ cycle[c].task = t
  BY DEF OneLiveCycle
<1>3. Promise!Of(t) \subseteq Cycles
  BY DEF Promise!Of
<1>4. \A c \in Cycles : cycle[c].phase \in {"none", "admitted", "started"}
  BY DEF TypeOK, CycleStates
<1>5. Promise!Of(t) \cap Promise!In("admitted") = {task[t].active} \cap Admitted
  BY <1>1, <1>2, <1>3 DEF Admitted
<1>6. HasStarted(t) <=> Promise!Of(t) \cap Promise!In("started") # {}
  BY <1>1, <1>2, <1>3 DEF HasStarted, Started
<1>7. ASSUME task[t].active = None PROVE Promise!Of(t) = {}
  BY <1>1, <1>2, <1>3, <1>4, <1>7, Numbers DEF Admitted, Started
<1> QED
  BY <1>5, <1>6, <1>7

(* Removed cycles are dropped.                                              *)
LEMMA RemovedAreDropped ==
  ASSUME NEW cs, RemoveAdmitted(cs)
  PROVE  Views' = Promise!Dropped(cs \cap Admitted)
BY DEF RemoveAdmitted, Promise!Dropped, Promise!Nothing, Promise!Is, NoCycle,
       Views, View

LEMMA PromiseEdits ==
  ASSUME IInv, IInv', NEW t \in Tasks, Create(t) \/ Replace(t) \/ Delete(t)
  PROVE  Promise!Next
<1> USE DEF IInv, Fences
<1>1. CASE Create(t)
  <2>1. PICK s \in Schedules(FALSE) : /\ task' = [task EXCEPT ![t] = Scheduled(s, None)]
                                      /\ owed' = [owed EXCEPT ![t] = s.at]
    BY <1>1 DEF Create
  <2>2. Promise!Of(t) = {} /\ task[t].kind = "new" /\ UNCHANGED <<clock, cycle>>
    BY <1>1 DEF Create, NewTasks, Promise!Of
  <2>3. Kinds' = [Kinds EXCEPT ![t] = s.kind]
    BY <2>1 DEF Kinds, Scheduled, NoTask, TypeOK
  <2>4. Views' = Promise!Dropped(Promise!Of(t) \cap Promise!In("admitted"))
    BY <2>2 DEF Views, View, Promise!Dropped
  <2>5. \/ s.kind = "cron" /\ s.at = clock + 1
        \/ s.kind = "once" /\ s.at >= clock
    BY <2>1 DEF Schedules, FirstFuture
  <2>6. Promise!Define(t, s.kind, s.at)
    BY <2>1, <2>2, <2>3, <2>4, <2>5 DEF Promise!Define, Kinds, Views, View
  <2>7. s.kind \in {"once", "cron"} /\ s.at \in Times
    BY <2>1, NewRows DEF TypeOK
  <2> QED
    BY <2>6, <2>7
<1>2. CASE Replace(t)
  <2>1. PICK s \in Schedules(HasStarted(t)) :
               /\ task' = [task EXCEPT ![t] =
                      Scheduled(s, IF HasStarted(t) THEN @.active ELSE None)]
               /\ owed' = [owed EXCEPT ![t] = s.at]
    BY <1>2 DEF Replace
  <2>2. Exists(t) /\ UNCHANGED clock /\ RemoveAdmitted({task[t].active})
    BY <1>2 DEF Replace
  <2>3. Kinds' = [Kinds EXCEPT ![t] = s.kind]
    BY <2>1 DEF Kinds, Scheduled, NoTask, TypeOK
  <2>4. Views' = Promise!Dropped(Promise!Of(t) \cap Promise!In("admitted"))
    BY <2>2, CyclesOf, RemovedAreDropped
  <2>5. \/ s.kind = "cron" /\ s.at = clock + 1
        \/ s.kind = "once" /\ (HasStarted(t) \/ s.at >= clock)
    BY <2>1 DEF Schedules, FirstFuture
  <2>6. HasStarted(t) <=> Promise!Of(t) \cap Promise!In("started") # {}
    BY <2>2, CyclesOf
  <2>7. task[t].kind # "gone" /\ (task[t].kind = "once" => ~HasStarted(t))
    BY <1>2 DEF Replace, Exists
  <2>8. Promise!Define(t, s.kind, s.at)
    BY <2>1, <2>2, <2>3, <2>4, <2>5, <2>6, <2>7
       DEF Promise!Define, Kinds, Views, View
  <2>9. s.kind \in {"once", "cron"} /\ s.at \in Times
    <3>1. HasStarted(t) \in BOOLEAN
      BY DEF HasStarted
    <3> QED
      BY <2>1, <3>1, NewRows DEF TypeOK
  <2> QED
    BY <2>8, <2>9
<1>3. CASE Delete(t)
  <2>1. Exists(t) /\ UNCHANGED <<clock, owed>> /\ RemoveAdmitted({task[t].active})
    BY <1>3 DEF Delete
  <2>2. Kinds' = [Kinds EXCEPT ![t] = "gone"]
    BY <1>3 DEF Delete, Kinds, NoTask, TypeOK
  <2>3. Views' = Promise!Dropped(Promise!Of(t) \cap Promise!In("admitted"))
    BY <2>1, CyclesOf, RemovedAreDropped
  <2>4. Promise!Remove(t)
    BY <2>1, <2>2, <2>3
       DEF Promise!Remove, Promise!Exists, Exists, Kinds, Views, View
  <2> QED
    BY <2>4
<1> QED
  BY <1>1, <1>2, <1>3

(* A pass with a good claim admits what is owed, and nothing if it is early *)
(* or another cycle is under way.                                           *)
LEMMA PromiseAdmits ==
  ASSUME IInv, IInv', NEW d \in Dispatchers, Admit(d)
  PROVE  Promise!Next
<1> USE DEF IInv, Fences, Occurrences
<1> DEFINE t == claim[d]
<1>1. t \in Tasks /\ Exists(t) /\ task[t].active = None
  BY DEF Admit, Fenced, TypeOK
<1>2. task[t].next <= clock
  BY <1>1, Numbers DEF Admit, Fenced, Leases, TypeOK
<1>3. owed[t] = task[t].next /\ owed[t] # None
  <2>1. owed[t] = task[t].next
    BY <1>1 DEF OwedIsKept, Pendings, Exists
  <2>2. task[t].next \in Nat
    BY <1>1, Numbers DEF TypeOK, Rows, Times
  <2> QED
    BY <2>1, <2>2, TasksAssumption
<1>4. PICK c \in Cycles :
          /\ UnusedCycle(c)
          /\ cycle' = [cycle EXCEPT ![c] =
                 [phase |-> "admitted", task |-> t,
                  for |-> task[t].next, host |-> None]]
          /\ task' = [task EXCEPT ![t] = Completed(t, c, None)]
  BY DEF Admit
<1>5. owed' = [owed EXCEPT ![t] = IF task[t].kind = "cron" THEN clock + 1 ELSE None]
  BY DEF Admit, FirstFuture
<1>6. Views' = [Views EXCEPT ![c] = Promise!Is("admitted", t, owed[t])]
  BY <1>3, <1>4 DEF Views, View, Promise!Is, TypeOK
<1>7. Kinds' = Kinds
  BY <1>1, <1>4 DEF Kinds, Completed, TypeOK, Rows
<1>8. Promise!Of(t) = {} /\ c \in Promise!In("none")
  BY <1>1, <1>4, CyclesOf DEF UnusedCycle, Promise!In
<1>9. Promise!Admit(t, c)
  BY <1>1, <1>2, <1>3, <1>5, <1>6, <1>7, <1>8
     DEF Admit, Promise!Admit, Promise!Exists, Exists, Kinds, Views, View
<1> QED
  BY <1>1, <1>9

LEMMA PromiseDispatch ==
  ASSUME IInv, IInv', NEW d \in Dispatchers,
         Dispatch(d) \/ DeleteUnauthorized(d) \/ StopDispatcher(d)
  PROVE  [Promise!Next]_(Promise!vars)
<1> USE DEF IInv
<1>1. CASE DeleteUnauthorized(d)
  <2>0. PICK t \in Tasks : t = claim[d]
    BY <1>1 DEF DeleteUnauthorized, Fenced, TypeOK
  <2>1. Exists(t) /\ UNCHANGED <<clock, owed, cycle>>
    BY <1>1, <2>0 DEF DeleteUnauthorized, Fenced
  <2>2. Kinds' = [Kinds EXCEPT ![t] = "gone"]
    BY <1>1, <2>0 DEF DeleteUnauthorized, Kinds, NoTask, TypeOK
  <2>3. Promise!Remove(t)
    BY <2>1, <2>2 DEF Promise!Remove, Promise!Exists, Exists, Kinds
  <2>4. Promise!Next
    BY <2>3
  <2> QED
    BY <2>4
<1>2. CASE Admit(d)
  BY <1>2, PromiseAdmits
<1>3. CASE Coalesce(d)
  <2>1. claim[d] \in Tasks
    BY <1>3 DEF Coalesce, Fenced, TypeOK
  <2> QED
    BY <1>3, <2>1, PromiseFrame DEF Coalesce, Completed, TypeOK, Rows, View
<1>4. CASE Claim(d)
  BY <1>4, PromiseFrame DEF Claim, TypeOK, Rows, View
<1>5. CASE LoseClaim(d) \/ StopDispatcher(d)
  BY <1>5, PromiseFrame DEF LoseClaim, StopDispatcher, View
<1> QED
  BY <1>1, <1>2, <1>3, <1>4, <1>5 DEF Dispatch

LEMMA PromisePromotes ==
  ASSUME IInv, CyclesHaveTask, NEW i \in Items, DeleteItem(i) \/ Promote(i)
  PROVE  [Promise!Next]_(Promise!vars)
<1> USE DEF IInv, Fences
<1> DEFINE c == i.cycle
<1>1. c \in Cycles
  BY DEF Items
<1>2. CASE DeleteItem(i)
  BY <1>2, PromiseFrame DEF DeleteItem, View
<1>3. ASSUME NEW r \in Runs, Bind(i, r),
             UNCHANGED <<clock, task, owed>>,
             \/ c \in Started
             \/ c \in Admitted /\ Exists(cycle[c].task)
      PROVE  [Promise!Next]_(Promise!vars)
  <2>1. /\ \A b \in Cycles \ {c} : View(b)' = View(b)
        /\ View(c)' = [View(c) EXCEPT !.phase = "started"]
    BY <1>1, <1>3 DEF Bind, View, TypeOK, CycleStates
  <2>2. CASE c \in Started
    <3>1. View(c)' = View(c)
      BY <2>1, <2>2 DEF Started, View
    <3> QED
      BY <1>3, <2>1, <3>1, PromiseFrame
  <2>3. CASE c \in Admitted /\ Exists(cycle[c].task)
    <3>1. Views' = [Views EXCEPT ![c] = [@ EXCEPT !.phase = "started"]]
      BY <1>1, <2>1 DEF Views
    <3>2. cycle[c].task \in Tasks /\ c \in Promise!In("admitted")
      BY <1>1, <2>3 DEF CyclesHaveTask, Admitted, Promise!In
    <3>3. Promise!Start(c)
      BY <1>1, <1>3, <2>3, <3>1, <3>2
         DEF Promise!Start, Promise!Exists, Exists, Views, View
    <3>4. Promise!Next
      BY <1>1, <3>3
    <3> QED
      BY <3>4
  <2> QED
    BY <1>3, <2>2, <2>3
<1>4. ASSUME NEW r \in Runs, PromoteTrigger(i, r), ~Starts(c)
      PROVE  [Promise!Next]_(Promise!vars)
  <2>1. /\ UNCHANGED <<clock, task, owed>>
        /\ cycle' = [cycle EXCEPT ![c] = IF c \in Admitted THEN NoCycle ELSE @]
    BY <1>4 DEF PromoteTrigger
  <2>2. CASE c \in Admitted
    <3>1. c \in Promise!In("admitted") /\ cycle[c].task \in Tasks
      BY <1>1, <2>2 DEF Admitted, Promise!In, CyclesHaveTask
    <3>2. ~Exists(cycle[c].task)
      BY <1>1, <1>4, <2>2, <3>1 DEF Starts, OneLiveCycle
    <3>3. Views' = Promise!Dropped({c})
      BY <1>1, <2>1, <2>2
         DEF Views, View, Promise!Dropped, Promise!Nothing, Promise!Is, NoCycle, TypeOK
    <3>4. Promise!Drop(c)
      BY <1>1, <2>1, <3>1, <3>2, <3>3
         DEF Promise!Drop, Promise!Exists, Exists, Views, View
    <3>5. Promise!Next
      BY <1>1, <3>4
    <3> QED
      BY <3>5
  <2>3. CASE c \notin Admitted
    <3>1. cycle' = cycle
      BY <2>1, <2>3 DEF TypeOK
    <3> QED
      BY <2>1, <3>1, PromiseFrame DEF View
  <2> QED
    BY <2>2, <2>3
<1>5. ASSUME NEW r \in Runs, PromoteTrigger(i, r), Starts(c)
      PROVE  [Promise!Next]_(Promise!vars)
  <2>1. Bind(i, r) /\ UNCHANGED <<clock, task, owed>>
    BY <1>5 DEF PromoteTrigger
  <2>2. c \in Admitted /\ Exists(cycle[c].task)
    BY <1>5 DEF Starts
  <2> QED
    BY <1>3, <2>1, <2>2
<1>6. ASSUME NEW r \in Runs, PromoteContinuation(i, r)
      PROVE  [Promise!Next]_(Promise!vars)
  <2>1. UNCHANGED <<clock, task, owed>>
    BY <1>6 DEF PromoteContinuation
  <2>2. CASE c \in Started /\ Bind(i, r)
    BY <1>3, <2>1, <2>2
  <2>3. CASE UNCHANGED cycle
    BY <2>1, <2>3, PromiseFrame DEF View
  <2> QED
    BY <1>6, <2>2, <2>3 DEF PromoteContinuation
<1> QED
  BY <1>2, <1>4, <1>5, <1>6 DEF Promote

(* A result ends the cycle of the run, and its task if that is a one-time   *)
(* task.                                                                    *)
LEMMA PromiseRuns ==
  ASSUME IInv, NEW r \in Runs, StartRun(r) \/ Submit(r) \/ Complete(r) \/ Fail(r)
  PROVE  [Promise!Next]_(Promise!vars)
<1> USE DEF IInv, Fences
<1>1. CASE StartRun(r) \/ Complete(r) \/ Fail(r)
  BY <1>1, PromiseFrame DEF StartRun, Complete, Fail, View
<1>2. CASE Submit(r)
  <2>0. PICK c \in Cycles : c = run[r].cycle
    BY <1>2 DEF Submit, Started
  <2>1. c \in Started /\ UNCHANGED <<clock, owed>>
    BY <1>2, <2>0 DEF Submit
  <2>2. cycle' = [cycle EXCEPT ![c] = NoCycle]
    BY <1>2, <2>0 DEF Submit
  <2>3. Views' = Promise!Dropped({c})
    BY <2>1, <2>2
       DEF Views, View, Promise!Dropped, Promise!Nothing, Promise!Is, NoCycle, TypeOK
  <2>4. ASSUME NEW t \in Tasks
        PROVE  task'[t].kind = IF t = cycle[c].task /\ task[t].kind = "once"
                               THEN "gone" ELSE task[t].kind
    <3>1. Exists(t) => (task[t].active = c <=> cycle[c].task = t)
      BY <2>1 DEF OneLiveCycle
    <3>2. task'[t] = IF Exists(t) /\ task[t].active = c THEN Released(t) ELSE task[t]
      BY <1>2, <2>0 DEF Submit
    <3>3. Released(t).kind = IF task[t].kind = "once" THEN "gone" ELSE task[t].kind
      BY DEF Released, NoTask, TypeOK, Rows
    <3> QED
      BY <3>1, <3>2, <3>3 DEF Exists
  <2>5. Promise!End(c)
    BY <2>1, <2>3, <2>4
       DEF Promise!End, Promise!In, Started, Views, View
  <2>6. Promise!Next
    BY <2>5
  <2> QED
    BY <2>6
<1> QED
  BY <1>1, <1>2

LEMMA PromiseStep ==
  IInv /\ IInv' /\ CyclesHaveTask /\ [Next]_vars => [Promise!Next]_(Promise!vars)
<1> SUFFICES ASSUME IInv, IInv', CyclesHaveTask, [Next]_vars
             PROVE  [Promise!Next]_(Promise!vars)
  OBVIOUS
<1>1. ASSUME NEW t \in Tasks, ExpireLease(t)
      PROVE  [Promise!Next]_(Promise!vars)
  BY <1>1, PromiseFrame DEF ExpireLease, IInv, TypeOK, Rows, View
<1>2. ASSUME NEW t \in Tasks, Create(t) \/ Replace(t) \/ Delete(t) \/ ExpireLease(t)
      PROVE  [Promise!Next]_(Promise!vars)
  BY <1>1, <1>2, PromiseEdits
<1>3. CASE CloseBoundary
  BY <1>3, PromiseFrame DEF CloseBoundary, View
<1>4. CASE Archive
  <2>1. Kinds' = [t \in Tasks |-> "gone"] /\ UNCHANGED <<clock, owed>>
    BY <1>4 DEF Archive, Kinds, NoTask
  <2>2. Views' = Promise!Dropped(Promise!In("admitted"))
    BY <1>4 DEF Archive, Admitted, Views, View, NoCycle, Promise!Dropped, Promise!In,
                Promise!Nothing, Promise!Is
  <2>3. Promise!RemoveAll
    BY <2>1, <2>2 DEF Promise!RemoveAll, Kinds, Views, View
  <2> QED
    BY <2>3
<1>5. CASE Tick
  <2>1. Promise!Tick
    BY <1>5 DEF Tick, Promise!Tick
  <2> QED
    BY <2>1
<1>6. CASE UNCHANGED vars
  BY <1>6, PromiseFrame DEF vars, View
<1> QED
  BY <1>2, <1>3, <1>4, <1>5, <1>6, PromiseDispatch, PromisePromotes, PromiseRuns
     DEF Next

(* Whatever passes, runs, users and the archival do, and wherever they      *)
(* stop, the tasks of a session go through their occurrences as TaskCycles  *)
(* says: one at a time, when they are due, each to its result.              *)
THEOREM ImplementsTaskCycles == Spec => TasksKeepPromise
<1>1. Init => CyclesHaveTask
  BY DEF Init, CyclesHaveTask, NoCycle
<1>2. TypeOK /\ CyclesHaveTask /\ [Next]_vars => CyclesHaveTask'
  BY CyclesHaveTaskKept
<1>3. IInv => TypeOK
  BY DEF IInv
<1> QED
  BY <1>1, <1>2, <1>3, PromiseInit, PromiseStep, Invariance, PTL
     DEF Spec, TasksKeepPromise, Promise!Spec

-----------------------------------------------------------------------------
(* What TaskCycles promises holds here.                                     *)
Laws == INSTANCE TaskCycles_proofs WITH
    Instants <- Times,
    kind <- [t \in Tasks |-> task[t].kind],
    cycle <- [c \in Cycles |-> [phase |-> cycle[c].phase,
                               task |-> cycle[c].task, for |-> cycle[c].for]]

(* The occurrence a recurring task works on is earlier than the one it owes *)
(* next: no coalescing, edit, retry or lost claim makes it go back.         *)
THEOREM SchedulesAdvance == Spec => []Promise!OccurrencesAdvance
<1>1. Laws!Counted
  BY TasksAssumption DEF Laws!Counted, Times
<1>2. Laws!Spec => []Laws!OccurrencesAdvance
  BY <1>1, Laws!OccurrencesAlwaysAdvance
<1>3. Laws!OccurrencesAdvance <=> Promise!OccurrencesAdvance
  BY Zenon DEF Laws!OccurrencesAdvance, Promise!OccurrencesAdvance,
               Laws!Of, Promise!Of
<1>4. Laws!Init <=> Promise!Init
  BY Zenon DEF Laws!Init, Promise!Init, Laws!Nothing, Promise!Nothing,
               Laws!Is, Promise!Is
<1>5. [Laws!Next]_(Laws!vars) <=> [Promise!Next]_(Promise!vars)
  BY Zenon
     DEF Laws!Next, Promise!Next, Laws!vars, Promise!vars,
         Laws!Define, Promise!Define, Laws!Remove, Promise!Remove,
         Laws!RemoveAll, Promise!RemoveAll, Laws!Admit, Promise!Admit,
         Laws!Start, Promise!Start, Laws!Drop, Promise!Drop,
         Laws!End, Promise!End, Laws!Tick, Promise!Tick,
         Laws!Of, Promise!Of, Laws!In, Promise!In, Laws!Exists, Promise!Exists,
         Laws!Dropped, Promise!Dropped, Laws!Nothing, Promise!Nothing,
         Laws!Is, Promise!Is
<1>6. Promise!Spec => Laws!Spec
  BY <1>4, <1>5, PTL DEF Promise!Spec, Laws!Spec
<1>7. []Laws!OccurrencesAdvance => []Promise!OccurrencesAdvance
  BY <1>3, PTL
<1> QED
  BY <1>2, <1>6, <1>7, ImplementsTaskCycles DEF TasksKeepPromise

=============================================================================
