------------------------------ MODULE TaskCycles -----------------------------
(* What a scheduled task promises its user, whoever dispatches it and       *)
(* whichever runs work on it: one occurrence is owed at a time; when it is  *)
(* due, and no earlier one is under way, it is admitted as a cycle; a cycle *)
(* starts, and what has started ends with its result.  ScheduledTasks       *)
(* implements it, and has leases, a mailbox and runs besides.               *)
EXTENDS Naturals

CONSTANTS
    Tasks, Cycles,
    Instants, \* that a schedule may name
    None

VARIABLES
    clock,
    kind,  \* of a task: "new", "once", "cron" or "gone"
    owed,  \* the occurrence of a task that is to be admitted next
    cycle  \* the phase of a cycle, its task and its occurrence

vars == <<clock, kind, owed, cycle>>

Is(p, t, n) == [phase |-> p, task |-> t, for |-> n]
Nothing == Is("none", None, 0)

In(p) == {c \in Cycles : cycle[c].phase = p}
Of(t) == {c \in Cycles : cycle[c].phase # "none" /\ cycle[c].task = t}
Exists(t) == kind[t] \in {"once", "cron"}

Dropped(cs) == [c \in Cycles |-> IF c \in cs THEN Nothing ELSE cycle[c]]

Init ==
    /\ clock = 0
    /\ kind = [t \in Tasks |-> "new"]
    /\ owed = [t \in Tasks |-> None]
    /\ cycle = [c \in Cycles |-> Nothing]

(* A new schedule takes back what has not started, and is for the future    *)
(* unless a cycle goes on.  A one-time task is not edited once it started.  *)
Define(t, k, at) ==
    /\ kind[t] # "gone"
    /\ kind[t] = "once" => Of(t) \cap In("started") = {}
    /\ \/ k = "cron" /\ at = clock + 1
       \/ k = "once" /\ (at >= clock \/ Of(t) \cap In("started") # {})
    /\ kind' = [kind EXCEPT ![t] = k]
    /\ owed' = [owed EXCEPT ![t] = at]
    /\ cycle' = Dropped(Of(t) \cap In("admitted"))
    /\ UNCHANGED clock

(* Its last occurrence may be in the mailbox still.                         *)
Remove(t) ==
    /\ Exists(t)
    /\ kind' = [kind EXCEPT ![t] = "gone"]
    /\ cycle' = Dropped(Of(t) \cap In("admitted")) \/ UNCHANGED cycle
    /\ UNCHANGED <<clock, owed>>

RemoveAll ==
    /\ kind' = [t \in Tasks |-> "gone"]
    /\ cycle' = Dropped(In("admitted"))
    /\ UNCHANGED <<clock, owed>>

Admit(t, c) ==
    /\ Exists(t) /\ Of(t) = {}
    /\ owed[t] # None /\ owed[t] <= clock
    /\ c \in In("none")
    /\ cycle' = [cycle EXCEPT ![c] = Is("admitted", t, owed[t])]
    /\ owed' = [owed EXCEPT ![t] = IF kind[t] = "cron" THEN clock + 1 ELSE None]
    /\ UNCHANGED <<clock, kind>>

Start(c) ==
    /\ c \in In("admitted") /\ Exists(cycle[c].task)
    /\ cycle' = [cycle EXCEPT ![c].phase = "started"]
    /\ UNCHANGED <<clock, kind, owed>>

Drop(c) ==
    /\ c \in In("admitted") /\ ~Exists(cycle[c].task)
    /\ cycle' = Dropped({c})
    /\ UNCHANGED <<clock, kind, owed>>

(* The result comes; a one-time task goes with it.                          *)
End(c) ==
    /\ c \in In("started")
    /\ cycle' = Dropped({c})
    /\ kind' = [t \in Tasks |->
           IF t = cycle[c].task /\ kind[t] = "once" THEN "gone" ELSE kind[t]]
    /\ UNCHANGED <<clock, owed>>

Tick ==
    /\ clock' = clock + 1
    /\ UNCHANGED <<kind, owed, cycle>>

Next ==
    \/ \E t \in Tasks :
          \/ \E k \in {"once", "cron"}, at \in Instants : Define(t, k, at)
          \/ Remove(t)
          \/ \E c \in Cycles : Admit(t, c)
    \/ RemoveAll
    \/ \E c \in Cycles : Start(c) \/ Drop(c) \/ End(c)
    \/ Tick

Spec == Init /\ [][Next]_vars

(* A recurring task works through its schedule: what is under way came      *)
(* before what is owed.                                                     *)
OccurrencesAdvance ==
    \A t \in Tasks, c \in Cycles :
        kind[t] = "cron" /\ c \in Of(t) => cycle[c].for < owed[t]
=============================================================================
