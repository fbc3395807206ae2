-------------------------- MODULE MCScheduledTasks ---------------------------
(* ScheduledTasks for TLC: identities are model values that may be swapped. *)
EXTENDS ScheduledTasks, FiniteSets, TLC

Symmetry == Permutations(Tasks) \cup Permutations(Dispatchers)
                \cup Permutations(Cycles) \cup Permutations(Runs)

\* One task until the clock ends, two until shortly before.
Created == {t \in Tasks : task[t].kind # "new"}
Horizon == clock + Cardinality(Created) <= MaxTime + 1
=============================================================================
