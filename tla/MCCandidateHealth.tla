------------------------- MODULE MCCandidateHealth --------------------------
(* CandidateHealth for TLC: two labels whose chains meet in one candidate. *)
EXTENDS CandidateHealth, TLC

CONSTANTS c1, c2

MCOptions == {[label |-> "smart", chain |-> <<c1, c2>>],
              [label |-> "quick", chain |-> <<c2>>]}
MCLightweight == <<c2>>

\* One Session compacts at a time: compactions hold no claim.
OneCompaction ==
    \A s, t \in Sessions : compaction[s] # 0 /\ compaction[t] # 0 => s = t

Symmetry == Permutations(Sessions)
=============================================================================
