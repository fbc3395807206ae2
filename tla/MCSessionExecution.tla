------------------------- MODULE MCSessionExecution -------------------------
(* Small instances of SessionExecution.                                    *)
EXTENDS SessionExecution, TLC

Symmetry == Permutations(Workers) \cup Permutations(Runs)

Troubles == Cardinality({w \in Workers : mode[w] # "on"})
            + Cardinality({w \in Workers : stuck[w]})

OneTrouble == Troubles <= 1

\* The mailbox alone: no troubles, stops or commands.
MailboxOnly == Troubles = 0 /\ ~stopRequested /\ ~pendingCommand

\* Two Workers with ordinary inputs that stay, or one Worker with triggers,
\* withdrawals and no trouble.
Unused(w) == pc[w] = "none" /\ gen[w] = 0 /\ inbox[w] = 0
OrdinaryInputs ==
    /\ \A i \in Triggers : mailbox[i] = "absent" /\ i \notin admitting
    /\ \A i \in Inputs : mailbox[i] # "withdrawn"
Ownership ==
    /\ OneTrouble /\ ~stopRequested /\ ~pendingCommand
    /\ OrdinaryInputs \/ (MailboxOnly /\ \E w \in Workers : Unused(w))
=============================================================================
