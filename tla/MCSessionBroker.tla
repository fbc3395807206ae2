--------------------------- MODULE MCSessionBroker ---------------------------
(* SessionBroker for TLC: the Workers are interchangeable.                 *)
EXTENDS SessionBroker, TLC

Symmetry == Permutations(Workers)
=============================================================================
