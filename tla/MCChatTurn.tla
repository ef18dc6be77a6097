------------------------------ MODULE MCChatTurn ------------------------------
(* Instances of ChatTurn.  No queue, counter or clock needs a bound: a turn   *)
(* waits at one place at a time, and identities are reused.                   *)
EXTENDS ChatTurn, TLC
CONSTANTS t1, t2
Symmetry == Permutations(Turns)
=============================================================================
