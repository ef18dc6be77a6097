-------------------------- MODULE MCSessionRegistry --------------------------
(* Instances of SessionRegistry for TLC. *)
EXTENDS SessionRegistry, TLC

CONSTANTS r1, r2, a1, s1, s2

ChatKeys == {r1}
TwoChats == {r1, r2}
TeamKeys == {r1, a1}
RunOfDef == [k \in Keys |-> IF k = a1 THEN r1 ELSE k]
Symmetry == Permutations(Sessions)
=============================================================================
