---------------------------- MODULE MCTranscript ----------------------------
(* Instances of Transcript.                                                *)
EXTENDS Transcript, TLC

CONSTANTS w1, w2, q1, q2

Symmetry == Permutations(Writers) \cup Permutations(Readers)
=============================================================================
