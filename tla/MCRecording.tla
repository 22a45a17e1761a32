---------------------------- MODULE MCRecording ----------------------------
(* Recording for TLC. *)
EXTENDS Recording, TLC

CONSTANTS u, v, a, b, c, r1, r2, s1, s2, s3

Sizes == [k \in Rec |-> k]
Same  == Permutations(Inst) \cup Permutations(Id) \cup Permutations(Session)
===========================================================================
