---------------------------- MODULE MCNTHSGroups ----------------------------
(* Constants for TLC. *)
EXTENDS NTHSGroups, TLC
CONSTANTS ann, bob, r1, r2

TwoUsers    == {ann, bob}
TwoRequests == {r1, r2}
Symmetry    == Permutations(TwoUsers) \cup Permutations(TwoRequests)
=============================================================================
