------------------------ MODULE MCSessionBroadcasts ------------------------
(* Constants for TLC. *)
EXTENDS SessionBroadcasts, TLC
CONSTANTS s1, s2, r1, r2

TwoSessions == {s1, s2}
TwoRequests == {r1, r2}
Symmetry    == Permutations(TwoSessions) \cup Permutations(TwoRequests)
=============================================================================
