-------------------------- MODULE MCSessionMeeting --------------------------
(* Constants for TLC. *)
EXTENDS SessionMeeting, TLC
CONSTANTS student, volunteer, r1, r2, r3, m1, m2, m3

Pair          == {student, volunteer}
ThreeRequests == {r1, r2, r3}
ThreeMeetings == {m1, m2, m3}
Symmetry      == Permutations(Pair) \cup Permutations(ThreeRequests)
                     \cup Permutations(ThreeMeetings)
=============================================================================
