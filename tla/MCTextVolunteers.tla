-------------------------- MODULE MCTextVolunteers --------------------------
(* Constants for TLC: ann is a favorite, and one text is sent per round. *)
EXTENDS TextVolunteers, TLC
CONSTANTS s1, s2, ann, bob, w1, w2

TwoSessions   == {s1, s2}
TwoVolunteers == {ann, bob}
TwoWorkers    == {w1, w2}
AnnAndBob     == (s1 :> {ann, bob} @@ s2 :> {ann})
Ann           == (s1 :> {ann} @@ s2 :> {})
None          == [s \in Sessions |-> {}]
Symmetry      == Permutations(TwoWorkers)
=============================================================================
