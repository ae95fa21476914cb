------------------------ MODULE MCSessionLifecycle ------------------------
(* Constants for TLC.  Symmetric sets are used by the safety runs only. *)
EXTENDS SessionLifecycle, TLC
CONSTANTS stu1, stu2, vol1, vol2, s1, s2, r1, r2, w1

OneStudent    == {stu1}
TwoStudents   == {stu1, stu2}
TwoVolunteers == {vol1, vol2}
OneVolunteer  == {vol1}
Nobody        == {}
OneSession    == {s1}
TwoSessions   == {s1, s2}
TwoRequests   == {r1, r2}
OneRequest    == {r1}
OneWorker     == {w1}

Symmetry == Permutations(TwoRequests) \cup Permutations(TwoVolunteers)
RequestSymmetry == Permutations(TwoRequests)
=============================================================================
