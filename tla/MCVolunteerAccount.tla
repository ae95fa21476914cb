------------------------- MODULE MCVolunteerAccount -------------------------
(* Constants for TLC. *)
EXTENDS VolunteerAccount, TLC
CONSTANTS r1, r2, safety, algebra, upchieve101

TwoRequests == {r1, r2}
Training    == {safety}
Subjects    == {algebra}
QuizGrants  == (safety :> {safety}) @@ (algebra :> {algebra}) @@ (upchieve101 :> {})
Symmetry    == Permutations(TwoRequests)
=============================================================================
