--------------------------- MODULE SessionRecord ---------------------------
(***************************************************************************)
(* What the sessions table promises its readers about one row, whatever    *)
(* requests and jobs race on it: a row is opened by one student, claimed   *)
(* by at most one volunteer who then keeps it, and once closed stays       *)
(* closed, by the system or by somebody who takes part in it.              *)
(* SessionLifecycle implements this.  The contract promises neither that a *)
(* row is closed once nor that nobody claims a closed row: the code does   *)
(* not keep those (see README, findings).                                  *)
(***************************************************************************)
CONSTANTS Students, Volunteers, Sessions, None

VARIABLE rec    \* the row of every session id

NoRow == [student |-> None, volunteer |-> None, closed |-> FALSE,
          closedBy |-> None]

TakesPart(u, s) == u # None /\ u \in {rec[s].student, rec[s].volunteer}

Init == rec = [s \in Sessions |-> NoRow]

\* createSession.
Open(s, u) ==
    /\ rec[s] = NoRow
    /\ rec' = [rec EXCEPT ![s].student = u]

\* updateSessionVolunteerById.
Claim(s, v) ==
    /\ rec[s].student # None
    /\ rec[s].volunteer = None
    /\ rec' = [rec EXCEPT ![s].volunteer = v]

\* updateSessionToEnd; None is a worker job.
Close(s, u) ==
    /\ rec[s].student # None
    /\ u = None \/ TakesPart(u, s)
    /\ rec' = [rec EXCEPT ![s].closed = TRUE, ![s].closedBy = u]

Next == \E s \in Sessions :
    \/ \E u \in Students : Open(s, u)
    \/ \E v \in Volunteers : Claim(s, v)
    \/ \E u \in Students \cup Volunteers \cup {None} : Close(s, u)

Spec == Init /\ [][Next]_rec
=============================================================================
