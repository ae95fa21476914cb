------------------------- MODULE SessionBroadcasts -------------------------
(***************************************************************************)
(* The list of open sessions that volunteers see: which broadcasts of it   *)
(* the requests of a session cause, what each of them has read, and how    *)
(* the list hides a session that is exclusive to one volunteer.            *)
(*                                                                         *)
(* Code: updateSessionList, addExclusiveSessionMetadata, emitSessionChange *)
(* and joinSession in src/server/services/SocketService.ts, the 'list'     *)
(* event in router/api/sockets.ts, and startSession, joinSession,          *)
(* endSession and handleSessionBreakout in services/SessionService.ts.     *)
(*                                                                         *)
(* A broadcast reads the rows, then the hash of exclusive sessions, then   *)
(* emits: three steps of a request, and the list of one of two requests    *)
(* may overtake that of the other.  A row is what the list asks of it;     *)
(* SessionLifecycle has the sessions themselves.  All volunteers are sent  *)
(* the same, so one stands for all.                                        *)
(*                                                                         *)
(* Left out: session-change and presence events (of one session each),     *)
(* shadow bans (listed, and hidden by the client), the age of a session.   *)
(***************************************************************************)
EXTENDS Naturals

CONSTANTS
    Sessions, NoSession,
    Requests,       \* requests, socket events and jobs that may run at once
    MaxFaults       \* bound on the calls that throw

ASSUME BroadcastConstants == NoSession \notin Sessions /\ MaxFaults \in Nat

VARIABLES
    row,        \* the committed row of every session
    exclusive,  \* the hash exclusiveRequestSessions, its keys
    announced,  \* the student's socket has joined the session and said so
    list,       \* what the volunteers see
    pc, on,     \* the next step of every request, and its session
    job,        \* it is a job: endSession is given no SocketService
    tx,         \* it has ended its session, and not yet committed
    read,       \* the list it is making
    faults,
    \* history:
    dirty,      \* the rows or the hash have changed since it read them, or will,
                \* by a transaction that had not committed yet
    early,      \* sessions it has read between their COMMIT and their HSET
    stale,      \* the last list was dirty, or what came later was not broadcast
    window      \* early, of the last list

tables  == <<row, exclusive>>
request == <<pc, on, job, tx, read>>
vars    == <<tables, announced, list, request, faults, dirty, early, stale, window>>

Labels    == {"idle", "hset", "update", "unhide", "clear", "end", "rows", "hash",
              "emit", "commit", "cleanup"}
Lists     == [sessions : SUBSET Sessions, hidden : SUBSET Sessions]
EmptyList == [sessions |-> {}, hidden |-> {}]

Init ==
    /\ row = [s \in Sessions |-> "none"] /\ exclusive = {} /\ announced = {}
    /\ list = EmptyList
    /\ pc = [r \in Requests |-> "idle"] /\ on = [r \in Requests |-> NoSession]
    /\ job = [r \in Requests |-> FALSE] /\ tx = [r \in Requests |-> FALSE]
    /\ read = [r \in Requests |-> EmptyList] /\ faults = 0
    /\ dirty = [r \in Requests |-> FALSE] /\ early = [r \in Requests |-> {}]
    /\ stale = FALSE /\ window = {}

At(r, label)   == pc[r] = label
Goto(r, label) == pc' = [pc EXCEPT ![r] = label]
Begin(r, s, label) ==
    /\ At(r, "idle") /\ Goto(r, label)
    /\ on' = [on EXCEPT ![r] = s]
Finish(r) ==
    /\ Goto(r, "idle")
    /\ on' = [on EXCEPT ![r] = NoSession] /\ job' = [job EXCEPT ![r] = FALSE]
    /\ tx' = [tx EXCEPT ![r] = FALSE] /\ read' = [read EXCEPT ![r] = EmptyList]
    /\ early' = [early EXCEPT ![r] = {}]

\* Whoever has read for a list has read what r now changes.
Spoil(r) ==
    dirty' = [r2 \in Requests |-> dirty[r2] \/ (r2 # r /\ pc[r2] \in {"hash", "emit"})]
Clean(r) == dirty' = [dirty EXCEPT ![r] = FALSE]

\* What a job has changed is not broadcast.
Unsaid(r) == stale' = (stale \/ job[r])

-----------------------------------------------------------------------------
\* startSession: the row is committed, then an exclusive session hidden.

StartSession(r, s) ==
    /\ row[s] = "none"
    /\ row' = [row EXCEPT ![s] = "open"]
    /\ \/ Begin(r, s, "hset")
       \/ At(r, "idle") /\ UNCHANGED <<pc, on>>
    /\ Spoil(r)
    /\ UNCHANGED <<exclusive, announced, list, job, tx, read, faults, early, stale, window>>

StartHide(r) ==
    /\ At(r, "hset")
    /\ exclusive' = exclusive \cup {on[r]}
    /\ Spoil(r)
    /\ Finish(r)
    /\ UNCHANGED <<row, announced, list, faults, stale, window>>

-----------------------------------------------------------------------------
\* What causes a broadcast.

\* Mutant of Answered: startSession does not wait for the HSET.
AnsweredAtOnce(s) == row[s] # "none"

\* The student's client knows the session once startSession has answered.
Answered(s) == row[s] # "none" /\ \A r \in Requests : At(r, "hset") => on[r] # s

\* SocketService.joinSession of the student, or of the volunteer who has joined;
\* ensureCanJoinSession refuses an ended session.
SocketJoin(r, s) ==
    /\ Answered(s) /\ row[s] # "ended"
    /\ Begin(r, s, "rows")
    /\ announced' = announced \cup {s}
    /\ UNCHANGED <<tables, list, job, tx, read, faults, dirty, early, stale, window>>

\* 'list', for one volunteer.
ListAsked(r) ==
    /\ Begin(r, NoSession, "rows")
    /\ UNCHANGED <<tables, announced, list, job, tx, read, faults, dirty, early, stale, window>>

\* joinSession of a volunteer: ensureCanJoinSession.
VolunteerJoin(r, s) ==
    /\ row[s] = "open"
    /\ Begin(r, s, "update")
    /\ UNCHANGED <<tables, announced, list, job, tx, read, faults, dirty, early, stale, window>>

\* handleSessionBreakout, if the session is not fulfilled.
Breakout(r, s) ==
    /\ row[s] = "open"
    /\ Begin(r, s, "unhide")
    /\ UNCHANGED <<tables, announced, list, job, tx, read, faults, dirty, early, stale, window>>

\* endSession, if the session has not ended; of the student, the volunteer or the
\* job for stale sessions.  EndUnmatchedSession clears the hash before (and does
\* only that when it finds a matched session, which is in no list).
EndSession(r, s) ==
    /\ row[s] \in {"open", "matched"}
    /\ \/ Begin(r, s, "end") /\ UNCHANGED job
       \/ Begin(r, s, "end") /\ job' = [job EXCEPT ![r] = TRUE]
       \/ row[s] = "open" /\ Begin(r, s, "unhide") /\ job' = [job EXCEPT ![r] = TRUE]
    /\ UNCHANGED <<tables, announced, list, tx, read, faults, dirty, early, stale, window>>

-----------------------------------------------------------------------------
\* What they change.

\* An UPDATE waits for the transaction that has changed the row.
Locked(s) == \E r \in Requests : tx[r] /\ on[r] = s

\* updateSessionVolunteerById, WHERE volunteer_id IS NULL.
ClaimSession(r) ==
    /\ At(r, "update") /\ ~Locked(on[r])
    /\ row' = IF row[on[r]] = "open" THEN [row EXCEPT ![on[r]] = "matched"] ELSE row
    /\ Goto(r, "clear")
    /\ Spoil(r)
    /\ UNCHANGED <<exclusive, announced, list, on, job, tx, read, faults, early, stale, window>>

\* clearExclusiveRequest: of HGET and HDEL the one that finds nothing decides.
Clear(r, next) ==
    /\ exclusive' = exclusive \ {on[r]}
    /\ Goto(r, next)
    /\ Spoil(r) /\ Unsaid(r)
    /\ UNCHANGED <<row, announced, list, on, job, tx, read, faults, early, window>>

JoinClear(r) == At(r, "clear") /\ Clear(r, "rows")

\* Mutant of BreakoutClear: the volunteers are not told.
BreakoutClearSilently(r) ==
    /\ At(r, "unhide") /\ ~job[r]
    /\ exclusive' = exclusive \ {on[r]}
    /\ Spoil(r) /\ Finish(r)
    /\ UNCHANGED <<row, announced, list, faults, stale, window>>

\* Only the breakout that removed the entry broadcasts.
BreakoutClear(r) ==
    /\ At(r, "unhide") /\ ~job[r]
    /\ \/ on[r] \in exclusive /\ Clear(r, "rows")
       \/ /\ on[r] \notin exclusive /\ Finish(r)
          /\ UNCHANGED <<tables, announced, list, faults, dirty, stale, window>>

JobClear(r) == At(r, "unhide") /\ job[r] /\ Clear(r, "end")

\* updateSessionToEnd, in a transaction; a job broadcasts nothing.
EndUpdate(r) ==
    /\ At(r, "end") /\ ~Locked(on[r])
    /\ tx' = [tx EXCEPT ![r] = TRUE]
    /\ Goto(r, IF job[r] THEN "commit" ELSE "rows")
    /\ Spoil(r)
    /\ UNCHANGED <<tables, announced, list, on, job, read, faults, early, stale, window>>

EndCommit(r) ==
    /\ At(r, "commit")
    /\ row' = [row EXCEPT ![on[r]] = "ended"]
    /\ tx' = [tx EXCEPT ![r] = FALSE]
    /\ Goto(r, "cleanup")
    /\ Unsaid(r)
    /\ UNCHANGED <<exclusive, announced, list, on, job, read, faults, dirty, early, window>>

\* clearExclusiveRequest; the session is in no list any more.
EndClear(r) ==
    /\ At(r, "cleanup")
    /\ exclusive' = exclusive \ {on[r]}
    /\ Finish(r)
    /\ UNCHANGED <<row, announced, list, faults, dirty, stale, window>>

-----------------------------------------------------------------------------
\* updateSessionList and the 'list' event.

Open(s) == row[s] = "open"

\* getUnfulfilledSessions, with the changes of the own transaction.
Unfulfilled(r) == {s \in Sessions : Open(s) /\ ~(tx[r] /\ on[r] = s)}

ReadRows(r) ==
    /\ At(r, "rows") /\ Goto(r, "hash")
    /\ read' = [read EXCEPT ![r].sessions = Unfulfilled(r)]
    /\ dirty' = [dirty EXCEPT ![r] = \E r2 \in Requests \ {r} : tx[r2]]
    /\ UNCHANGED <<tables, announced, list, on, job, tx, faults, early, stale, window>>

Hiding(s) == \E r \in Requests : At(r, "hset") /\ on[r] = s

\* Mutant of ReadHash: also entries of sessions that are not in the list.
ReadHashWhole(r) ==
    /\ At(r, "hash") /\ Goto(r, "emit")
    /\ read' = [read EXCEPT ![r].hidden = exclusive]
    /\ early' = [early EXCEPT ![r] = {s \in read[r].sessions : Hiding(s) /\ s # on[r]}]
    /\ UNCHANGED <<tables, announced, list, on, job, tx, faults, dirty, stale, window>>

\* addExclusiveSessionMetadata
ReadHash(r) ==
    /\ At(r, "hash") /\ Goto(r, "emit")
    /\ read' = [read EXCEPT ![r].hidden = read[r].sessions \cap exclusive]
    /\ early' = [early EXCEPT ![r] = {s \in read[r].sessions : Hiding(s) /\ s # on[r]}]
    /\ UNCHANGED <<tables, announced, list, on, job, tx, faults, dirty, stale, window>>

Emit(r) ==
    /\ At(r, "emit")
    /\ list' = read[r] /\ window' = early[r] /\ stale' = dirty[r]
    /\ Clean(r)
    /\ \/ tx[r] /\ Goto(r, "commit") /\ UNCHANGED <<on, job, tx, read, early>>
       \/ ~tx[r] /\ Finish(r)
    /\ UNCHANGED <<tables, announced, faults>>

-----------------------------------------------------------------------------
\* A call throws, and the request with it: a transaction is rolled back, after
\* its broadcast or before.  Only 'list' has no session, and changes nothing.
Throw(r) ==
    /\ ~At(r, "idle")
    /\ faults < MaxFaults /\ faults' = faults + 1
    /\ stale' = (stale \/ on[r] # NoSession)
    /\ Clean(r)
    /\ Finish(r)
    /\ UNCHANGED <<tables, announced, list, window>>

Submit(r) ==
    \/ ListAsked(r)
    \/ \E s \in Sessions :
          \/ StartSession(r, s) \/ SocketJoin(r, s) \/ VolunteerJoin(r, s)
          \/ Breakout(r, s) \/ EndSession(r, s)

Serve(r) ==
    \/ StartHide(r) \/ ClaimSession(r) \/ JoinClear(r) \/ BreakoutClear(r) \/ JobClear(r)
    \/ EndUpdate(r) \/ EndCommit(r) \/ EndClear(r)
    \/ ReadRows(r) \/ ReadHash(r) \/ Emit(r)

Next == \E r \in Requests : Submit(r) \/ Serve(r) \/ Throw(r)

Spec == Init /\ [][Next]_vars

-----------------------------------------------------------------------------
\* Properties.

TypeOK ==
    /\ row \in [Sessions -> {"none", "open", "matched", "ended"}]
    /\ exclusive \subseteq Sessions /\ announced \subseteq Sessions
    /\ list \in Lists /\ list.hidden \subseteq list.sessions
    /\ pc \in [Requests -> Labels] /\ on \in [Requests -> Sessions \cup {NoSession}]
    /\ job \in [Requests -> BOOLEAN] /\ tx \in [Requests -> BOOLEAN]
    /\ read \in [Requests -> Lists] /\ faults \in 0..MaxFaults
    /\ dirty \in [Requests -> BOOLEAN] /\ early \in [Requests -> SUBSET Sessions]
    /\ stale \in BOOLEAN /\ window \subseteq Sessions

\* "Hide the exclusive session from the volunteer broadcast as early as possible":
\* while a session is exclusive no list shows it as open to everybody, unless the
\* broadcast about another session read the hash between its COMMIT and its HSET.
ExclusiveIsHidden == exclusive \cap list.sessions \subseteq list.hidden \cup window

\* When nothing is under way, volunteers see exactly the announced sessions that
\* are open, and which of them are exclusive, although nobody orders broadcasts:
\* unless the last one overlapped with a change that another one has told, a job
\* made the last change, or a call threw.
ListIsCurrent ==
    (\A r \in Requests : At(r, "idle")) /\ ~stale =>
        LET current == {s \in announced : Open(s)} IN
        /\ list.sessions \cap announced = current
        /\ list.hidden \cap announced = current \cap exclusive
=============================================================================
