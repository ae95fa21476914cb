------------------------- MODULE SessionLifecycle -------------------------
(***************************************************************************)
(* The life of tutoring sessions: the rows of the sessions table, the      *)
(* Redis hash of exclusive requests, the Bull queue, and the API requests  *)
(* and worker jobs that read and write them.                               *)
(*                                                                         *)
(* Code: src/server/services/SessionService.ts (startSession, joinSession, *)
(* endSession, handleSessionBreakout), NotifyVolunteerService.ts, and the  *)
(* jobs endUnmatchedSession, endStaleSessions and processSessionEnded.     *)
(*                                                                         *)
(* A request or a job is a process.  Each of its database, Redis, Chime or *)
(* queue calls is one atomic step, because another process may run at      *)
(* every await between two of them.                                        *)
(***************************************************************************)
EXTENDS Integers, FiniteSets

CONSTANTS
    Students,       \* users whose active role is student
    Volunteers,     \* users whose active role is volunteer
    ShadowBanned,   \* students with banType SHADOW
    Admins,         \* volunteers who are admins too
    Sessions,       \* ids the sessions table can hand out
    Requests,       \* API requests that may be in flight at once
    Workers,        \* job slots of the worker processes
    None,           \* NULL / undefined; as a user, the system (a worker job)
    MaxFaults       \* bound on crashes and failed calls in a behaviour

ASSUME DisjointUsers ==
    /\ Students \cap Volunteers = {}
    /\ None \notin Students \cup Volunteers \cup Sessions
    /\ ShadowBanned \subseteq Students
    /\ Admins \subseteq Volunteers
ASSUME DisjointProcs == Requests \cap Workers = {}
ASSUME FaultBound == MaxFaults \in Nat

Users   == Students \cup Volunteers
Procs   == Requests \cup Workers

\* The two job kinds of the queue whose life is modelled here.
Kinds     == {"EndUnmatchedSession", "ProcessSessionEnded"}
JobStates == {"absent", "queued", "active", "completed", "failed", "cleaned"}

VARIABLES
    student,    \* sessions.student_id, None while there is no row
    volunteer,  \* sessions.volunteer_id
    ended,      \* sessions.ended_at IS NOT NULL
    endedBy,    \* sessions.ended_by_user_id
    exclusive,  \* Redis hash exclusiveRequestSessions
    texting,    \* sessions with a TextVolunteers job
    job,        \* Bull jobs by kind and session (jobId = kind:session)
    stalled,    \* jobs Bull has already re-queued once after a crash
    age,        \* of a session, against the two-hour window of endStaleSessions
    pc,         \* the next call of every request and job in progress
    call,       \* its arguments and local variables
    faults,     \* crashes and failed calls so far
    processed,  \* history: completed runs of ProcessSessionEnded
    lost        \* history: what a fault cut off, or the queue's cleaning forgot

rows  == <<student, volunteer, ended, endedBy>>
hist  == <<processed, lost>>
vars  == <<rows, exclusive, texting, job, stalled, age, pc, call, faults, hist>>

Labels == {"idle", "start_check", "start_insert", "start_hide", "start_notify",
           "start_queue", "join_claim", "join_emit", "clear_get", "clear_del",
           "breakout_notify", "unmatched_decide", "end_read", "end_commit",
           "end_meeting", "end_queue", "stale_next", "process"}
\* A session is due from twelve hours after its start on, for two hours; then it is
\* past.  It is covered when a sweep has read it in this time.
Ages == {"young", "due", "covered", "past"}
Ops == {"none", "start", "join", "end", "breakout", "unmatched", "stale",
        "process"}

\* user, sid: the arguments; want: the requested volunteer; next: the label
\* clearExclusiveRequest returns to; cleared: what it returned; seen:
\* isSessionFulfilled of the row endUnmatchedSession read; todo: the stale
\* sessions still to end.
Calls == [op : Ops, user : Users \cup {None}, sid : Sessions \cup {None},
          want : Volunteers \cup {None}, next : Labels, cleared : BOOLEAN,
          seen : BOOLEAN, todo : SUBSET Sessions]

NoCall == [op |-> "none", user |-> None, sid |-> None, want |-> None,
           next |-> "idle", cleared |-> FALSE, seen |-> FALSE, todo |-> {}]

Init ==
    /\ student   = [s \in Sessions |-> None]
    /\ volunteer = [s \in Sessions |-> None]
    /\ ended     = [s \in Sessions |-> FALSE]
    /\ endedBy   = [s \in Sessions |-> None]
    /\ exclusive = [s \in Sessions |-> None]
    /\ texting   = {}
    /\ job       = [j \in Kinds \X Sessions |-> "absent"]
    /\ stalled   = {}
    /\ age       = [s \in Sessions |-> "young"]
    /\ pc        = [p \in Procs |-> "idle"]
    /\ call      = [p \in Procs |-> NoCall]
    /\ faults    = 0
    /\ processed = [s \in Sessions |-> 0]
    /\ lost      = {}

-----------------------------------------------------------------------------
\* Rows.

Exists(s)    == student[s] # None
Active(s)    == Exists(s) /\ ~ended[s]
Fulfilled(s) == ended[s] \/ volunteer[s] # None

\* isSessionParticipant: the student or the volunteer of the row.
Participant(u, s) == u # None /\ u \in {student[s], volunteer[s]}

-----------------------------------------------------------------------------
\* Processes.

At(p, label)   == pc[p] = label
Jump(p, label) == pc' = [pc EXCEPT ![p] = label]
Goto(p, label) == Jump(p, label) /\ UNCHANGED call
Done(p)        == Jump(p, "idle") /\ call' = [call EXCEPT ![p] = NoCall]

\* An idle process starts on operation op, at the given label.
Begin(p, op, label, u, s) ==
    /\ At(p, "idle")
    /\ Jump(p, label)
    /\ call' = [call EXCEPT ![p] = [NoCall EXCEPT !.op = op, !.user = u,
                                                  !.sid = s]]

\* clearExclusiveRequest, called to return to label `next`.
Clear(p, next) ==
    /\ Jump(p, "clear_get")
    /\ call' = [call EXCEPT ![p].next = next]

-----------------------------------------------------------------------------
\* The queue.

\* Mutant of Added: no jobId, so every call queues a job.
AddedWithoutId(jobs, kind, s) == [jobs EXCEPT ![<<kind, s>>] = "queued"]

\* queue.add with a jobId: Bull ignores a job whose id it still holds, and
\* removeOnComplete / removeOnFail are false.
Added(jobs, kind, s) ==
    IF jobs[<<kind, s>>] \in {"absent", "cleaned"}
    THEN [jobs EXCEPT ![<<kind, s>>] = "queued"]
    ELSE jobs

\* What the queue records when the endSession call of process p returns or
\* throws: only the EndUnmatchedSession job reports the outcome to Bull.
Reported(jobs, p, outcome) ==
    IF call[p].op = "unmatched"
    THEN [jobs EXCEPT ![<<"EndUnmatchedSession", call[p].sid>>] = outcome]
    ELSE jobs

\* endSession returns to its caller: the stale sweep goes on with its next
\* session, a request or an EndUnmatchedSession job is finished.
Return(p) ==
    \/ /\ call[p].op = "stale"
       /\ Jump(p, "stale_next")
       /\ call' = [call EXCEPT ![p] = [NoCall EXCEPT !.op = "stale",
                                                     !.todo = call[p].todo]]
    \/ /\ call[p].op # "stale"
       /\ Done(p)

\* A fault: `cut` names the work it cuts off.
Fault(cut) ==
    /\ faults < MaxFaults
    /\ faults' = faults + 1
    /\ lost' = lost \cup cut

NoFault == UNCHANGED <<faults, lost>>

-----------------------------------------------------------------------------
\* startSession.

\* Bound: a request only arrives while the pool Sessions has an id left for it.
IdLeft == Cardinality({q \in Procs : call[q].op = "start" /\ call[q].sid = None})
            < Cardinality({s \in Sessions : ~Exists(s)})

\* The request arrives; getCurrentSessionByUserId finds no active session.
StartRead(p, u, want) ==
    /\ IdLeft
    /\ ~\E s \in Sessions : Active(s) /\ u \in {student[s], volunteer[s]}
    /\ At(p, "idle")
    /\ Jump(p, IF want = None THEN "start_insert" ELSE "start_check")
    /\ call' = [call EXCEPT ![p] = [NoCall EXCEPT !.op = "start", !.user = u,
                                                  !.want = want]]
    /\ UNCHANGED <<rows, exclusive, texting, job, stalled, age, processed>>
    /\ NoFault

\* getActiveSessionsWithVolunteers: is the requested volunteer free?
StartCheckVolunteer(p) ==
    /\ At(p, "start_check")
    /\ IF \E s \in Sessions : Active(s) /\ volunteer[s] = call[p].want
       THEN Done(p)
       ELSE Goto(p, "start_insert")
    /\ UNCHANGED <<rows, exclusive, texting, job, stalled, age, processed>>
    /\ NoFault

\* The transaction that inserts the row.
StartInsert(p, s) ==
    /\ At(p, "start_insert")
    /\ ~Exists(s)
    /\ student' = [student EXCEPT ![s] = call[p].user]
    /\ call' = [call EXCEPT ![p].sid = s]
    /\ Jump(p, IF call[p].want # None /\ call[p].user \notin ShadowBanned
               THEN "start_hide" ELSE "start_notify")
    /\ UNCHANGED <<volunteer, ended, endedBy, exclusive, texting, job, stalled,
                   age, processed>>
    /\ NoFault

\* cache.hset('exclusiveRequestSessions', ...).
StartHide(p) ==
    /\ At(p, "start_hide")
    /\ exclusive' = [exclusive EXCEPT ![call[p].sid] = call[p].want]
    /\ Goto(p, "start_notify")
    /\ UNCHANGED <<rows, texting, job, stalled, age, processed>>
    /\ NoFault

\* beginRegularNotifications, when nobody is requested, the student is not
\* shadow banned and the feature flag is on; the exclusive text message
\* changes none of this state.
StartNotify(p) ==
    /\ At(p, "start_notify")
    /\ \/ /\ call[p].want = None
          /\ call[p].user \notin ShadowBanned
          /\ texting' = texting \cup {call[p].sid}
       \/ UNCHANGED texting
    /\ Goto(p, "start_queue")
    /\ UNCHANGED <<rows, exclusive, job, stalled, age, processed>>
    /\ NoFault

\* The delayed EndUnmatchedSession job is the request's last call.
StartQueue(p) ==
    /\ At(p, "start_queue")
    /\ job' = Added(job, "EndUnmatchedSession", call[p].sid)
    /\ Done(p)
    /\ UNCHANGED <<rows, exclusive, texting, stalled, age, processed>>
    /\ NoFault

-----------------------------------------------------------------------------
\* joinSession by a volunteer.  (A student's join writes an audit row only.)

\* Mutant of CanJoin: the shadow ban is not looked at.
CanJoinShadowed(u, s) == ~ended[s] /\ volunteer[s] \in {None, u}

\* The guards of ensureCanJoinSession that let volunteer u go on.
CanJoin(u, s) ==
    /\ student[s] \in ShadowBanned => u \in Admins
    /\ ~ended[s]
    /\ volunteer[s] \in {None, u}

\* ensureCanJoinSession reads the row of an initial join.  A refused join
\* and the rejoin of the session's own volunteer change nothing here.
JoinRead(p, u, s) ==
    /\ Exists(s)
    /\ CanJoin(u, s)
    /\ volunteer[s] = None
    /\ Begin(p, "join", "join_claim", u, s)
    /\ UNCHANGED <<rows, exclusive, texting, job, stalled, age, processed>>
    /\ NoFault

\* Mutant of Claimed: the UPDATE without AND volunteer_id IS NULL.
ClaimedUnguarded(s, u) == [volunteer EXCEPT ![s] = u]

\* updateSessionVolunteerById: UPDATE ... WHERE volunteer_id IS NULL.  How
\* many rows it changed is not looked at.
Claimed(s, u) ==
    IF volunteer[s] = None THEN [volunteer EXCEPT ![s] = u] ELSE volunteer

JoinClaim(p) ==
    /\ At(p, "join_claim")
    /\ volunteer' = Claimed(call[p].sid, call[p].user)
    /\ Clear(p, "join_emit")
    /\ UNCHANGED <<student, ended, endedBy, exclusive, texting, job, stalled,
                   age, processed>>
    /\ NoFault

\* emitSessionChange, the audit row and the push notification; the answer is
\* the session with volunteerId set to the caller.
JoinReply(p) ==
    /\ At(p, "join_emit")
    /\ Done(p)
    /\ UNCHANGED <<rows, exclusive, texting, job, stalled, age, processed>>
    /\ NoFault

-----------------------------------------------------------------------------
\* clearExclusiveRequest: HGET, then HDEL; true only for the caller whose
\* HDEL removed the entry.

ClearGet(p) ==
    /\ At(p, "clear_get")
    /\ \/ exclusive[call[p].sid] = None /\ Goto(p, call[p].next)
       \/ exclusive[call[p].sid] # None /\ Goto(p, "clear_del")
    /\ UNCHANGED <<rows, exclusive, texting, job, stalled, age, processed>>
    /\ NoFault

\* Mutant of ClearDel: HDEL of a key that is not there.
ClearDelOtherKey(p) ==
    /\ At(p, "clear_del")
    /\ Goto(p, call[p].next)
    /\ UNCHANGED <<rows, exclusive, texting, job, stalled, age, processed>>
    /\ NoFault

ClearDel(p) ==
    /\ At(p, "clear_del")
    /\ exclusive' = [exclusive EXCEPT ![call[p].sid] = None]
    /\ Jump(p, call[p].next)
    /\ call' = [call EXCEPT ![p].cleared = (exclusive[call[p].sid] # None)]
    /\ UNCHANGED <<rows, texting, job, stalled, age, processed>>
    /\ NoFault

\* HGET or HDEL throws: logged, the answer is false, the entry stays; for good if it
\* was the EndUnmatchedSession job, the last to clear it.
ClearFails(p) ==
    /\ pc[p] \in {"clear_get", "clear_del"}
    /\ Goto(p, call[p].next)
    /\ Fault(IF call[p].next = "unmatched_decide" THEN {<<"clear", call[p].sid>>} ELSE {})
    /\ UNCHANGED <<rows, exclusive, texting, job, stalled, age, processed>>

-----------------------------------------------------------------------------
\* handleSessionBreakout.

BreakoutRead(p, u, s) ==
    /\ student[s] = u
    /\ ~Fulfilled(s)
    /\ At(p, "idle")
    /\ Jump(p, "clear_get")
    /\ call' = [call EXCEPT ![p] = [NoCall EXCEPT !.op = "breakout",
                                                  !.user = u, !.sid = s,
                                                  !.next = "breakout_notify"]]
    /\ UNCHANGED <<rows, exclusive, texting, job, stalled, age, processed>>
    /\ NoFault

\* Mutant of BreakoutNotify: wasCleared is not looked at.
BreakoutNotifyAlways(p) ==
    /\ At(p, "breakout_notify")
    /\ texting' = IF call[p].user \in ShadowBanned
                  THEN texting ELSE texting \cup {call[p].sid}
    /\ Done(p)
    /\ UNCHANGED <<rows, exclusive, job, stalled, age, processed>>
    /\ NoFault

BreakoutNotify(p) ==
    /\ At(p, "breakout_notify")
    /\ \/ /\ call[p].cleared
          /\ call[p].user \notin ShadowBanned
          /\ texting' = texting \cup {call[p].sid}
       \/ UNCHANGED texting
    /\ Done(p)
    /\ UNCHANGED <<rows, exclusive, job, stalled, age, processed>>
    /\ NoFault

-----------------------------------------------------------------------------
\* endSession, called by a participant's request (user u) or by a job (None,
\* with isAdmin true).

EndRequest(p, u, s) ==
    /\ Exists(s)
    /\ Begin(p, "end", "end_read", u, s)
    /\ UNCHANGED <<rows, exclusive, texting, job, stalled, age, processed>>
    /\ NoFault

\* getCurrentSessionById and the two guards.
MayEnd(p) ==
    /\ ~ended[call[p].sid]
    /\ call[p].user # None => Participant(call[p].user, call[p].sid)

EndRead(p) ==
    /\ At(p, "end_read")
    /\ MayEnd(p)
    /\ Goto(p, "end_commit")
    /\ UNCHANGED <<rows, exclusive, texting, job, stalled, age, processed>>
    /\ NoFault

EndRefused(p) ==
    /\ At(p, "end_read")
    /\ ~MayEnd(p)
    /\ Return(p)
    /\ job' = Reported(job, p, "failed")
    /\ UNCHANGED <<rows, exclusive, texting, stalled, age, processed>>
    /\ NoFault

\* The transaction around updateSessionToEnd, which has no ended_at IS NULL.  Nobody
\* asks for the age of a session that has ended, so it is forgotten.
EndCommit(p) ==
    /\ At(p, "end_commit")
    /\ ended' = [ended EXCEPT ![call[p].sid] = TRUE]
    /\ endedBy' = [endedBy EXCEPT ![call[p].sid] = call[p].user]
    /\ Goto(p, "end_meeting")
    /\ age' = [age EXCEPT ![call[p].sid] = "young"]
    /\ UNCHANGED <<student, volunteer, exclusive, texting, job, stalled, processed>>
    /\ NoFault

\* getCurrentSessionById throws, or the transaction does and rolls back.  A job that
\* failed is not tried again, nor is a session by the sweep that could not end it.
EndThrows(p) ==
    /\ pc[p] \in {"end_read", "end_commit"}
    /\ Return(p)
    /\ job' = Reported(job, p, "failed")
    /\ Fault(CASE call[p].op = "stale"     -> {<<"sweep", call[p].sid>>}
               [] call[p].op = "unmatched" -> {<<"unmatched", call[p].sid>>}
               [] OTHER                    -> {})
    /\ UNCHANGED <<rows, exclusive, texting, stalled, age, processed>>

\* SessionMeetingService.endMeeting.
EndMeeting(p) ==
    /\ At(p, "end_meeting")
    /\ Clear(p, "end_queue")
    /\ UNCHANGED <<rows, exclusive, texting, job, stalled, age, processed>>
    /\ NoFault

\* deleteChimeMeeting throws: the row is ended, the rest is never done.
EndMeetingFails(p) ==
    /\ At(p, "end_meeting")
    /\ Return(p)
    /\ job' = Reported(job, p, "failed")
    /\ Fault({<<"end", call[p].sid>>})
    /\ UNCHANGED <<rows, exclusive, texting, stalled, age, processed>>

\* Mutant of EndQueue: unmatched sessions are not post-processed.
EndQueueMatched(p) ==
    /\ At(p, "end_queue")
    /\ job' = Reported(IF volunteer[call[p].sid] = None THEN job
                       ELSE Added(job, "ProcessSessionEnded", call[p].sid), p,
                       "completed")
    /\ Return(p)
    /\ UNCHANGED <<rows, exclusive, texting, stalled, age, processed>>
    /\ NoFault

EndQueue(p) ==
    /\ At(p, "end_queue")
    /\ job' = Reported(Added(job, "ProcessSessionEnded", call[p].sid), p,
                       "completed")
    /\ Return(p)
    /\ UNCHANGED <<rows, exclusive, texting, stalled, age, processed>>
    /\ NoFault

-----------------------------------------------------------------------------
\* The worker jobs.

\* Mutant of UnmatchedRead: the job looks at fulfilled before it clears.
UnmatchedReadLooksFirst(p, s) ==
    /\ At(p, "idle")
    /\ job[<<"EndUnmatchedSession", s>>] = "queued"
    /\ job' = [job EXCEPT ![<<"EndUnmatchedSession", s>>] = "active"]
    /\ Jump(p, IF Fulfilled(s) THEN "unmatched_decide" ELSE "clear_get")
    /\ call' = [call EXCEPT ![p] = [NoCall EXCEPT !.op = "unmatched", !.sid = s,
                                                  !.next = "unmatched_decide",
                                                  !.seen = Fulfilled(s)]]
    /\ UNCHANGED <<rows, exclusive, texting, stalled, age, processed>>
    /\ NoFault

\* endUnmatchedSession reads the row, clears the exclusive request, and only
\* then looks at whether the row it read was fulfilled.
UnmatchedRead(p, s) ==
    /\ At(p, "idle")
    /\ job[<<"EndUnmatchedSession", s>>] = "queued"
    /\ job' = [job EXCEPT ![<<"EndUnmatchedSession", s>>] = "active"]
    /\ Jump(p, "clear_get")
    /\ call' = [call EXCEPT ![p] = [NoCall EXCEPT !.op = "unmatched", !.sid = s,
                                                  !.next = "unmatched_decide",
                                                  !.seen = Fulfilled(s)]]
    /\ UNCHANGED <<rows, exclusive, texting, stalled, age, processed>>
    /\ NoFault

\* getSessionById throws.  The job has one attempt: it fails, the exclusive request
\* is not cleared and the session not ended.
UnmatchedReadFails(p, s) ==
    /\ At(p, "idle")
    /\ job[<<"EndUnmatchedSession", s>>] = "queued"
    /\ job' = [job EXCEPT ![<<"EndUnmatchedSession", s>>] = "failed"]
    /\ Fault({"clear", "unmatched"} \X {s})
    /\ UNCHANGED <<rows, exclusive, texting, stalled, age, pc, call, processed>>

UnmatchedDecide(p) ==
    /\ At(p, "unmatched_decide")
    /\ IF call[p].seen
       THEN /\ job' = Reported(job, p, "completed")
            /\ Done(p)
       ELSE /\ Goto(p, "end_read")
            /\ UNCHANGED job
    /\ UNCHANGED <<rows, exclusive, texting, stalled, age, processed>>
    /\ NoFault

\* Time passes.  No sweep has to come while a session is due: cron's run may be late,
\* fail or be missed, and then no later window covers the session.  A start does not
\* take twelve hours.
GrowOld(s) ==
    /\ Active(s)
    /\ \/ /\ age[s] = "young"
          /\ ~\E q \in Procs : call[q].op = "start" /\ call[q].sid = s
          /\ age' = [age EXCEPT ![s] = "due"]
          /\ UNCHANGED lost
       \/ /\ age[s] \in {"due", "covered"}
          /\ age' = [age EXCEPT ![s] = "past"]
          /\ lost' = lost \cup ({"sweep"} \X {q \in {s} : age[q] = "due"})
    /\ UNCHANGED <<rows, exclusive, texting, job, stalled, pc, call, faults, processed>>

\* getLongRunningSessions: active, and created in the window.
LongRunning == {s \in Sessions : age[s] \in {"due", "covered"} /\ ~ended[s]}

\* The sweep has read the sessions of its window, and will end those in todo.
Sweep(p, todo) ==
    /\ At(p, "idle")
    /\ LongRunning # {}
    /\ age' = [s \in Sessions |-> IF s \in LongRunning THEN "covered" ELSE age[s]]
    /\ Jump(p, "stale_next")
    /\ call' = [call EXCEPT ![p] = [NoCall EXCEPT !.op = "stale", !.todo = todo]]
    /\ UNCHANGED <<rows, exclusive, texting, job, stalled, processed>>
    /\ NoFault

\* Mutant of StaleRead: only unmatched sessions are swept.
StaleReadUnmatched(p) == Sweep(p, {s \in LongRunning : volunteer[s] = None})

\* endStaleSessions calls getStaleSessions; a run that finds none changes nothing.
\* A late run and the next one may both find a session.
StaleRead(p) == Sweep(p, LongRunning)

StaleNext(p) ==
    /\ At(p, "stale_next")
    /\ \/ /\ Jump(p, "end_read")
          /\ \E s \in call[p].todo :
                call' = [call EXCEPT ![p].sid = s, ![p].todo = @ \ {s}]
       \/ /\ call[p].todo = {}
          /\ Done(p)
    /\ UNCHANGED <<rows, exclusive, texting, job, stalled, age, processed>>
    /\ NoFault

\* processSessionEnded, whose tasks are not modelled here: it runs, then
\* completes or throws.
ProcessTake(p, s) ==
    /\ job[<<"ProcessSessionEnded", s>>] = "queued"
    /\ Begin(p, "process", "process", None, s)
    /\ job' = [job EXCEPT ![<<"ProcessSessionEnded", s>>] = "active"]
    /\ UNCHANGED <<rows, exclusive, texting, stalled, age, processed>>
    /\ NoFault

ProcessFinish(p) ==
    /\ At(p, "process")
    /\ \/ /\ job' = [job EXCEPT ![<<"ProcessSessionEnded", call[p].sid>>] = "completed"]
          /\ processed' = [processed EXCEPT ![call[p].sid] = @ + 1]
       \/ /\ job' = [job EXCEPT ![<<"ProcessSessionEnded", call[p].sid>>] = "failed"]
          /\ UNCHANGED processed
    /\ Done(p)
    /\ UNCHANGED <<rows, exclusive, texting, stalled, age>>
    /\ NoFault

\* endSession is past its checks for session s, and will queue its job again.
InEndTail(p, s) ==
    /\ call[p].sid = s
    /\ \/ pc[p] \in {"end_meeting", "end_queue"}
       \/ pc[p] \in {"clear_get", "clear_del"} /\ call[p].next = "end_queue"
InEnd(p, s) == InEndTail(p, s) \/ (pc[p] = "end_commit" /\ call[p].sid = s)

\* The daily ClearBullJobsByStatus: one queue.clean for "completed", one for
\* "failed".  Bull takes the ids of the jobs it has forgotten again.
ClearJobs(p, status) ==
    /\ At(p, "idle")
    /\ status \in {job[j] : j \in Kinds \X Sessions}
    /\ job' = [j \in Kinds \X Sessions |->
                  IF job[j] = status THEN "cleaned" ELSE job[j]]
    /\ stalled' = {j \in stalled : job[j] # status}
    /\ lost' = lost \cup {"once"} \X
                  {s \in Sessions : /\ job[<<"ProcessSessionEnded", s>>] = status
                                    /\ \E q \in Procs : InEnd(q, s)}
    /\ UNCHANGED <<rows, exclusive, texting, age, pc, call, processed, faults>>

-----------------------------------------------------------------------------
\* Crashes.  The server or the worker that runs process p restarts; Bull puts
\* the job it ran back once, and fails it when it stalls again.

\* The Bull job a worker process runs.
JobOf(p) ==
    {j \in Kinds \X Sessions :
        /\ j[2] = call[p].sid
        /\ \/ j[1] = "EndUnmatchedSession" /\ call[p].op = "unmatched"
           \/ j[1] = "ProcessSessionEnded" /\ call[p].op = "process"}

\* The work that is lost when process p dies.
CutBy(p) ==
    {c \in {"start", "clear", "unmatched", "end", "sweep"} \X Sessions :
        \/ c[1] = "end"   /\ InEndTail(p, c[2])
        \/ c[1] = "start" /\ call[p].op = "start" /\ call[p].sid = c[2]
        \/ c[1] = "sweep" /\ call[p].op = "stale"
           /\ c[2] \in call[p].todo \cup {call[p].sid} /\ ~InEndTail(p, c[2])
        \/ c[1] \in {"clear", "unmatched"} /\ call[p].op = "unmatched" /\ call[p].sid = c[2]
           /\ <<"EndUnmatchedSession", c[2]>> \in stalled}

Crash(p) ==
    /\ pc[p] # "idle"
    /\ Done(p)
    /\ job' = [j \in Kinds \X Sessions |->
                  IF j \in JobOf(p)
                  THEN IF j \in stalled THEN "failed" ELSE "queued"
                  ELSE job[j]]
    /\ stalled' = stalled \cup JobOf(p)
    /\ Fault(CutBy(p))
    /\ UNCHANGED <<rows, exclusive, texting, age, processed>>

-----------------------------------------------------------------------------
\* The specification.

\* A request arrives.
Arrive(p) ==
    \/ \E u \in Students, v \in Volunteers \cup {None} : StartRead(p, u, v)
    \/ \E u \in Volunteers, s \in Sessions : JoinRead(p, u, s)
    \/ \E u \in Users, s \in Sessions : EndRequest(p, u, s)
    \/ \E u \in Students, s \in Sessions : BreakoutRead(p, u, s)

\* A worker takes a job.
Take(p) ==
    \/ \E s \in Sessions : UnmatchedRead(p, s) \/ UnmatchedReadFails(p, s)
    \/ \E s \in Sessions : ProcessTake(p, s)
    \/ StaleRead(p)
    \/ \E status \in {"completed", "failed"} : ClearJobs(p, status)

\* A process makes its next call, and the call works.
Continue(p) ==
    \/ StartCheckVolunteer(p) \/ \E s \in Sessions : StartInsert(p, s)
    \/ StartHide(p) \/ StartNotify(p) \/ StartQueue(p)
    \/ JoinClaim(p) \/ JoinReply(p)
    \/ ClearGet(p) \/ ClearDel(p)
    \/ BreakoutNotify(p)
    \/ EndRead(p) \/ EndRefused(p) \/ EndCommit(p) \/ EndMeeting(p) \/ EndQueue(p)
    \/ UnmatchedDecide(p) \/ StaleNext(p) \/ ProcessFinish(p)

\* A call fails or the process dies.
Fail(p) == ClearFails(p) \/ EndThrows(p) \/ EndMeetingFails(p) \/ Crash(p)

Next ==
    \/ \E p \in Requests : Arrive(p)
    \/ \E p \in Workers : Take(p)
    \/ \E p \in Procs : Continue(p)
    \/ \E p \in Procs : Fail(p)
    \/ \E s \in Sessions : GrowOld(s)

Spec == Init /\ [][Next]_vars

\* Node runs every request and job it has started, Bull hands every queued job to a
\* free worker, and time passes.  Nobody is obliged to send a request, nor the stale
\* sweep to come in time.
Fairness ==
    /\ \A p \in Procs : WF_vars(Continue(p))
    /\ \A s \in Sessions : WF_vars(\E p \in Workers : UnmatchedRead(p, s))
    /\ \A s \in Sessions : WF_vars(\E p \in Workers : ProcessTake(p, s))
    /\ \A s \in Sessions : WF_vars(GrowOld(s))

FairSpec == Spec /\ Fairness

-----------------------------------------------------------------------------
\* Properties.

\* Every variable has its type.
TypeOK ==
    /\ student   \in [Sessions -> Students \cup {None}]
    /\ volunteer \in [Sessions -> Volunteers \cup {None}]
    /\ ended     \in [Sessions -> BOOLEAN]
    /\ endedBy   \in [Sessions -> Users \cup {None}]
    /\ exclusive \in [Sessions -> Volunteers \cup {None}]
    /\ texting   \subseteq Sessions
    /\ job       \in [Kinds \X Sessions -> JobStates]
    /\ stalled   \subseteq Kinds \X Sessions
    /\ age       \in [Sessions -> Ages]
    /\ pc        \in [Procs -> Labels]
    /\ call      \in [Procs -> Calls]
    /\ faults    \in Nat
    /\ processed \in [Sessions -> Nat]
    /\ lost      \subseteq {"start", "clear", "unmatched", "end", "sweep", "once"} \X Sessions

\* The post-session work of an ended session (metrics, documents, reports,
\* emails) is queued, or some endSession call is still on its way to queue it;
\* only a crash or a failed Chime call after the commit can lose it.
EndedIsHandled ==
    \A s \in Sessions : ended[s] =>
        \/ job[<<"ProcessSessionEnded", s>>] # "absent"
        \/ \E p \in Procs : InEndTail(p, s)
        \/ <<"end", s>> \in lost

\* However many endSession calls race, Bull's jobId lets ProcessSessionEnded
\* complete once per session, also when a worker stalls in it; unless the daily
\* cleaning of the queue falls between two endSession calls that race.
ProcessedAtMostOnce ==
    \A s \in Sessions : processed[s] <= 1 \/ <<"once", s>> \in lost

\* An entry of the exclusive hash always has an owner that will remove it: the
\* startSession call that has yet to queue EndUnmatchedSession, or that job.
\* So it cannot outlive the job, whatever joins, ends and breakouts do.
ExclusiveIsOwned ==
    \A s \in Sessions : exclusive[s] # None =>
        \/ \E p \in Requests : call[p].op = "start" /\ call[p].sid = s
        \/ job[<<"EndUnmatchedSession", s>>] = "queued"
        \/ \E p \in Workers : /\ call[p].op = "unmatched"
                               /\ call[p].sid = s
                               /\ pc[p] \in {"clear_get", "clear_del"}
                               /\ call[p].next = "unmatched_decide"
        \/ {<<"start", s>>, <<"clear", s>>} \cap lost # {}

\* Regular text messages are queued only for a session that is not, and will
\* not become, the exclusive request of one volunteer: a breakout that did not
\* itself remove the entry must not start them.
TextedIsPublic ==
    \A s \in texting :
        /\ exclusive[s] = None
        /\ ~\E p \in Procs : call[p].sid = s /\ pc[p] = "start_hide"

\* A shadow-banned student's session is offered to nobody on any path (start,
\* breakout, join): no text, no exclusive entry, no volunteer but an admin.
ShadowBannedStayHidden ==
    \A s \in Sessions : student[s] \in ShadowBanned =>
        /\ s \notin texting
        /\ exclusive[s] = None
        /\ volunteer[s] \in Admins \cup {None}

\* The user recorded as having ended a session takes part in it, although the
\* check and the write are two steps and volunteers join in between.
RightfulEnd ==
    \A s \in Sessions : endedBy[s] # None => Participant(endedBy[s], s)

\* The rows behave as SessionRecord promises: in particular a volunteer once
\* assigned keeps the session, whoever else had read it unassigned, and a row
\* that has ended never becomes active again.
Record == INSTANCE SessionRecord WITH
              rec <- [s \in Sessions |-> [student  |-> student[s],
                                          volunteer |-> volunteer[s],
                                          closed    |-> ended[s],
                                          closedBy  |-> endedBy[s]]]
ImplementsRecord == Record!Spec

\* Every session that was started ends: 45 minutes later if it is unmatched, unless
\* that job was never queued or failed; and if not then, at the stale sweep, unless
\* none read it in its two hours or the one that did failed on it.
StartedEventuallyEnds ==
    \A s \in Sessions : Exists(s) ~>
        \/ ended[s]
        \/ /\ <<"sweep", s>> \in lost
           /\ volunteer[s] # None \/ {<<"start", s>>, <<"unmatched", s>>} \cap lost # {}

\* Every ended session has its post-session job run to completion or failure,
\* unless a fault cut endSession off before it queued the job.
EndedEventuallyProcessed ==
    \A s \in Sessions : ended[s] ~>
        \/ job[<<"ProcessSessionEnded", s>>] \in {"completed", "failed", "cleaned"}
        \/ <<"end", s>> \in lost

\* An exclusive request does not stay exclusive for ever.
ExclusiveEventuallyReleased ==
    \A s \in Sessions : exclusive[s] # None ~>
        \/ exclusive[s] = None
        \/ {<<"start", s>>, <<"clear", s>>} \cap lost # {}

-----------------------------------------------------------------------------
\* The inductive invariant behind the safety properties.

Row(s) == s \in Sessions /\ Exists(s)

\* Which labels an operation passes, with which arguments.
LocalsOf(p) ==
    LET c     == call[p]
        clear == pc[p] \in {"clear_get", "clear_del"}
        end   == \/ pc[p] \in {"end_read", "end_commit", "end_meeting", "end_queue"}
                 \/ clear /\ c.next = "end_queue"
    IN
    /\ pc[p] = "idle" <=> c.op = "none"
    /\ c.op = "start" =>
        /\ p \in Requests /\ c.user \in Students
        /\ \/ pc[p] \in {"start_check", "start_insert"} /\ c.sid = None
           \/ /\ pc[p] \in {"start_hide", "start_notify", "start_queue"}
              /\ Row(c.sid) /\ student[c.sid] = c.user
              /\ pc[p] = "start_hide" => c.want # None /\ c.user \notin ShadowBanned
    /\ c.op = "join" =>
        /\ Row(c.sid) /\ c.user \in Volunteers
        /\ student[c.sid] \in ShadowBanned => c.user \in Admins
        /\ pc[p] \in {"join_claim", "join_emit"} \/ (clear /\ c.next = "join_emit")
    /\ c.op = "breakout" =>
        /\ Row(c.sid) /\ c.user = student[c.sid] /\ c.next = "breakout_notify"
        /\ pc[p] = "breakout_notify" \/ (clear /\ ~c.cleared)
    /\ c.op = "end" => Row(c.sid) /\ end
    /\ c.op = "stale" => /\ c.user = None
                         /\ \A s \in c.todo : Row(s)
                         /\ pc[p] = "stale_next" \/ (Row(c.sid) /\ end)
    /\ c.op = "unmatched" =>
        /\ p \in Workers /\ Row(c.sid) /\ c.user = None
        /\ \/ end
           \/ clear /\ c.next = "unmatched_decide"
           \/ pc[p] = "unmatched_decide"
    /\ c.op = "process" => p \in Workers /\ Row(c.sid) /\ pc[p] = "process"

Locals == \A p \in Procs : LocalsOf(p)

\* Nothing refers to a session before its row is inserted.
Unborn == \A s \in Sessions : ~Exists(s) =>
    /\ volunteer[s] = None /\ ~ended[s] /\ endedBy[s] = None
    /\ exclusive[s] = None /\ s \notin texting /\ processed[s] = 0 /\ age[s] = "young"
    /\ \A k \in Kinds : job[<<k, s>>] = "absent"

\* One process per job and one startSession per session, and what the queue
\* holds while it runs.
JobsInStep ==
    /\ \A p \in Procs :
        /\ call[p].op = "unmatched" => job[<<"EndUnmatchedSession", call[p].sid>>] = "active"
        /\ call[p].op = "process" => job[<<"ProcessSessionEnded", call[p].sid>>] = "active"
        /\ call[p].op = "start" /\ call[p].sid # None
              => job[<<"EndUnmatchedSession", call[p].sid>>] = "absent"
    /\ \A p, q \in Procs :
        p # q /\ call[p].op = call[q].op /\ call[p].sid = call[q].sid
            => call[p].op \notin {"start", "unmatched", "process"} \/ call[p].sid = None
    /\ \A s \in Sessions :
        job[<<"ProcessSessionEnded", s>>] \in {"absent", "queued", "active"}
            => processed[s] = 0 \/ <<"once", s>> \in lost

\* Past its check, endSession works on a session that nobody had ended, or
\* that has ended; so it re-queues a forgotten job only if it saw it cleaned.
EndsInStep == \A s \in Sessions :
    /\ job[<<"ProcessSessionEnded", s>>] # "absent" => ended[s]
    /\ \A p \in Procs : InEndTail(p, s) => ended[s]
    /\ job[<<"ProcessSessionEnded", s>>] = "cleaned" =>
        <<"once", s>> \in lost \/ ~\E p \in Procs : InEnd(p, s)

\* A request that is exclusive, or has been cleared by a breakout, is past the
\* HSET of its startSession; one without a requested volunteer has no HSET.
HsetIsOnce ==
    \A p, q \in Procs :
        /\ call[p].op = "start" /\ call[p].sid # None /\ call[p].want = None
              => exclusive[call[p].sid] = None
        /\ pc[p] = "start_hide" => exclusive[call[p].sid] = None
        /\ pc[p] = "breakout_notify" /\ call[p].cleared =>
              /\ exclusive[call[p].sid] = None
              /\ ~(pc[q] = "start_hide" /\ call[q].sid = call[p].sid)

\* The participant check of endSession still holds when it writes.
EndersTakePart ==
    \A p \in Procs : pc[p] = "end_commit" /\ call[p].user # None
                       => Participant(call[p].user, call[p].sid)

IInv ==
    /\ TypeOK /\ Locals /\ Unborn /\ JobsInStep /\ EndsInStep /\ HsetIsOnce /\ EndersTakePart
    /\ EndedIsHandled /\ ProcessedAtMostOnce /\ ExclusiveIsOwned
    /\ TextedIsPublic /\ ShadowBannedStayHidden /\ RightfulEnd

-----------------------------------------------------------------------------
\* What the repository says of the program and the code does not do.

\* A volunteer whose join was answered with success is the session's volunteer
\* (joinSession: 'A volunteer has already joined the session.' otherwise).
AckedVolunteerIsAssigned ==
    [][\A p \in Requests : JoinReply(p)
                              => volunteer[call[p].sid] = call[p].user]_vars

\* endUnmatchedSession does not end a session that is fulfilled.
UnmatchedJobSparesMatched ==
    [][\A p \in Workers : call[p].op = "unmatched" /\ EndCommit(p)
                             => volunteer[call[p].sid] = None]_vars
=============================================================================
