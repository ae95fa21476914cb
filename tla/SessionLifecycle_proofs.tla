---------------------- MODULE SessionLifecycle_proofs ----------------------
(***************************************************************************)
(* Proofs about SessionLifecycle, for every number of users, sessions,     *)
(* requests, workers and faults.                                           *)
(***************************************************************************)
EXTENDS SessionLifecycle, TLAPS

-----------------------------------------------------------------------------
\* Typing.

LEMMA LabelFacts ==
    /\ "idle" \in Labels /\ "start_check" \in Labels /\ "start_insert" \in Labels
    /\ "start_hide" \in Labels /\ "start_notify" \in Labels
    /\ "start_queue" \in Labels /\ "join_claim" \in Labels
    /\ "join_emit" \in Labels /\ "clear_get" \in Labels /\ "clear_del" \in Labels
    /\ "breakout_notify" \in Labels /\ "unmatched_decide" \in Labels
    /\ "end_read" \in Labels /\ "end_commit" \in Labels
    /\ "end_meeting" \in Labels /\ "end_queue" \in Labels
    /\ "stale_next" \in Labels /\ "process" \in Labels
BY DEF Labels

LEMMA NoCallTyped == NoCall \in Calls
BY LabelFacts DEF NoCall, Calls, Ops

JobsType == [Kinds \X Sessions -> JobStates]

LEMMA AddedTyped ==
    ASSUME NEW jobs \in JobsType, NEW kind \in Kinds, NEW s \in Sessions
    PROVE  Added(jobs, kind, s) \in JobsType
BY DEF Added, JobStates, JobsType

LEMMA ReportedTyped ==
    ASSUME NEW jobs \in JobsType, NEW p \in Procs, call[p].sid \in Sessions,
           NEW outcome \in JobStates
    PROVE  Reported(jobs, p, outcome) \in JobsType
BY DEF Reported, Kinds, JobsType

\* The two variables of the processes keep their types.
ProcsTyped == pc \in [Procs -> Labels] /\ call \in [Procs -> Calls]

LEMMA DoneTyped ==
    ASSUME TypeOK, NEW p \in Procs, Done(p) PROVE ProcsTyped'
BY NoCallTyped, LabelFacts DEF Done, Jump, TypeOK, ProcsTyped

LEMMA GotoTyped ==
    ASSUME TypeOK, NEW p \in Procs, NEW label \in Labels, Goto(p, label)
    PROVE  ProcsTyped'
BY DEF Goto, Jump, TypeOK, ProcsTyped

LEMMA ClearTyped ==
    ASSUME TypeOK, NEW p \in Procs, NEW label \in Labels, Clear(p, label)
    PROVE  ProcsTyped'
<1>1. [call[p] EXCEPT !.next = label] \in Calls
  BY DEF TypeOK, Calls
<1>2. call' = [call EXCEPT ![p] = [call[p] EXCEPT !.next = label]]
  BY DEF Clear
<1>3. QED
  BY <1>1, <1>2, LabelFacts DEF Clear, Jump, TypeOK, ProcsTyped

LEMMA ReturnTyped ==
    ASSUME TypeOK, NEW p \in Procs, Return(p) PROVE ProcsTyped'
<1>1. CASE Done(p)
  BY <1>1, DoneTyped
<1>2. CASE ~Done(p)
  <2>1. [NoCall EXCEPT !.op = "stale", !.todo = call[p].todo] \in Calls
    BY NoCallTyped DEF TypeOK, Calls, Ops
  <2>2. QED
    BY <1>2, <2>1, LabelFacts DEF Return, Jump, TypeOK, ProcsTyped
<1>3. QED
  BY <1>1, <1>2

\* A process that is past reading its session works on a row.
LEMMA Sited ==
    ASSUME TypeOK, Locals, NEW p \in Procs,
           pc[p] \notin {"idle", "start_check", "start_insert", "stale_next"}
    PROVE  Row(call[p].sid)
BY DEF TypeOK, Locals, LocalsOf, Calls, Ops

\* The operation a label belongs to.
LEMMA OpAt ==
    ASSUME TypeOK, Locals, NEW p \in Procs
    PROVE  /\ pc[p] = "idle" => call[p].op = "none"
           /\ pc[p] \in {"start_check", "start_insert", "start_hide",
                         "start_notify", "start_queue"} => call[p].op = "start"
           /\ pc[p] \in {"join_claim", "join_emit"} => call[p].op = "join"
           /\ pc[p] = "breakout_notify" => call[p].op = "breakout"
           /\ pc[p] = "unmatched_decide" => call[p].op = "unmatched"
           /\ pc[p] = "stale_next" => call[p].op = "stale"
           /\ pc[p] = "process" => call[p].op = "process"
           /\ pc[p] \in {"end_read", "end_commit", "end_meeting", "end_queue"}
                => call[p].op \in {"end", "unmatched", "stale"}
           /\ pc[p] \in {"clear_get", "clear_del"}
                => call[p].op \in {"join", "breakout", "end", "unmatched", "stale"}
BY DEF TypeOK, Locals, LocalsOf, Calls, Ops

-----------------------------------------------------------------------------
\* The steps of one process.

Move(p) ==
    \/ p \in Requests /\ Arrive(p)
    \/ p \in Workers /\ Take(p)
    \/ Continue(p)
    \/ Fail(p)

\* A step of p leaves the other processes, and the rows there are, in place.
Frame(p) ==
    /\ \A q \in Procs : q # p => pc'[q] = pc[q] /\ call'[q] = call[q]
    /\ \A s \in Sessions : Exists(s) => student'[s] = student[s]

LEMMA MoveFrame ==
    ASSUME TypeOK, NEW p \in Procs, Move(p) PROVE Frame(p)
<1>1. CASE p \in Requests /\ Arrive(p)
  BY <1>1 DEF Arrive, StartRead, JoinRead, EndRequest, BreakoutRead, Begin,
              Jump, Frame, TypeOK, rows
<1>2. CASE p \in Workers /\ Take(p)
  BY <1>2 DEF Take, UnmatchedRead, UnmatchedReadFails, ProcessTake, StaleRead, Sweep,
              ClearJobs, Begin, Jump, Frame, TypeOK, rows
<1>3. CASE Continue(p)
  <2>1. CASE \/ StartCheckVolunteer(p) \/ \E s \in Sessions : StartInsert(p, s)
             \/ StartHide(p) \/ StartNotify(p) \/ StartQueue(p)
    BY <2>1 DEF StartCheckVolunteer, StartInsert, StartHide, StartNotify,
                StartQueue, Goto, Done, Jump, Frame, Exists, TypeOK, rows
  <2>2. CASE JoinClaim(p) \/ JoinReply(p) \/ ClearGet(p) \/ ClearDel(p) \/ BreakoutNotify(p)
    BY <2>2 DEF JoinClaim, JoinReply, ClearGet, ClearDel, BreakoutNotify,
                Clear, Goto, Done, Jump, Frame, TypeOK, rows
  <2>3. CASE EndRead(p) \/ EndRefused(p) \/ EndCommit(p) \/ EndMeeting(p) \/ EndQueue(p)
    BY <2>3 DEF EndRead, EndRefused, EndCommit, EndMeeting, EndQueue, Return,
                Clear, Goto, Done, Jump, Frame, TypeOK, rows
  <2>4. CASE UnmatchedDecide(p) \/ StaleNext(p) \/ ProcessFinish(p)
    BY <2>4 DEF UnmatchedDecide, StaleNext, ProcessFinish, Goto, Done, Jump,
                Frame, TypeOK, rows
  <2>5. QED
    BY <1>3, <2>1, <2>2, <2>3, <2>4 DEF Continue
<1>4. CASE Fail(p)
  BY <1>4 DEF Fail, ClearFails, EndThrows, EndMeetingFails, Crash, Return,
              Goto, Done, Jump, Frame, TypeOK, rows
<1>5. QED
  BY <1>1, <1>2, <1>3, <1>4 DEF Move

\* Or time passes.
LEMMA NextMoves ==
    ASSUME [Next]_vars, ~UNCHANGED vars
    PROVE  (\E p \in Procs : Move(p)) \/ (\E s \in Sessions : GrowOld(s))
BY DEF Next, Move, Procs

\* The type of job after a step that adds a job or reports an outcome.
LEMMA QueueTyped ==
    ASSUME TypeOK, NEW p \in Procs, call[p].sid \in Sessions,
           NEW kind \in Kinds, NEW outcome \in JobStates
    PROVE  /\ Added(job, kind, call[p].sid) \in JobsType
           /\ Reported(job, p, outcome) \in JobsType
           /\ Reported(Added(job, kind, call[p].sid), p, outcome) \in JobsType
<1>1. job \in JobsType
  BY DEF TypeOK, JobsType
<1>2. Added(job, kind, call[p].sid) \in JobsType
  BY <1>1, AddedTyped
<1>3. QED
  BY <1>1, <1>2, ReportedTyped

LEMMA TypeStep ==
    ASSUME TypeOK, Locals, NEW p \in Procs, Move(p) PROVE TypeOK'
<1> USE DisjointUsers, DisjointProcs, FaultBound, NoCallTyped, LabelFacts
<1>1. CASE p \in Requests /\ Arrive(p)
  <2>1. ASSUME NEW u \in Students, NEW v \in Volunteers \cup {None}, StartRead(p, u, v)
        PROVE  TypeOK'
    BY <2>1 DEF StartRead, Jump, NoFault, rows, TypeOK, Calls, Ops, Users
  <2>2. ASSUME NEW u \in Users, NEW s \in Sessions, JoinRead(p, u, s)
        PROVE  TypeOK'
    BY <2>2 DEF JoinRead, Begin, Jump, NoFault, rows, TypeOK, Calls, Ops
  <2>4. ASSUME NEW u \in Users, NEW s \in Sessions, EndRequest(p, u, s)
        PROVE  TypeOK'
    BY <2>4 DEF EndRequest, Begin, Jump, NoFault, rows, TypeOK, Calls, Ops
  <2>3. ASSUME NEW u \in Users, NEW s \in Sessions, BreakoutRead(p, u, s)
        PROVE  TypeOK'
    BY <2>3 DEF BreakoutRead, Jump, NoFault, rows, TypeOK, Calls, Ops
  <2>5. QED
    BY <1>1, <2>1, <2>2, <2>3, <2>4 DEF Arrive, Users
<1>2. CASE p \in Workers /\ Take(p)
  <2>1. ASSUME NEW s \in Sessions, UnmatchedRead(p, s) PROVE TypeOK'
    <3>1. [NoCall EXCEPT !.op = "unmatched", !.sid = s, !.next = "unmatched_decide",
                         !.seen = Fulfilled(s)] \in Calls
      BY DEF Calls, Ops, Fulfilled, TypeOK
    <3>2. ProcsTyped'
      BY <2>1, <3>1 DEF UnmatchedRead, Jump, ProcsTyped, TypeOK
    <3>3. QED
      BY <2>1, <3>2 DEF UnmatchedRead, TypeOK, ProcsTyped, NoFault, rows, JobStates
  <2>2. ASSUME NEW s \in Sessions, ProcessTake(p, s) PROVE TypeOK'
    <3>1. ProcsTyped'
      BY <2>2 DEF ProcessTake, Begin, Jump, ProcsTyped, TypeOK, Calls, Ops
    <3>2. QED
      BY <2>2, <3>1 DEF ProcessTake, TypeOK, ProcsTyped, NoFault, rows, JobStates
  <2>3. CASE StaleRead(p)
    <3>1. LongRunning \subseteq Sessions /\ age' \in [Sessions -> Ages]
      BY <2>3 DEF StaleRead, Sweep, LongRunning, TypeOK, Ages
    <3>2. [NoCall EXCEPT !.op = "stale", !.todo = LongRunning] \in Calls
      BY <3>1 DEF Calls, Ops
    <3>3. ProcsTyped'
      BY <2>3, <3>2 DEF StaleRead, Sweep, Jump, ProcsTyped, TypeOK
    <3>4. QED
      BY <2>3, <3>1, <3>3 DEF StaleRead, Sweep, TypeOK, ProcsTyped, NoFault, rows
  <2>6. ASSUME NEW s \in Sessions, UnmatchedReadFails(p, s) PROVE TypeOK'
    <3>1. job' \in JobsType
      BY <2>6 DEF UnmatchedReadFails, TypeOK, JobStates, JobsType
    <3>2. /\ lost' \subseteq {"start", "clear", "unmatched", "end", "sweep", "once"} \X Sessions
          /\ faults' \in Nat
      BY <2>6 DEF UnmatchedReadFails, Fault, TypeOK
    <3>3. QED
      BY <2>6, <3>1, <3>2 DEF UnmatchedReadFails, TypeOK, rows, JobsType
  <2>4. ASSUME NEW status \in {"completed", "failed"}, ClearJobs(p, status)
        PROVE  TypeOK'
    <3>1. job' \in JobsType /\ stalled' \subseteq Kinds \X Sessions
      BY <2>4 DEF ClearJobs, TypeOK, JobStates, JobsType
    <3>2. lost' \subseteq {"start", "clear", "unmatched", "end", "sweep", "once"} \X Sessions
      BY <2>4 DEF ClearJobs, TypeOK
    <3>3. QED
      BY <2>4, <3>1, <3>2 DEF ClearJobs, TypeOK, rows, JobsType
  <2>5. QED
    BY <1>2, <2>1, <2>2, <2>3, <2>4, <2>6 DEF Take
<1>3. CASE \/ StartCheckVolunteer(p) \/ JoinReply(p) \/ EndRead(p)
  BY <1>3, GotoTyped, DoneTyped
  DEF StartCheckVolunteer, JoinReply, EndRead, TypeOK, ProcsTyped, NoFault, rows
<1>4. ASSUME NEW s \in Sessions, StartInsert(p, s) PROVE TypeOK'
  <2>1. call[p].user \in Students
    BY <1>4, OpAt DEF StartInsert, At, Locals, LocalsOf
  <2>2. ProcsTyped'
    BY <1>4 DEF StartInsert, Jump, ProcsTyped, TypeOK, Calls
  <2>3. QED
    BY <1>4, <2>1, <2>2 DEF StartInsert, TypeOK, ProcsTyped, NoFault, rows
<1>5. CASE StartHide(p)
  <2>1. Row(call[p].sid) /\ call[p].want \in Volunteers
    BY <1>5, Sited, OpAt DEF StartHide, At, Locals, LocalsOf, TypeOK, Calls
  <2>2. QED
    BY <1>5, <2>1, GotoTyped DEF StartHide, TypeOK, ProcsTyped, NoFault, rows, Row
<1>6. CASE StartNotify(p) \/ BreakoutNotify(p)
  <2>1. Row(call[p].sid)
    BY <1>6, Sited DEF StartNotify, BreakoutNotify, At
  <2>2. ProcsTyped'
    BY <1>6, GotoTyped, DoneTyped DEF StartNotify, BreakoutNotify
  <2>3. QED
    BY <1>6, <2>1, <2>2 DEF StartNotify, BreakoutNotify, TypeOK, ProcsTyped, NoFault, rows, Row
<1>7. CASE \/ StartQueue(p) \/ EndRefused(p) \/ EndThrows(p)
           \/ EndMeetingFails(p) \/ EndQueue(p)
  <2>1. Row(call[p].sid)
    BY <1>7, Sited DEF StartQueue, EndRefused, EndThrows, EndMeetingFails, EndQueue, At
  <2>2. ProcsTyped'
    BY <1>7, DoneTyped, ReturnTyped
    DEF StartQueue, EndRefused, EndThrows, EndMeetingFails, EndQueue
  <2>3. job' \in JobsType
    BY <1>7, <2>1, QueueTyped DEF StartQueue, EndRefused, EndThrows,
       EndMeetingFails, EndQueue, Row, Kinds, JobStates
  <2>4. lost' \subseteq {"start", "clear", "unmatched", "end", "sweep", "once"} \X Sessions /\ faults' \in Nat
    BY <1>7, <2>1 DEF StartQueue, EndRefused, EndThrows, EndMeetingFails,
       EndQueue, NoFault, Fault, TypeOK, Row
  <2>5. QED
    BY <1>7, <2>2, <2>3, <2>4 DEF StartQueue, EndRefused, EndThrows,
       EndMeetingFails, EndQueue, TypeOK, ProcsTyped, rows, JobsType
<1>8. CASE JoinClaim(p)
  <2>1. Row(call[p].sid) /\ call[p].user \in Volunteers
    BY <1>8, Sited, OpAt DEF JoinClaim, At, Locals, LocalsOf
  <2>2. QED
    BY <1>8, <2>1, ClearTyped DEF JoinClaim, Claimed, TypeOK, ProcsTyped, NoFault, rows, Row
<1>9. CASE ClearGet(p) \/ ClearFails(p)
  <2>1. Row(call[p].sid)
    BY <1>9, Sited DEF ClearGet, ClearFails, At
  <2>2. ProcsTyped'
    BY <1>9, GotoTyped DEF ClearGet, ClearFails, TypeOK, Calls
  <2>3. QED
    BY <1>9, <2>1, <2>2 DEF ClearGet, ClearFails, TypeOK, ProcsTyped, NoFault, Fault, rows, Row
<1>10. CASE ClearDel(p)
  <2>1. Row(call[p].sid)
    BY <1>10, Sited DEF ClearDel, At
  <2>2. PICK removed \in BOOLEAN :
            call' = [call EXCEPT ![p] = [call[p] EXCEPT !.cleared = removed]]
    BY <1>10 DEF ClearDel
  <2>3. [call[p] EXCEPT !.cleared = removed] \in Calls /\ call[p].next \in Labels
    BY DEF TypeOK, Calls
  <2>4. ProcsTyped'
    BY <1>10, <2>2, <2>3 DEF ClearDel, Jump, TypeOK, ProcsTyped
  <2>5. QED
    BY <1>10, <2>1, <2>4 DEF ClearDel, TypeOK, ProcsTyped, NoFault, rows, Row
<1>11. CASE EndCommit(p)
  <2>1. Row(call[p].sid) /\ call[p].user \in Users \cup {None}
    BY <1>11, Sited DEF EndCommit, At, TypeOK, Calls
  <2>2. age' \in [Sessions -> Ages]
    BY <1>11 DEF EndCommit, TypeOK, Ages
  <2>3. QED
    BY <1>11, <2>1, <2>2, GotoTyped DEF EndCommit, TypeOK, ProcsTyped, NoFault, rows, Row
<1>12. CASE EndMeeting(p)
  BY <1>12, ClearTyped DEF EndMeeting, TypeOK, ProcsTyped, NoFault, rows
<1>13. CASE UnmatchedDecide(p)
  <2>1. Row(call[p].sid)
    BY <1>13, Sited DEF UnmatchedDecide, At
  <2>2. job \in JobsType /\ Reported(job, p, "completed") \in JobsType
    BY <2>1, QueueTyped DEF Row, Kinds, JobStates, TypeOK, JobsType
  <2>3. job' \in JobsType
    BY <1>13, <2>2 DEF UnmatchedDecide
  <2>4. QED
    BY <1>13, <2>3, DoneTyped, GotoTyped
    DEF UnmatchedDecide, TypeOK, ProcsTyped, NoFault, rows, JobsType
<1>14. CASE StaleNext(p)
  <2>1. ASSUME NEW s \in call[p].todo, Jump(p, "end_read"),
               call' = [call EXCEPT ![p].sid = s, ![p].todo = @ \ {s}]
        PROVE  ProcsTyped'
    <3>1. s \in Sessions /\ call[p].todo \ {s} \in SUBSET Sessions
      BY DEF TypeOK, Calls
    <3>2. [call[p] EXCEPT !.sid = s, !.todo = call[p].todo \ {s}] \in Calls
      BY <3>1 DEF TypeOK, Calls
    <3>3. call' = [call EXCEPT ![p] = [call[p] EXCEPT !.sid = s,
                                                     !.todo = call[p].todo \ {s}]]
      BY <2>1 DEF TypeOK, Calls
    <3>4. QED
      BY <2>1, <3>2, <3>3 DEF Jump, TypeOK, ProcsTyped
  <2>2. ProcsTyped'
    BY <1>14, <2>1, DoneTyped DEF StaleNext
  <2>3. QED
    BY <1>14, <2>2 DEF StaleNext, TypeOK, ProcsTyped, NoFault, rows
<1>15. CASE ProcessFinish(p)
  <2>1. Row(call[p].sid)
    BY <1>15, Sited DEF ProcessFinish, At
  <2>2. job' \in JobsType
    BY <1>15 DEF ProcessFinish, TypeOK, JobStates, JobsType
  <2>3. processed' \in [Sessions -> Nat]
    BY <1>15, <2>1 DEF ProcessFinish, TypeOK, Row
  <2>4. QED
    BY <1>15, <2>2, <2>3, DoneTyped
    DEF ProcessFinish, TypeOK, ProcsTyped, NoFault, rows, JobsType
<1>16. CASE Crash(p)
  <2>1. job' \in JobsType /\ stalled' \subseteq Kinds \X Sessions
    BY <1>16 DEF Crash, TypeOK, JobOf, JobStates, JobsType
  <2>2. QED
    BY <1>16, <2>1, DoneTyped DEF Crash, CutBy, TypeOK, ProcsTyped, Fault, rows, JobsType
<1>17. QED
  BY <1>1, <1>2, <1>3, <1>4, <1>5, <1>6, <1>7, <1>8, <1>9, <1>10, <1>11, <1>12,
     <1>13, <1>14, <1>15, <1>16 DEF Move, Continue, Fail

-----------------------------------------------------------------------------
\* Where a process stands.

LEMMA LocalsFrame ==
    ASSUME TypeOK, Locals, NEW p \in Procs, Frame(p), LocalsOf(p)'
    PROVE  Locals'
<1> SUFFICES ASSUME NEW q \in Procs, q # p PROVE LocalsOf(q)'
  BY DEF Locals
<1>1. pc'[q] = pc[q] /\ call'[q] = call[q] /\ LocalsOf(q) /\ call[q] \in Calls
  BY DEF Frame, Locals, TypeOK
<1>2. \A s \in Sessions : Row(s) => Row(s)' /\ student'[s] = student[s]
  BY DEF Frame, Row, Exists
<1>3. QED
  BY <1>1, <1>2 DEF LocalsOf, Calls, Row

\* endSession returns in order.
LEMMA ReturnLocals ==
    ASSUME TypeOK, Locals, NEW p \in Procs, Return(p),
           call[p].op \in {"end", "unmatched", "stale"}, UNCHANGED student
    PROVE  LocalsOf(p)'
<1>1. LocalsOf(p) /\ call[p] \in Calls /\ \A s \in Sessions : Row(s) => Row(s)'
  BY DEF Locals, TypeOK, Row, Exists
<1>2. CASE call[p].op = "stale"
  <2>1. /\ call'[p] = [NoCall EXCEPT !.op = "stale", !.todo = call[p].todo]
        /\ pc'[p] = "stale_next"
    BY <1>2 DEF Return, Jump, TypeOK
  <2>2. /\ call'[p].op = "stale" /\ call'[p].user = None
        /\ call'[p].todo = call[p].todo
    BY <2>1 DEF NoCall
  <2>3. QED
    BY <1>1, <1>2, <2>1, <2>2 DEF LocalsOf, Calls
<1>3. CASE call[p].op # "stale"
  <2>1. call'[p] = NoCall /\ pc'[p] = "idle"
    BY <1>3 DEF Return, Done, Jump, TypeOK
  <2>2. QED
    BY <2>1 DEF LocalsOf, NoCall
<1>4. QED
  BY <1>2, <1>3

LEMMA LocalsStep ==
    ASSUME TypeOK, Locals, Unborn, NEW p \in Procs, Move(p) PROVE Locals'
<1> USE DisjointUsers, DisjointProcs
<1> SUFFICES LocalsOf(p)'
  BY MoveFrame, LocalsFrame
<1>0. LocalsOf(p) /\ call[p] \in Calls /\ pc[p] \in Labels
  BY DEF Locals, TypeOK
<1>1. CASE p \in Requests /\ Arrive(p)
  <2>1. ASSUME NEW u \in Students, NEW v \in Volunteers \cup {None}, StartRead(p, u, v)
        PROVE  LocalsOf(p)'
    BY <1>1, <2>1 DEF StartRead, LocalsOf, TypeOK, Jump, NoCall
  <2>2. ASSUME NEW u \in Volunteers, NEW s \in Sessions, JoinRead(p, u, s)
        PROVE  LocalsOf(p)'
    BY <1>1, <2>2 DEF JoinRead, CanJoin, LocalsOf, TypeOK, Begin, Jump, NoCall,
                      rows, Row, Exists
  <2>3. ASSUME NEW u \in Users, NEW s \in Sessions, EndRequest(p, u, s)
        PROVE  LocalsOf(p)'
    BY <1>1, <2>3 DEF EndRequest, LocalsOf, TypeOK, Begin, Jump, NoCall, rows, Row, Exists
  <2>4. ASSUME NEW u \in Students, NEW s \in Sessions, BreakoutRead(p, u, s)
        PROVE  LocalsOf(p)'
    BY <1>1, <2>4 DEF BreakoutRead, LocalsOf, TypeOK, Jump, NoCall, rows, Row, Exists
  <2>5. QED
    BY <1>1, <2>1, <2>2, <2>3, <2>4 DEF Arrive
<1>2. ASSUME p \in Workers, NEW s \in Sessions,
             UnmatchedRead(p, s) \/ ProcessTake(p, s)
      PROVE  LocalsOf(p)'
  <2>1. Row(s) /\ Row(s)'
    BY <1>2 DEF UnmatchedRead, ProcessTake, Unborn, Kinds, Row, Exists, rows
  <2>2. CASE UnmatchedRead(p, s)
    BY <1>2, <2>1, <2>2 DEF UnmatchedRead, LocalsOf, TypeOK, Jump, NoCall
  <2>3. CASE ProcessTake(p, s)
    BY <1>2, <2>1, <2>3 DEF ProcessTake, LocalsOf, TypeOK, Begin, Jump, NoCall
  <2>4. QED
    BY <1>2, <2>2, <2>3
<1>3. CASE StaleRead(p)
  <2>1. \A s \in LongRunning : Row(s) /\ Row(s)'
    BY <1>3 DEF StaleRead, Sweep, LongRunning, Unborn, Row, Exists, rows
  <2>2. /\ pc'[p] = "stale_next" /\ call'[p].op = "stale" /\ call'[p].user = None
        /\ call'[p].todo = LongRunning
    BY <1>3 DEF StaleRead, Sweep, Jump, TypeOK, NoCall
  <2>3. QED
    BY <2>1, <2>2 DEF LocalsOf
<1>16. ASSUME NEW s \in Sessions, UnmatchedReadFails(p, s) PROVE LocalsOf(p)'
  BY <1>0, <1>16 DEF UnmatchedReadFails, LocalsOf, Row, Exists, rows
<1>4. CASE \/ StartCheckVolunteer(p) \/ \E s \in Sessions : StartInsert(p, s)
           \/ StartHide(p) \/ StartNotify(p) \/ StartQueue(p)
  <2>1. CASE StartCheckVolunteer(p) \/ StartQueue(p)
    BY <1>0, <2>1, OpAt DEF StartCheckVolunteer, StartQueue, LocalsOf, TypeOK, Calls, At,
       Jump, Goto, Done, NoCall, rows, Row, Exists
  <2>2. CASE StartHide(p) \/ StartNotify(p)
    BY <1>0, <2>2, OpAt DEF StartHide, StartNotify, LocalsOf, TypeOK, Calls, At, Jump,
       Goto, rows, Row, Exists
  <2>3. ASSUME NEW s \in Sessions, StartInsert(p, s) PROVE LocalsOf(p)'
    BY <1>0, <2>3, OpAt DEF StartInsert, LocalsOf, TypeOK, Calls, At, Jump, Row, Exists
  <2>4. QED
    BY <1>4, <2>1, <2>2, <2>3
<1>5. CASE JoinReply(p) \/ BreakoutNotify(p)
  BY <1>5 DEF JoinReply, BreakoutNotify, LocalsOf, TypeOK, Jump, Done, NoCall
<1>6. CASE JoinClaim(p)
  BY <1>0, <1>6, OpAt DEF JoinClaim, LocalsOf, TypeOK, Calls, At, Jump, Clear,
     rows, Row, Exists
<1>7. CASE ClearGet(p) \/ ClearFails(p)
  BY <1>0, <1>7, OpAt DEF ClearGet, ClearFails, LocalsOf, TypeOK, Calls, At,
     Jump, Goto, rows, Row, Exists
<1>8. CASE ClearDel(p)
  BY <1>0, <1>8, OpAt DEF ClearDel, LocalsOf, TypeOK, Calls, At, Jump, rows,
     Row, Exists
<1>9. CASE EndRead(p) \/ EndCommit(p)
  BY <1>0, <1>9, OpAt DEF EndRead, EndCommit, LocalsOf, TypeOK, Calls, At, Jump,
     Goto, rows, Row, Exists
<1>10. CASE EndMeeting(p)
  BY <1>0, <1>10, OpAt DEF EndMeeting, LocalsOf, TypeOK, Calls, At, Jump, Clear,
     rows, Row, Exists
<1>11. CASE EndRefused(p) \/ EndThrows(p) \/ EndMeetingFails(p) \/ EndQueue(p)
  BY <1>11, OpAt, ReturnLocals
  DEF EndRefused, EndThrows, EndMeetingFails, EndQueue, At, rows
<1>12. CASE UnmatchedDecide(p) \/ ProcessFinish(p) \/ Crash(p)
  BY <1>0, <1>12, OpAt DEF UnmatchedDecide, ProcessFinish, Crash, LocalsOf,
     TypeOK, Calls, At, Jump, Goto, Done, NoCall, rows, Row, Exists
<1>13. CASE StaleNext(p)
  <2>1. /\ call[p].op = "stale" /\ call[p].user = None
        /\ \A s \in call[p].todo : Row(s) /\ Row(s)'
    BY <1>0, <1>13, OpAt DEF StaleNext, At, LocalsOf, rows, Row, Exists
  <2>2. ASSUME NEW s \in call[p].todo, Jump(p, "end_read"),
               call' = [call EXCEPT ![p].sid = s, ![p].todo = @ \ {s}]
        PROVE  LocalsOf(p)'
    <3>1. /\ pc'[p] = "end_read" /\ call'[p].sid = s /\ call'[p].op = "stale"
          /\ call'[p].user = None /\ call'[p].todo = call[p].todo \ {s}
      BY <1>0, <2>1, <2>2 DEF Jump, TypeOK, Calls
    <3>2. QED
      BY <2>1, <3>1 DEF LocalsOf
  <2>3. ASSUME Done(p) PROVE LocalsOf(p)'
    BY <2>3 DEF Done, Jump, TypeOK, LocalsOf, NoCall
  <2>4. QED
    BY <1>13, <2>2, <2>3 DEF StaleNext
<1>14. ASSUME NEW status \in {"completed", "failed"}, ClearJobs(p, status)
       PROVE  LocalsOf(p)'
  BY <1>0, <1>14 DEF ClearJobs, LocalsOf, Row, Exists, rows
<1>15. QED
  BY <1>1, <1>2, <1>3, <1>4, <1>5, <1>6, <1>7, <1>8, <1>9, <1>10, <1>11, <1>12,
     <1>13, <1>14, <1>16 DEF Move, Take, Continue, Fail

-----------------------------------------------------------------------------
\* What queue.add and the job's outcome change, entry by entry.
LEMMA AddedAt ==
    ASSUME NEW jobs \in JobsType, NEW kind \in Kinds, NEW s \in Sessions,
           NEW k \in Kinds, NEW t \in Sessions
    PROVE  Added(jobs, kind, s)[<<k, t>>] =
               IF k = kind /\ t = s /\ jobs[<<k, t>>] \in {"absent", "cleaned"}
               THEN "queued" ELSE jobs[<<k, t>>]
BY DEF Added, JobsType

LEMMA ReportedAt ==
    ASSUME NEW jobs \in JobsType, NEW p \in Procs, NEW outcome \in JobStates,
           NEW k \in Kinds, NEW t \in Sessions
    PROVE  Reported(jobs, p, outcome)[<<k, t>>] =
               IF /\ call[p].op = "unmatched" /\ call[p].sid = t
                  /\ k = "EndUnmatchedSession"
               THEN outcome ELSE jobs[<<k, t>>]
BY DEF Reported, JobsType

\* A process touches only its own session's jobs.
LEMMA JobsElsewhere ==
    ASSUME TypeOK, NEW p \in Procs, call[p].sid \in Sessions,
           NEW kind \in Kinds, NEW outcome \in JobStates,
           job' \in {Added(job, kind, call[p].sid), Reported(job, p, outcome),
                    Reported(Added(job, kind, call[p].sid), p, outcome)},
           NEW k \in Kinds, NEW t \in Sessions, t # call[p].sid
    PROVE  job'[<<k, t>>] = job[<<k, t>>]
<1>1. job \in JobsType /\ Added(job, kind, call[p].sid) \in JobsType
  BY AddedTyped DEF TypeOK, JobsType
<1>2. /\ Added(job, kind, call[p].sid)[<<k, t>>] = job[<<k, t>>]
      /\ Reported(job, p, outcome)[<<k, t>>] = job[<<k, t>>]
      /\ Reported(Added(job, kind, call[p].sid), p, outcome)[<<k, t>>]
            = Added(job, kind, call[p].sid)[<<k, t>>]
  BY <1>1, AddedAt, ReportedAt
<1>3. QED
  BY <1>2

\* A crash gives back the job its process ran, and no other.
Runs(p, k, t) ==
    /\ call[p].sid = t
    /\ \/ k = "EndUnmatchedSession" /\ call[p].op = "unmatched"
       \/ k = "ProcessSessionEnded" /\ call[p].op = "process"

LEMMA CrashAt ==
    ASSUME TypeOK, NEW p \in Procs, Crash(p), NEW k \in Kinds, NEW t \in Sessions
    PROVE  /\ Runs(p, k, t) => job'[<<k, t>>] \in {"failed", "queued"}
           /\ ~Runs(p, k, t) => job'[<<k, t>>] = job[<<k, t>>]
<1>1. <<k, t>> \in JobOf(p) <=> Runs(p, k, t)
  BY DEF JobOf, Runs
<1>2. QED
  BY <1>1 DEF Crash

-----------------------------------------------------------------------------
\* Nothing refers to a session that has no row.

LEMMA UnbornStep ==
    ASSUME TypeOK, Locals, Unborn, NEW p \in Procs, Move(p) PROVE Unborn'
<1> USE DisjointUsers DEF Unborn, Exists, rows
<1>1. CASE p \in Requests /\ Arrive(p)
  <2>1. UNCHANGED <<rows, exclusive, texting, job, age, processed>>
    BY <1>1 DEF Arrive, StartRead, JoinRead, EndRequest, BreakoutRead
  <2>2. QED
    BY <2>1
<1>2. CASE StaleRead(p)
  BY <1>2 DEF StaleRead, Sweep, LongRunning
<1>3. ASSUME NEW s \in Sessions, UnmatchedRead(p, s) \/ UnmatchedReadFails(p, s) PROVE Unborn'
  BY <1>3 DEF UnmatchedRead, UnmatchedReadFails, TypeOK, Kinds
<1>4. ASSUME NEW s \in Sessions, ProcessTake(p, s) PROVE Unborn'
  BY <1>4 DEF ProcessTake, TypeOK, Kinds
<1>5. CASE \/ StartCheckVolunteer(p) \/ JoinReply(p) \/ ClearGet(p) \/ ClearFails(p)
           \/ EndRead(p) \/ EndMeeting(p) \/ StaleNext(p)
  BY <1>5 DEF StartCheckVolunteer, JoinReply, ClearGet, ClearFails, EndRead,
              EndMeeting, StaleNext
<1>6. ASSUME NEW s \in Sessions, StartInsert(p, s) PROVE Unborn'
  BY <1>6, OpAt DEF StartInsert, At, Locals, LocalsOf, TypeOK
<1>7. CASE \/ StartHide(p) \/ StartNotify(p) \/ JoinClaim(p) \/ ClearDel(p)
           \/ BreakoutNotify(p) \/ EndCommit(p)
  BY <1>7, Sited DEF StartHide, StartNotify, JoinClaim, Claimed, ClearDel,
     BreakoutNotify, EndCommit, At, Row, TypeOK
<1>8. CASE \/ StartQueue(p) \/ EndRefused(p) \/ EndThrows(p)
           \/ EndMeetingFails(p) \/ EndQueue(p) \/ UnmatchedDecide(p)
  <2>1. Row(call[p].sid)
    BY <1>8, Sited DEF StartQueue, EndRefused, EndThrows, EndMeetingFails,
       EndQueue, UnmatchedDecide, At
  <2>2. \A k \in Kinds, t \in Sessions :
            t # call[p].sid => job'[<<k, t>>] = job[<<k, t>>]
    BY <1>8, <2>1, JobsElsewhere DEF StartQueue, EndRefused, EndThrows,
       EndMeetingFails, EndQueue, UnmatchedDecide, Row, Kinds, JobStates
  <2>3. QED
    BY <1>8, <2>1, <2>2 DEF StartQueue, EndRefused, EndThrows,
       EndMeetingFails, EndQueue, UnmatchedDecide, Row
<1>9. CASE ProcessFinish(p)
  <2>1. Row(call[p].sid)
    BY <1>9, Sited DEF ProcessFinish, At
  <2>2. \A t \in Sessions : t # call[p].sid =>
            /\ \A k \in Kinds : job'[<<k, t>>] = job[<<k, t>>]
            /\ processed'[t] = processed[t]
    BY <1>9, <2>1 DEF ProcessFinish, Row, TypeOK, Kinds
  <2>3. QED
    BY <1>9, <2>1, <2>2 DEF ProcessFinish, Row
<1>10. CASE Crash(p)
  <2>1. \A k \in Kinds, t \in Sessions : Runs(p, k, t) => Row(t)
    BY <1>10, Sited, OpAt DEF Crash, Runs, Locals, LocalsOf
  <2>2. \A k \in Kinds, t \in Sessions : ~Row(t) => job'[<<k, t>>] = job[<<k, t>>]
    BY <1>10, <2>1, CrashAt
  <2>3. UNCHANGED <<rows, exclusive, texting, processed, age>>
    BY <1>10 DEF Crash
  <2>4. QED
    BY <2>2, <2>3 DEF Row
<1>11. ASSUME NEW status \in {"completed", "failed"}, ClearJobs(p, status)
       PROVE  Unborn'
  BY <1>11 DEF ClearJobs
<1>12. QED
  BY <1>1, <1>2, <1>3, <1>4, <1>5, <1>6, <1>7, <1>8, <1>9, <1>10, <1>11
  DEF Move, Take, Continue, Fail

\* The ways in which a step changes an entry of the queue.
LEMMA JobMoves ==
    ASSUME TypeOK, Locals, NEW p \in Procs, Move(p),
           NEW k \in Kinds, NEW t \in Sessions
    PROVE  \/ job'[<<k, t>>] = job[<<k, t>>]
           \/ /\ Runs(p, k, t) /\ call'[p] = NoCall
              /\ job'[<<k, t>>] \in {"queued", "completed", "failed"}
           \/ /\ job[<<k, t>>] \in {"absent", "cleaned"} /\ job'[<<k, t>>] = "queued"
              /\ call[p].sid = t
              /\ k = "EndUnmatchedSession" => StartQueue(p)
              /\ k = "ProcessSessionEnded" => EndQueue(p)
           \/ /\ job[<<k, t>>] \in {"completed", "failed"}
              /\ job'[<<k, t>>] = "cleaned"
              /\ \E status \in {"completed", "failed"} : ClearJobs(p, status)
           \/ /\ job[<<k, t>>] = "queued" /\ job'[<<k, t>>] = "active"
              /\ k = "EndUnmatchedSession" => UnmatchedRead(p, t)
              /\ k = "ProcessSessionEnded" => ProcessTake(p, t)
           \/ /\ k = "EndUnmatchedSession" /\ UnmatchedReadFails(p, t)
              /\ job[<<k, t>>] = "queued" /\ job'[<<k, t>>] = "failed"
<1> DEFINE Changed == ~(job'[<<k, t>>] = job[<<k, t>>])
<1> SUFFICES ASSUME Changed
             PROVE  \/ /\ Runs(p, k, t) /\ call'[p] = NoCall
                       /\ job'[<<k, t>>] \in {"queued", "completed", "failed"}
                    \/ /\ job[<<k, t>>] \in {"absent", "cleaned"} /\ job'[<<k, t>>] = "queued"
                       /\ call[p].sid = t
                       /\ k = "EndUnmatchedSession" => StartQueue(p)
                       /\ k = "ProcessSessionEnded" => EndQueue(p)
                    \/ /\ job[<<k, t>>] \in {"completed", "failed"}
                       /\ job'[<<k, t>>] = "cleaned"
                       /\ \E status \in {"completed", "failed"} : ClearJobs(p, status)
                    \/ /\ job[<<k, t>>] = "queued" /\ job'[<<k, t>>] = "active"
                       /\ k = "EndUnmatchedSession" => UnmatchedRead(p, t)
                       /\ k = "ProcessSessionEnded" => ProcessTake(p, t)
                    \/ /\ k = "EndUnmatchedSession" /\ UnmatchedReadFails(p, t)
                       /\ job[<<k, t>>] = "queued" /\ job'[<<k, t>>] = "failed"
  OBVIOUS
<1>0. job \in JobsType
  BY DEF TypeOK, JobsType
<1>1. ~(p \in Requests /\ Arrive(p))
  BY DEF Arrive, StartRead, JoinRead, EndRequest, BreakoutRead
<1>2. CASE p \in Workers /\ Take(p)
  <2>1. ~StaleRead(p)
    BY DEF StaleRead, Sweep
  <2>6. ASSUME NEW s \in Sessions, UnmatchedReadFails(p, s)
        PROVE  s = t /\ k = "EndUnmatchedSession" /\ job[<<k, t>>] = "queued"
               /\ job'[<<k, t>>] = "failed"
    BY <2>6 DEF UnmatchedReadFails, TypeOK
  <2>2. ASSUME NEW s \in Sessions, UnmatchedRead(p, s)
        PROVE  s = t /\ k = "EndUnmatchedSession" /\ job[<<k, t>>] = "queued"
               /\ job'[<<k, t>>] = "active"
    BY <2>2 DEF UnmatchedRead, TypeOK
  <2>3. ASSUME NEW s \in Sessions, ProcessTake(p, s)
        PROVE  s = t /\ k = "ProcessSessionEnded" /\ job[<<k, t>>] = "queued"
               /\ job'[<<k, t>>] = "active"
    BY <2>3 DEF ProcessTake, TypeOK
  <2>4. ASSUME NEW status \in {"completed", "failed"}, ClearJobs(p, status)
        PROVE  job[<<k, t>>] = status /\ job'[<<k, t>>] = "cleaned"
    BY <2>4 DEF ClearJobs
  <2>5. QED
    BY <1>2, <2>1, <2>2, <2>3, <2>4, <2>6 DEF Take
<1>3. CASE StartQueue(p)
  <2>1. Row(call[p].sid)
    BY <1>3, Sited DEF StartQueue, At
  <2>2. QED
    BY <1>0, <1>3, <2>1, AddedAt DEF StartQueue, Row, Kinds
<1>4. CASE EndRefused(p) \/ EndThrows(p) \/ EndMeetingFails(p) \/ UnmatchedDecide(p)
  <2>1. Runs(p, k, t) /\ job'[<<k, t>>] \in {"completed", "failed"}
    BY <1>0, <1>4, ReportedAt DEF EndRefused, EndThrows, EndMeetingFails,
       UnmatchedDecide, Runs, JobStates
  <2>2. call[p].op \in {"unmatched", "process"}
    BY <2>1 DEF Runs
  <2>3. call'[p] = NoCall
    BY <1>4, <2>1, <2>2 DEF EndRefused, EndThrows, EndMeetingFails,
       UnmatchedDecide, Return, Done, TypeOK
  <2>4. QED
    BY <2>1, <2>3
<1>5. CASE EndQueue(p)
  <2>1. Row(call[p].sid) /\ "completed" \in JobStates /\ "ProcessSessionEnded" \in Kinds
    BY <1>5, Sited DEF EndQueue, At, JobStates, Kinds
  <2>2. Added(job, "ProcessSessionEnded", call[p].sid) \in JobsType
    BY <1>0, <2>1, AddedTyped DEF Row
  <2>3. CASE Runs(p, k, t) /\ k = "EndUnmatchedSession"
    <3>1. job'[<<k, t>>] = "completed"
      BY <1>5, <2>1, <2>2, <2>3, ReportedAt DEF EndQueue, Runs
    <3>2. QED
      BY <1>5, <2>3, <3>1 DEF EndQueue, Runs, Return, Done, TypeOK
  <2>4. CASE ~(Runs(p, k, t) /\ k = "EndUnmatchedSession")
    <3>1. job'[<<k, t>>] = Added(job, "ProcessSessionEnded", call[p].sid)[<<k, t>>]
      BY <1>5, <2>1, <2>2, <2>4, ReportedAt DEF EndQueue, Runs
    <3>2. QED
      BY <1>0, <1>5, <2>1, <3>1, AddedAt DEF Row
  <2>5. QED
    BY <2>3, <2>4
<1>6. CASE ProcessFinish(p)
  <2>1. Runs(p, k, t) /\ job'[<<k, t>>] \in {"completed", "failed"}
    BY <1>6, OpAt DEF ProcessFinish, At, Runs, TypeOK
  <2>2. QED
    BY <1>6, <2>1 DEF ProcessFinish, Done, TypeOK
<1>7. CASE Crash(p)
  <2>1. Runs(p, k, t) /\ job'[<<k, t>>] \in {"queued", "failed"}
    BY <1>7, CrashAt
  <2>2. QED
    BY <1>7, <2>1 DEF Crash, Done, TypeOK
<1>8. ~(\/ StartCheckVolunteer(p) \/ \E s \in Sessions : StartInsert(p, s)
        \/ StartHide(p) \/ StartNotify(p) \/ JoinClaim(p) \/ JoinReply(p)
        \/ ClearGet(p) \/ ClearDel(p) \/ ClearFails(p) \/ BreakoutNotify(p)
        \/ EndRead(p) \/ EndCommit(p) \/ EndMeeting(p) \/ StaleNext(p))
  BY DEF StartCheckVolunteer, StartInsert, StartHide, StartNotify, JoinClaim,
     JoinReply, ClearGet, ClearDel, ClearFails, BreakoutNotify, EndRead,
     EndCommit, EndMeeting, StaleNext
<1>9. QED
  BY <1>1, <1>2, <1>3, <1>4, <1>5, <1>6, <1>7, <1>8 DEF Move, Continue, Fail

\* The calls that own a job: how a process comes to one.
Owner == {"start", "unmatched", "process"}

LEMMA CallMoves ==
    ASSUME TypeOK, Locals, NEW p \in Procs, Move(p)
    PROVE  \/ call'[p].op \notin Owner
           \/ /\ call'[p].op = call[p].op /\ call'[p].sid = call[p].sid
              /\ call'[p].want = call[p].want
           \/ call'[p].op = "start" /\ call'[p].sid = None
           \/ \E s \in Sessions : /\ StartInsert(p, s)
                                  /\ call'[p].op = "start" /\ call'[p].sid = s
           \/ \E s \in Sessions : /\ UnmatchedRead(p, s)
                                  /\ call'[p].op = "unmatched" /\ call'[p].sid = s
           \/ \E s \in Sessions : /\ ProcessTake(p, s)
                                  /\ call'[p].op = "process" /\ call'[p].sid = s
<1> USE DEF Owner
<1>0. call[p] \in Calls
  BY DEF TypeOK
<1>1. ASSUME NEW u \in Students, NEW v \in Volunteers \cup {None}, StartRead(p, u, v)
      PROVE  call'[p].op = "start" /\ call'[p].sid = None
  BY <1>1 DEF StartRead, TypeOK, NoCall
<1>2. ASSUME NEW u \in Users, NEW s \in Sessions,
             JoinRead(p, u, s) \/ EndRequest(p, u, s) \/ BreakoutRead(p, u, s)
      PROVE  call'[p].op \notin Owner
  <2>1. CASE JoinRead(p, u, s)
    BY <2>1 DEF JoinRead, Begin, TypeOK, NoCall
  <2>2. CASE EndRequest(p, u, s)
    BY <2>2 DEF EndRequest, Begin, TypeOK, NoCall
  <2>3. CASE BreakoutRead(p, u, s)
    BY <2>3 DEF BreakoutRead, TypeOK, NoCall
  <2>4. QED
    BY <1>2, <2>1, <2>2, <2>3
<1>3. CASE StaleRead(p)
  <2>1. call'[p].op \notin Owner
    BY <1>3 DEF StaleRead, Sweep, TypeOK, NoCall
  <2>2. QED
    BY <2>1
<1>4. ASSUME NEW s \in Sessions, UnmatchedRead(p, s)
      PROVE  call'[p].op = "unmatched" /\ call'[p].sid = s
  BY <1>4 DEF UnmatchedRead, TypeOK, NoCall
<1>5. ASSUME NEW s \in Sessions, ProcessTake(p, s)
      PROVE  call'[p].op = "process" /\ call'[p].sid = s
  BY <1>5 DEF ProcessTake, Begin, TypeOK, NoCall
<1>6. ASSUME NEW s \in Sessions, StartInsert(p, s)
      PROVE  call'[p].op = "start" /\ call'[p].sid = s
  BY <1>0, <1>6, OpAt DEF StartInsert, At, TypeOK, Calls
<1>7. CASE \/ StartCheckVolunteer(p) \/ StartHide(p) \/ StartNotify(p)
           \/ StartQueue(p) \/ JoinReply(p) \/ ClearGet(p) \/ ClearFails(p)
           \/ BreakoutNotify(p) \/ EndRead(p) \/ EndCommit(p)
           \/ UnmatchedDecide(p) \/ ProcessFinish(p) \/ Crash(p)
  <2>1. UNCHANGED call \/ call'[p] = NoCall
    BY <1>7 DEF StartCheckVolunteer, StartHide, StartNotify, StartQueue,
       JoinReply, ClearGet, ClearFails, BreakoutNotify, EndRead, EndCommit,
       UnmatchedDecide, ProcessFinish, Crash, Goto, Done, TypeOK
  <2>2. \/ /\ call'[p].op = call[p].op /\ call'[p].sid = call[p].sid
           /\ call'[p].want = call[p].want
        \/ call'[p].op = "none"
    BY <2>1 DEF NoCall
  <2>3. QED
    BY <2>2
<1>8. CASE JoinClaim(p) \/ ClearDel(p) \/ EndMeeting(p)
  BY <1>0, <1>8 DEF JoinClaim, ClearDel, EndMeeting, Clear, TypeOK, Calls
<1>9. CASE EndRefused(p) \/ EndThrows(p) \/ EndMeetingFails(p) \/ EndQueue(p)
  <2>1. call'[p] = NoCall \/ call'[p] = [NoCall EXCEPT !.op = "stale", !.todo = call[p].todo]
    BY <1>9 DEF EndRefused, EndThrows, EndMeetingFails, EndQueue, Return, Done, TypeOK
  <2>2. NoCall.op = "none"
        /\ [NoCall EXCEPT !.op = "stale", !.todo = call[p].todo].op = "stale"
    BY DEF NoCall
  <2>3. QED
    BY <2>1, <2>2
<1>10. CASE StaleNext(p)
  <2>1. call[p].op = "stale"
    BY <1>10, OpAt DEF StaleNext, At
  <2>2. CASE Done(p)
    BY <2>2 DEF Done, TypeOK, NoCall
  <2>3. ASSUME NEW s \in call[p].todo,
               call' = [call EXCEPT ![p].sid = s, ![p].todo = @ \ {s}]
        PROVE  call'[p].op = "stale"
    BY <1>0, <2>1, <2>3 DEF TypeOK, Calls
  <2>4. QED
    BY <1>10, <2>2, <2>3 DEF StaleNext
<1>11. /\ \A status \in {"completed", "failed"} : ClearJobs(p, status) => call' = call
       /\ \A s \in Sessions : UnmatchedReadFails(p, s) => call' = call
  BY DEF ClearJobs, UnmatchedReadFails
<1>12. QED
  BY <1>1, <1>2, <1>3, <1>4, <1>5, <1>6, <1>7, <1>8, <1>9, <1>10, <1>11
  DEF Move, Arrive, Take, Continue, Fail, Users

\* ProcessSessionEnded counts as run only when its job becomes completed.
LEMMA ProcessedMoves ==
    ASSUME TypeOK, Locals, NEW p \in Procs, Move(p), NEW t \in Sessions
    PROVE  \/ processed'[t] = processed[t]
           \/ /\ Runs(p, "ProcessSessionEnded", t)
              /\ job'[<<"ProcessSessionEnded", t>>] = "completed"
              /\ processed'[t] = processed[t] + 1
<1>1. CASE ProcessFinish(p)
  <2>1. call[p].op = "process" /\ call[p].sid \in Sessions
    BY <1>1, OpAt, Sited DEF ProcessFinish, At, Row
  <2>2. CASE t # call[p].sid
    BY <1>1, <2>2 DEF ProcessFinish, TypeOK
  <2>3. CASE t = call[p].sid
    <3>1. <<"ProcessSessionEnded", t>> \in Kinds \X Sessions
      BY DEF Kinds
    <3>2. QED
      BY <1>1, <2>1, <2>3, <3>1 DEF ProcessFinish, Runs, TypeOK
  <2>4. QED
    BY <2>2, <2>3
<1>2. CASE ~ProcessFinish(p)
  BY <1>2 DEF Move, Arrive, Take, Continue, Fail, StartRead, JoinRead,
     EndRequest, BreakoutRead, UnmatchedRead, ProcessTake, StaleRead, Sweep, UnmatchedReadFails, ClearJobs,
     StartCheckVolunteer, StartInsert, StartHide, StartNotify, StartQueue,
     JoinClaim, JoinReply, ClearGet, ClearDel, ClearFails, BreakoutNotify,
     EndRead, EndRefused, EndCommit, EndThrows, EndMeeting, EndMeetingFails,
     EndQueue, UnmatchedDecide, StaleNext, Crash
<1>3. QED
  BY <1>1, <1>2

\* The history only grows.
LEMMA LostGrows ==
    ASSUME TypeOK, NEW p \in Procs, Move(p) PROVE lost \subseteq lost'
BY DEF Move, Arrive, Take, Continue, Fail, StartRead, JoinRead,
     EndRequest, BreakoutRead, UnmatchedRead, ProcessTake, StaleRead, Sweep, UnmatchedReadFails, ClearJobs,
     StartCheckVolunteer, StartInsert, StartHide, StartNotify, StartQueue,
     JoinClaim, JoinReply, ClearGet, ClearDel, ClearFails, BreakoutNotify,
     EndRead, EndRefused, EndCommit, EndThrows, EndMeeting, EndMeetingFails,
     EndQueue, UnmatchedDecide, StaleNext, ProcessFinish, Crash, Fault, NoFault

\* The jobs are where their processes believe them to be.
LEMMA JobsStep ==
    ASSUME TypeOK, Locals, Unborn, JobsInStep, EndsInStep, NEW p \in Procs, Move(p)
    PROVE  JobsInStep'
<1> DEFINE Owns(q, k, t) == \/ Runs(q, k, t)
                            \/ /\ k = "EndUnmatchedSession"
                               /\ call[q].op = "start" /\ call[q].sid = t
<1>0. None \notin Sessions
  BY DisjointUsers
<1>1. \A q \in Procs : q # p => call'[q] = call[q]
  BY MoveFrame DEF Frame
<1>2. \A q \in Procs, k \in Kinds, t \in Sessions :
          Owns(q, k, t) /\ q # p => ~Owns(p, k, t)
  BY <1>0 DEF JobsInStep, Runs, Kinds
<1>3. ASSUME NEW q \in Procs, q # p, NEW k \in Kinds, NEW t \in Sessions, Owns(q, k, t)
      PROVE  job'[<<k, t>>] = job[<<k, t>>]
  <2>1. job[<<k, t>>] \in {"absent", "active"}
    BY <1>0, <1>3 DEF JobsInStep, Runs
  <2>2. ~Runs(p, k, t)
    BY <1>2, <1>3
  <2>3. ~(StartQueue(p) /\ call[p].sid = t /\ k = "EndUnmatchedSession")
    BY <1>2, <1>3, OpAt DEF StartQueue, At
  <2>4. CASE k = "EndUnmatchedSession"
    BY <2>1, <2>2, <2>3, <2>4, JobMoves
  <2>5. CASE k = "ProcessSessionEnded"
    <3>1. job[<<k, t>>] = "active"
      BY <1>3, <2>5 DEF JobsInStep, Runs
    <3>2. QED
      BY <2>2, <3>1, JobMoves
  <2>6. QED
    BY <2>4, <2>5 DEF Kinds
<1>4. ASSUME NEW k \in Kinds, NEW t \in Sessions, Runs(p, k, t)'
      PROVE  job'[<<k, t>>] = "active"
  <2>1. CASE call'[p].op = call[p].op /\ call'[p].sid = call[p].sid
    <3>1. job[<<k, t>>] = "active"
      BY <1>4, <2>1 DEF JobsInStep, Runs
    <3>2. call'[p] # NoCall
      BY <1>4 DEF Runs, NoCall
    <3>3. QED
      BY <3>1, <3>2, JobMoves
  <2>2. CASE k = "EndUnmatchedSession" /\ UnmatchedRead(p, t)
    BY <2>2 DEF UnmatchedRead, TypeOK, Kinds
  <2>3. CASE k = "ProcessSessionEnded" /\ ProcessTake(p, t)
    BY <2>3 DEF ProcessTake, TypeOK, Kinds
  <2>4. QED
    BY <1>4, <2>1, <2>2, <2>3, CallMoves DEF Runs, Owner
<1>5. ASSUME NEW t \in Sessions, call'[p].op = "start", call'[p].sid = t
      PROVE  job'[<<"EndUnmatchedSession", t>>] = "absent"
  <2>1. CASE call[p].op = "start" /\ call[p].sid = t
    <3>1. ~Runs(p, "EndUnmatchedSession", t) /\ ~StartQueue(p)
      BY <1>5, <2>1 DEF Runs, StartQueue, Done, NoCall, TypeOK
    <3>2. job[<<"EndUnmatchedSession", t>>] = "absent"
      BY <1>0, <2>1 DEF JobsInStep
    <3>3. QED
      BY <3>1, <3>2, JobMoves DEF Kinds
  <2>2. CASE StartInsert(p, t)
    BY <2>2 DEF StartInsert, Unborn, Kinds
  <2>3. QED
    BY <1>0, <1>5, <2>1, <2>2, CallMoves DEF Owner
<1>6. ASSUME NEW q \in Procs, q # p, NEW t \in Sessions,
             call[q].op = call'[p].op, call[q].sid = t, call'[p].sid = t,
             call[q].op \in Owner
      PROVE  FALSE
  <2>1. call[p].op = call[q].op /\ call[p].sid = t => FALSE
    BY <1>0, <1>6 DEF JobsInStep, Owner
  <2>2. ~StartInsert(p, t)
    <3>1. call[q].op = "start" => Exists(t)
      BY <1>0, <1>6 DEF Locals, LocalsOf, Row
    <3>2. call[q].op # "start" => Exists(t)
      BY <1>6 DEF Locals, LocalsOf, Row, Owner
    <3>3. QED
      BY <3>1, <3>2 DEF StartInsert
  <2>3. ~UnmatchedRead(p, t) \/ call[q].op # "unmatched"
    BY <1>6 DEF JobsInStep, UnmatchedRead
  <2>4. ~ProcessTake(p, t) \/ call[q].op # "process"
    BY <1>6 DEF JobsInStep, ProcessTake
  <2>5. QED
    BY <1>0, <1>6, <2>1, <2>2, <2>3, <2>4, CallMoves
<1>7. ASSUME NEW t \in Sessions,
             job'[<<"ProcessSessionEnded", t>>] \in {"absent", "queued", "active"}
      PROVE  processed'[t] = 0 \/ <<"once", t>> \in lost'
  <2>1. processed'[t] = processed[t]
    BY <1>7, ProcessedMoves
  <2>2. Runs(p, "ProcessSessionEnded", t) => job[<<"ProcessSessionEnded", t>>] = "active"
    BY DEF JobsInStep, Runs
  <2>3. CASE job[<<"ProcessSessionEnded", t>>] \in {"absent", "queued", "active"}
    BY <2>1, <2>3, LostGrows DEF JobsInStep
  <2>4. CASE job[<<"ProcessSessionEnded", t>>] \notin {"absent", "queued", "active"}
    <3>1. /\ job[<<"ProcessSessionEnded", t>>] = "cleaned"
          /\ EndQueue(p) /\ call[p].sid = t
      BY <1>7, <2>2, <2>4, JobMoves DEF Kinds
    <3>2. InEnd(p, t)
      BY <3>1 DEF EndQueue, At, InEnd, InEndTail
    <3>3. QED
      BY <3>1, <3>2, LostGrows DEF EndsInStep
  <2>5. QED
    BY <2>3, <2>4
<1>8. ASSUME NEW q \in Procs
      PROVE  /\ call'[q].op = "unmatched" =>
                  job'[<<"EndUnmatchedSession", call'[q].sid>>] = "active"
             /\ call'[q].op = "process" =>
                  job'[<<"ProcessSessionEnded", call'[q].sid>>] = "active"
             /\ call'[q].op = "start" /\ call'[q].sid # None =>
                  job'[<<"EndUnmatchedSession", call'[q].sid>>] = "absent"
  <2>1. /\ call'[q].op \in {"unmatched", "process"} => call'[q].sid \in Sessions
        /\ call'[q].op = "start" /\ call'[q].sid # None => call'[q].sid \in Sessions
    BY LocalsStep DEF Locals, LocalsOf, Row
  <2>2. CASE q = p
    BY <1>4, <1>5, <2>1, <2>2 DEF Runs, Kinds
  <2>3. CASE q # p
    <3>1. call'[q] = call[q]
      BY <1>1, <2>3
    <3>2. QED
      BY <1>0, <1>3, <2>1, <2>3, <3>1 DEF JobsInStep, Runs, Kinds
  <2>4. QED
    BY <2>2, <2>3
<1>9. ASSUME NEW q \in Procs, NEW r \in Procs, q # r,
             call'[q].op = call'[r].op, call'[q].sid = call'[r].sid,
             call'[q].op \in Owner, call'[q].sid # None
      PROVE  FALSE
  <2>1. call'[q].sid \in Sessions
    BY <1>9, LocalsStep DEF Locals, LocalsOf, Row, Owner
  <2>2. QED
    BY <1>1, <1>6, <1>9, <2>1 DEF JobsInStep, Owner
<1>10. QED
  BY <1>7, <1>8, <1>9 DEF JobsInStep, Owner

-----------------------------------------------------------------------------
\* Ended sessions are handled.

\* Only EndCommit writes the end of a session.
LEMMA EndedMoves ==
    ASSUME TypeOK, NEW p \in Procs, Move(p), ~EndCommit(p)
    PROVE  ended' = ended /\ endedBy' = endedBy
BY DEF Move, Arrive, Take, Continue, Fail, StartRead, JoinRead, rows,
     EndRequest, BreakoutRead, UnmatchedRead, ProcessTake, StaleRead, Sweep, UnmatchedReadFails, ClearJobs,
     StartCheckVolunteer, StartInsert, StartHide, StartNotify, StartQueue,
     JoinClaim, JoinReply, ClearGet, ClearDel, ClearFails, BreakoutNotify,
     EndRead, EndRefused, EndThrows, EndMeeting, EndMeetingFails,
     EndQueue, UnmatchedDecide, StaleNext, ProcessFinish, Crash

\* From the commit to the queue, a step of endSession goes on, queues the job,
\* or is a fault that leaves its mark.
LEMMA EndTailStep ==
    ASSUME TypeOK, Locals, NEW p \in Procs, Move(p), NEW s \in Sessions, InEndTail(p, s)
    PROVE  \/ InEndTail(p, s)'
           \/ job'[<<"ProcessSessionEnded", s>>] # "absent"
           \/ <<"end", s>> \in lost'
<1>0. /\ call[p] \in Calls /\ call[p].sid = s
      /\ pc[p] \in {"end_meeting", "end_queue", "clear_get", "clear_del"}
      /\ pc[p] \in {"clear_get", "clear_del"} => call[p].next = "end_queue"
  BY DEF InEndTail, TypeOK
<1>1. CASE EndMeeting(p)
  BY <1>0, <1>1 DEF EndMeeting, Clear, Jump, InEndTail, TypeOK, Calls
<1>2. CASE EndMeetingFails(p)
  BY <1>0, <1>2 DEF EndMeetingFails, Fault
<1>3. CASE ClearGet(p) \/ ClearFails(p)
  BY <1>0, <1>3 DEF ClearGet, ClearFails, At, Goto, Jump, InEndTail, TypeOK
<1>4. CASE ClearDel(p)
  BY <1>0, <1>4 DEF ClearDel, At, Jump, InEndTail, TypeOK, Calls
<1>5. CASE EndQueue(p)
  <2>1. /\ job \in JobsType /\ Added(job, "ProcessSessionEnded", s) \in JobsType
        /\ "ProcessSessionEnded" \in Kinds /\ "completed" \in JobStates
    BY AddedTyped DEF TypeOK, JobsType, Kinds, JobStates
  <2>2. Added(job, "ProcessSessionEnded", s)[<<"ProcessSessionEnded", s>>] # "absent"
    BY <2>1, AddedAt
  <2>3. job' = Reported(Added(job, "ProcessSessionEnded", s), p, "completed")
    BY <1>0, <1>5 DEF EndQueue
  <2>4. job'[<<"ProcessSessionEnded", s>>]
            = Added(job, "ProcessSessionEnded", s)[<<"ProcessSessionEnded", s>>]
    BY <2>1, <2>3, ReportedAt
  <2>5. QED
    BY <2>2, <2>4
<1>6. CASE Crash(p)
  <2>1. <<"end", s>> \in CutBy(p)
    BY DEF CutBy
  <2>2. QED
    BY <1>6, <2>1 DEF Crash, Fault
<1>7. QED
  BY <1>0, <1>1, <1>2, <1>3, <1>4, <1>5, <1>6
  DEF Move, Arrive, Take, Continue, Fail, At, Begin, StartRead, JoinRead,
      EndRequest, BreakoutRead, UnmatchedRead, ProcessTake, StaleRead, Sweep, UnmatchedReadFails, ClearJobs,
      StartCheckVolunteer, StartInsert, StartHide, StartNotify, StartQueue,
      JoinClaim, JoinReply, BreakoutNotify, EndRead, EndRefused, EndCommit,
      EndThrows, UnmatchedDecide, StaleNext, ProcessFinish

LEMMA HandledStep ==
    ASSUME TypeOK, Locals, EndedIsHandled, NEW p \in Procs, Move(p)
    PROVE  EndedIsHandled'
<1> SUFFICES ASSUME NEW s \in Sessions, ended'[s]
             PROVE  \/ job'[<<"ProcessSessionEnded", s>>] # "absent"
                    \/ \E q \in Procs : InEndTail(q, s)'
                    \/ <<"end", s>> \in lost'
  BY DEF EndedIsHandled
<1>1. CASE job[<<"ProcessSessionEnded", s>>] # "absent"
  BY <1>1, JobMoves DEF Kinds
<1>2. CASE <<"end", s>> \in lost
  BY <1>2, LostGrows
<1>3. ASSUME NEW q \in Procs, q # p, InEndTail(q, s) PROVE InEndTail(q, s)'
  BY <1>3, MoveFrame DEF Frame, InEndTail
<1>4. CASE InEndTail(p, s)
  BY <1>4, EndTailStep
<1>5. CASE ~ended[s]
  <2>1. EndCommit(p)
    BY <1>5, EndedMoves
  <2>2. InEndTail(p, s)'
    BY <1>5, <2>1 DEF EndCommit, Goto, Jump, InEndTail, TypeOK
  <2>3. QED
    BY <2>2
<1>6. QED
  BY <1>1, <1>2, <1>3, <1>4, <1>5 DEF EndedIsHandled

-----------------------------------------------------------------------------
\* How a process comes to the three labels the invariants speak of: endSession
\* commits only after its participant check, startSession comes to its HSET
\* from the insertion of the row, a breakout notifies after the clear.
LEMMA Enters ==
    ASSUME TypeOK, Locals, NEW p \in Procs, Move(p)
    PROVE  /\ pc'[p] = "end_commit" => EndRead(p)
           /\ pc'[p] = "start_hide" =>
                  \E s \in Sessions : StartInsert(p, s) /\ call'[p].sid = s
           /\ pc'[p] = "breakout_notify" =>
                  /\ ClearGet(p) \/ ClearDel(p) \/ ClearFails(p)
                  /\ call[p].op = "breakout" /\ ~call[p].cleared
<1> DEFINE Elsewhere == pc'[p] \notin {"end_commit", "start_hide", "breakout_notify"}
<1>1. CASE (p \in Requests /\ Arrive(p)) \/ (p \in Workers /\ Take(p))
  <2>1. pc[p] = "idle"
    BY <1>1 DEF Arrive, StartRead, JoinRead, EndRequest, BreakoutRead, Take,
       UnmatchedRead, ProcessTake, StaleRead, Sweep, UnmatchedReadFails, ClearJobs, Begin, At
  <2>2. /\ \A status \in {"completed", "failed"} : ClearJobs(p, status) => Elsewhere
        /\ \A s \in Sessions : UnmatchedReadFails(p, s) => Elsewhere
    BY <2>1 DEF ClearJobs, UnmatchedReadFails
  <2>3. CASE /\ ~\E status \in {"completed", "failed"} : ClearJobs(p, status)
             /\ ~\E s \in Sessions : UnmatchedReadFails(p, s)
    <3>1. Elsewhere
      BY <1>1, <2>3 DEF Arrive, StartRead, JoinRead, EndRequest, BreakoutRead,
         Take, UnmatchedRead, ProcessTake, StaleRead, Sweep, Begin, Jump, TypeOK
    <3>2. QED
      BY <3>1
  <2>4. QED
    BY <2>2, <2>3
<1>2. CASE ClearGet(p) \/ ClearDel(p) \/ ClearFails(p)
  <2>1. pc'[p] \in {"clear_del", call[p].next} /\ pc[p] \in {"clear_get", "clear_del"}
    BY <1>2 DEF ClearGet, ClearDel, ClearFails, At, Goto, Jump, TypeOK
  <2>2. /\ call[p].next \in {"join_emit", "breakout_notify", "unmatched_decide", "end_queue"}
        /\ call[p].next = "breakout_notify" => call[p].op = "breakout" /\ ~call[p].cleared
    BY <2>1, OpAt DEF Locals, LocalsOf
  <2>3. QED
    BY <1>2, <2>1, <2>2
<1>3. CASE EndRefused(p) \/ EndThrows(p) \/ EndMeetingFails(p) \/ EndQueue(p)
  <2>1. Elsewhere
    BY <1>3 DEF EndRefused, EndThrows, EndMeetingFails, EndQueue, Return,
       Done, Jump, TypeOK
  <2>2. QED
    BY <2>1
<1>4. CASE \/ StartCheckVolunteer(p) \/ StartHide(p) \/ StartNotify(p)
           \/ StartQueue(p) \/ JoinClaim(p) \/ JoinReply(p) \/ BreakoutNotify(p)
           \/ EndCommit(p) \/ EndMeeting(p) \/ UnmatchedDecide(p)
           \/ StaleNext(p) \/ ProcessFinish(p) \/ Crash(p)
  <2>1. Elsewhere
    BY <1>4 DEF StartCheckVolunteer, StartHide, StartNotify, StartQueue,
       JoinClaim, JoinReply, BreakoutNotify, EndCommit, EndMeeting, Clear,
       UnmatchedDecide, StaleNext, ProcessFinish, Crash, Goto, Done, Jump, TypeOK
  <2>2. QED
    BY <2>1
<1>5. CASE EndRead(p)
  BY <1>5 DEF EndRead, Goto, Jump, TypeOK
<1>6. ASSUME NEW s \in Sessions, StartInsert(p, s)
      PROVE  call'[p].sid = s /\ pc'[p] \in {"start_hide", "start_notify"}
  BY <1>6 DEF StartInsert, Jump, TypeOK, Calls
<1>7. QED
  BY <1>1, <1>2, <1>3, <1>4, <1>5, <1>6 DEF Move, Continue, Fail

-----------------------------------------------------------------------------
\* What endSession knows of its session past the checks.

LEMMA EntersEnd ==
    ASSUME TypeOK, Locals, NEW p \in Procs, Move(p), NEW s \in Sessions
    PROVE  /\ InEnd(p, s)' => InEnd(p, s) \/ (EndRead(p) /\ call[p].sid = s)
           /\ InEndTail(p, s)' => InEndTail(p, s) \/ (EndCommit(p) /\ call[p].sid = s)
<1> USE DEF InEnd, InEndTail
<1>0. call[p] \in Calls
  BY DEF TypeOK
<1>1. CASE p \in Requests /\ Arrive(p)
  <2>1. ASSUME NEW u, NEW v, StartRead(p, u, v) PROVE ~InEnd(p, s)'
    BY <2>1 DEF StartRead, Jump, TypeOK
  <2>2. ASSUME NEW u, NEW t, JoinRead(p, u, t) \/ EndRequest(p, u, t)
        PROVE  ~InEnd(p, s)'
    BY <2>2 DEF JoinRead, EndRequest, Begin, Jump, TypeOK
  <2>3. ASSUME NEW u, NEW t, BreakoutRead(p, u, t) PROVE ~InEnd(p, s)'
    <3>1. pc'[p] = "clear_get" /\ call'[p].next = "breakout_notify"
      BY <2>3 DEF BreakoutRead, Jump, TypeOK, NoCall
    <3>2. QED
      BY <3>1
  <2>4. QED
    BY <1>1, <2>1, <2>2, <2>3 DEF Arrive
<1>2. CASE p \in Workers /\ Take(p)
  <2>1. ASSUME NEW t \in Sessions, UnmatchedRead(p, t) \/ ProcessTake(p, t)
        PROVE  ~InEnd(p, s)'
    <3>1. CASE UnmatchedRead(p, t)
      <4>1. pc'[p] = "clear_get" /\ call'[p].next = "unmatched_decide"
        BY <3>1 DEF UnmatchedRead, Jump, TypeOK, NoCall
      <4>2. QED
        BY <4>1
    <3>2. CASE ProcessTake(p, t)
      BY <3>2 DEF ProcessTake, Begin, Jump, TypeOK
    <3>3. QED
      BY <2>1, <3>1, <3>2
  <2>2. StaleRead(p) => ~InEnd(p, s)'
    BY DEF StaleRead, Sweep, Jump, TypeOK
  <2>5. ASSUME NEW t \in Sessions, UnmatchedReadFails(p, t)
        PROVE  (InEnd(p, s)' => InEnd(p, s)) /\ (InEndTail(p, s)' => InEndTail(p, s))
    BY <2>5 DEF UnmatchedReadFails
  <2>3. ASSUME NEW status \in {"completed", "failed"}, ClearJobs(p, status)
        PROVE  (InEnd(p, s)' => InEnd(p, s)) /\ (InEndTail(p, s)' => InEndTail(p, s))
    BY <2>3 DEF ClearJobs
  <2>4. QED
    BY <1>2, <2>1, <2>2, <2>3, <2>5 DEF Take
<1>3. CASE ClearGet(p) \/ ClearDel(p) \/ ClearFails(p)
  <2>1. /\ pc'[p] \in {"clear_del", call[p].next}
        /\ pc[p] \in {"clear_get", "clear_del"}
        /\ call'[p].sid = call[p].sid /\ call'[p].next = call[p].next
    BY <1>0, <1>3 DEF ClearGet, ClearDel, ClearFails, At, Goto, Jump, TypeOK, Calls
  <2>2. call[p].next \in {"join_emit", "breakout_notify", "unmatched_decide", "end_queue"}
    BY <2>1, OpAt DEF Locals, LocalsOf
  <2>3. QED
    BY <2>1, <2>2
<1>4. CASE EndRefused(p) \/ EndThrows(p) \/ EndMeetingFails(p) \/ EndQueue(p)
  <2>1. pc'[p] \in {"idle", "stale_next"}
    BY <1>4 DEF EndRefused, EndThrows, EndMeetingFails, EndQueue, Return,
       Done, Jump, TypeOK
  <2>2. QED
    BY <2>1
<1>5. CASE \/ StartCheckVolunteer(p) \/ \E t \in Sessions : StartInsert(p, t)
           \/ StartHide(p) \/ StartNotify(p)
           \/ StartQueue(p) \/ JoinReply(p) \/ BreakoutNotify(p)
           \/ UnmatchedDecide(p) \/ StaleNext(p) \/ ProcessFinish(p) \/ Crash(p)
  <2>1. pc'[p] \in {"idle", "start_insert", "start_hide", "start_notify",
                    "start_queue", "end_read", "stale_next"}
    BY <1>5 DEF StartCheckVolunteer, StartInsert, StartHide, StartNotify,
       StartQueue, JoinReply, BreakoutNotify, UnmatchedDecide, StaleNext,
       ProcessFinish, Crash, Goto, Done, Jump, TypeOK
  <2>2. QED
    BY <2>1
<1>6. CASE JoinClaim(p)
  <2>1. pc'[p] = "clear_get" /\ call'[p].next = "join_emit"
    BY <1>0, <1>6 DEF JoinClaim, Clear, Jump, TypeOK, Calls
  <2>2. QED
    BY <2>1
<1>7. CASE EndRead(p)
  BY <1>7 DEF EndRead, Goto, Jump, TypeOK
<1>8. CASE EndCommit(p)
  BY <1>8 DEF EndCommit, At, Goto, Jump, TypeOK
<1>9. CASE EndMeeting(p)
  <2>1. pc[p] = "end_meeting" /\ call'[p].sid = call[p].sid
    BY <1>0, <1>9 DEF EndMeeting, At, Clear, TypeOK, Calls
  <2>2. QED
    BY <2>1
<1>10. QED
  BY <1>1, <1>2, <1>3, <1>4, <1>5, <1>6, <1>7, <1>8, <1>9 DEF Move, Continue, Fail

LEMMA EndsStep ==
    ASSUME TypeOK, Locals, JobsInStep, EndsInStep, NEW p \in Procs, Move(p)
    PROVE  EndsInStep'
<1> SUFFICES ASSUME NEW s \in Sessions
             PROVE  /\ job'[<<"ProcessSessionEnded", s>>] # "absent" => ended'[s]
                    /\ \A q \in Procs : InEndTail(q, s)' => ended'[s]
                    /\ job'[<<"ProcessSessionEnded", s>>] = "cleaned" =>
                        \/ <<"once", s>> \in lost'
                        \/ \A q \in Procs : ~InEnd(q, s)'
  BY DEF EndsInStep
<1>1. ended[s] => ended'[s]
  BY EndedMoves DEF EndCommit, TypeOK
<1>2. ASSUME NEW q \in Procs, q # p
      PROVE  (InEnd(q, s)' <=> InEnd(q, s)) /\ (InEndTail(q, s)' <=> InEndTail(q, s))
  BY <1>2, MoveFrame DEF Frame, InEnd, InEndTail
<1>3. Runs(p, "ProcessSessionEnded", s) => job[<<"ProcessSessionEnded", s>>] = "active"
  BY DEF JobsInStep, Runs
<1>4. job'[<<"ProcessSessionEnded", s>>] # "absent" => ended'[s]
  <2>1. CASE job[<<"ProcessSessionEnded", s>>] # "absent"
    BY <1>1, <2>1 DEF EndsInStep
  <2>2. CASE /\ job[<<"ProcessSessionEnded", s>>] = "absent"
             /\ job'[<<"ProcessSessionEnded", s>>] # "absent"
    <3>1. EndQueue(p) /\ call[p].sid = s
      BY <1>3, <2>2, JobMoves DEF Kinds
    <3>2. InEndTail(p, s)
      BY <3>1 DEF EndQueue, At, InEndTail
    <3>3. QED
      BY <1>1, <3>2 DEF EndsInStep
  <2>3. QED
    BY <2>1, <2>2
<1>5. ASSUME NEW q \in Procs, InEndTail(q, s)' PROVE ended'[s]
  <2>1. CASE InEndTail(q, s)
    BY <1>1, <2>1 DEF EndsInStep
  <2>2. CASE EndCommit(p) /\ call[p].sid = s
    BY <2>2 DEF EndCommit, TypeOK
  <2>3. QED
    BY <1>2, <1>5, <2>1, <2>2, EntersEnd
<1>6. ASSUME job'[<<"ProcessSessionEnded", s>>] = "cleaned", <<"once", s>> \notin lost',
             NEW q \in Procs, InEnd(q, s)'
      PROVE  FALSE
  <2>1. CASE job[<<"ProcessSessionEnded", s>>] = "cleaned"
    <3>1. ended[s] /\ ~InEnd(q, s)
      BY <1>6, <2>1, LostGrows DEF EndsInStep
    <3>2. q = p /\ EndRead(p) /\ call[p].sid = s
      BY <1>2, <1>6, <3>1, EntersEnd
    <3>3. QED
      BY <3>1, <3>2 DEF EndRead, MayEnd
  <2>2. CASE job[<<"ProcessSessionEnded", s>>] # "cleaned"
    <3>1. PICK status \in {"completed", "failed"} : ClearJobs(p, status)
      BY <1>6, <2>2, JobMoves DEF Kinds
    <3>2. InEnd(q, s) /\ job[<<"ProcessSessionEnded", s>>] = status
      BY <1>6, <2>2, <3>1 DEF ClearJobs, InEnd, InEndTail, Kinds
    <3>3. <<"once", s>> \in lost'
      BY <3>1, <3>2 DEF ClearJobs
    <3>4. QED
      BY <1>6, <3>3
  <2>3. QED
    BY <2>1, <2>2
<1>7. QED
  BY <1>4, <1>5, <1>6

-----------------------------------------------------------------------------
\* Whoever ended a session takes part in it.

\* Only JoinClaim writes a volunteer, where there is none.
LEMMA VolunteerMoves ==
    ASSUME TypeOK, NEW p \in Procs, Move(p)
    PROVE  \/ volunteer' = volunteer
           \/ /\ JoinClaim(p)
              /\ volunteer[call[p].sid] = None
              /\ volunteer' = [volunteer EXCEPT ![call[p].sid] = call[p].user]
<1>1. CASE JoinClaim(p)
  BY <1>1 DEF JoinClaim, Claimed
<1>2. CASE ~JoinClaim(p)
  BY <1>2 DEF Move, Arrive, Take, Continue, Fail, StartRead, JoinRead, rows,
     EndRequest, BreakoutRead, UnmatchedRead, ProcessTake, StaleRead, Sweep, UnmatchedReadFails, ClearJobs,
     StartCheckVolunteer, StartInsert, StartHide, StartNotify, StartQueue,
     JoinReply, ClearGet, ClearDel, ClearFails, BreakoutNotify, EndRead,
     EndRefused, EndCommit, EndThrows, EndMeeting, EndMeetingFails,
     EndQueue, UnmatchedDecide, StaleNext, ProcessFinish, Crash
<1>3. QED
  BY <1>1, <1>2

LEMMA ParticipantKept ==
    ASSUME TypeOK, NEW p \in Procs, Move(p), NEW u, NEW s \in Sessions,
           Participant(u, s)
    PROVE  u \in {student'[s], volunteer'[s]}
<1>1. CASE u = student[s]
  BY <1>1, MoveFrame DEF Participant, Frame, Exists
<1>2. CASE u = volunteer[s]
  <2>1. volunteer[s] # None
    BY <1>2 DEF Participant
  <2>2. volunteer'[s] = volunteer[s]
    BY <2>1, VolunteerMoves DEF TypeOK
  <2>3. QED
    BY <1>2, <2>1, <2>2 DEF Participant
<1>3. QED
  BY <1>1, <1>2 DEF Participant

LEMMA EndersStep ==
    ASSUME TypeOK, Locals, EndersTakePart, NEW p \in Procs, Move(p)
    PROVE  EndersTakePart'
<1> SUFFICES ASSUME NEW q \in Procs, pc'[q] = "end_commit", call'[q].user # None
             PROVE  call'[q].user \in {student'[call'[q].sid], volunteer'[call'[q].sid]}
  BY DEF EndersTakePart, Participant
<1>1. CASE q = p
  <2>1. EndRead(p) /\ call' = call /\ UNCHANGED rows
    BY <1>1, Enters DEF EndRead, Goto
  <2>2. Participant(call[p].user, call[p].sid)
    BY <1>1, <2>1 DEF EndRead, MayEnd
  <2>3. QED
    BY <1>1, <2>1, <2>2 DEF Participant, rows
<1>2. CASE q # p
  <2>1. pc[q] = "end_commit" /\ call'[q] = call[q]
    BY <1>2, MoveFrame DEF Frame
  <2>2. Participant(call[q].user, call[q].sid) /\ call[q].sid \in Sessions
    BY <2>1, Sited DEF EndersTakePart, Row
  <2>3. QED
    BY <2>1, <2>2, ParticipantKept
<1>3. QED
  BY <1>1, <1>2

LEMMA RightfulStep ==
    ASSUME TypeOK, Locals, EndersTakePart, RightfulEnd, NEW p \in Procs, Move(p)
    PROVE  RightfulEnd'
<1> SUFFICES ASSUME NEW s \in Sessions, endedBy'[s] # None
             PROVE  endedBy'[s] \in {student'[s], volunteer'[s]}
  BY DEF RightfulEnd, Participant
<1>1. CASE endedBy'[s] = endedBy[s]
  BY <1>1, ParticipantKept DEF RightfulEnd
<1>2. CASE endedBy'[s] # endedBy[s]
  <2>1. EndCommit(p)
    BY <1>2, EndedMoves
  <2>2. pc[p] = "end_commit" /\ call[p].sid = s /\ endedBy'[s] = call[p].user
    BY <1>2, <2>1 DEF EndCommit, At, TypeOK
  <2>3. QED
    BY <2>2, ParticipantKept DEF EndersTakePart
<1>3. QED
  BY <1>1, <1>2

-----------------------------------------------------------------------------
\* The exclusive hash and the text messages.

LEMMA ExclusiveMoves ==
    ASSUME TypeOK, NEW p \in Procs, Move(p)
    PROVE  \/ exclusive' = exclusive
           \/ /\ StartHide(p)
              /\ exclusive' = [exclusive EXCEPT ![call[p].sid] = call[p].want]
           \/ /\ ClearDel(p)
              /\ exclusive' = [exclusive EXCEPT ![call[p].sid] = None]
<1>1. CASE StartHide(p) \/ ClearDel(p)
  BY <1>1 DEF StartHide, ClearDel
<1>2. CASE ~(StartHide(p) \/ ClearDel(p))
  BY <1>2 DEF Move, Arrive, Take, Continue, Fail, StartRead, JoinRead,
     EndRequest, BreakoutRead, UnmatchedRead, ProcessTake, StaleRead, Sweep, UnmatchedReadFails, ClearJobs,
     StartCheckVolunteer, StartInsert, StartNotify, StartQueue, JoinClaim,
     JoinReply, ClearGet, ClearFails, BreakoutNotify, EndRead, EndRefused,
     EndCommit, EndThrows, EndMeeting, EndMeetingFails, EndQueue,
     UnmatchedDecide, StaleNext, ProcessFinish, Crash
<1>3. QED
  BY <1>1, <1>2

LEMMA TextingMoves ==
    ASSUME TypeOK, NEW p \in Procs, Move(p)
    PROVE  \/ texting' = texting
           \/ /\ StartNotify(p) \/ BreakoutNotify(p)
              /\ texting' = texting \cup {call[p].sid}
              /\ call[p].user \notin ShadowBanned
              /\ StartNotify(p) => call[p].want = None
              /\ BreakoutNotify(p) => call[p].cleared
<1>1. CASE StartNotify(p) \/ BreakoutNotify(p)
  BY <1>1 DEF StartNotify, BreakoutNotify, At
<1>2. CASE ~(StartNotify(p) \/ BreakoutNotify(p))
  BY <1>2 DEF Move, Arrive, Take, Continue, Fail, StartRead, JoinRead,
     EndRequest, BreakoutRead, UnmatchedRead, ProcessTake, StaleRead, Sweep, UnmatchedReadFails, ClearJobs,
     StartCheckVolunteer, StartInsert, StartHide, StartQueue, JoinClaim,
     JoinReply, ClearGet, ClearDel, ClearFails, EndRead, EndRefused,
     EndCommit, EndThrows, EndMeeting, EndMeetingFails, EndQueue,
     UnmatchedDecide, StaleNext, ProcessFinish, Crash
<1>3. QED
  BY <1>1, <1>2

\* One startSession call per session, and none for a session with a row that
\* it has yet to insert.
LEMMA OneStart ==
    ASSUME TypeOK, Locals, JobsInStep, NEW p \in Procs, NEW q \in Procs,
           call[p].op = "start", call[q].op = "start",
           call[p].sid = call[q].sid, call[p].sid # None
    PROVE  p = q
BY DEF JobsInStep

\* Nobody else writes the hash entry of a session whose startSession is in
\* progress, except to remove it.
LEMMA HideAlone ==
    ASSUME TypeOK, Locals, JobsInStep, NEW p \in Procs, Move(p),
           NEW s \in Sessions, exclusive[s] = None, exclusive'[s] # None
    PROVE  StartHide(p) /\ pc[p] = "start_hide" /\ call[p].sid = s
           /\ call[p].op = "start" /\ call[p].want # None
<1>1. StartHide(p) /\ exclusive' = [exclusive EXCEPT ![call[p].sid] = call[p].want]
  BY ExclusiveMoves DEF TypeOK
<1>2. QED
  BY <1>1, OpAt DEF StartHide, At, TypeOK

\* A session that a startSession call hides or notifies about is not yet, or
\* never will be, in the hash.
LEMMA HsetStep ==
    ASSUME TypeOK, Locals, Unborn, JobsInStep, HsetIsOnce, NEW p \in Procs, Move(p)
    PROVE  HsetIsOnce'
<1>0. /\ \A q \in Procs : q # p => pc'[q] = pc[q] /\ call'[q] = call[q]
      /\ \A q \in Procs : call[q] \in Calls
      /\ None \notin Sessions
  BY MoveFrame, DisjointUsers DEF Frame, TypeOK
<1>1. ASSUME NEW q \in Procs, call'[q].op = "start", call'[q].sid # None,
             call'[q].want = None
      PROVE  exclusive'[call'[q].sid] = None
  <2>1. ASSUME call[q].op = "start", call[q].sid # None, call[q].want = None,
               call'[q].sid = call[q].sid
        PROVE  exclusive'[call'[q].sid] = None
    <3>1. exclusive[call[q].sid] = None /\ call[q].sid \in Sessions
      BY <1>0, <2>1 DEF HsetIsOnce, Calls
    <3>2. ASSUME exclusive'[call[q].sid] # None PROVE FALSE
      <4>1. call[p].op = "start" /\ call[p].sid = call[q].sid /\ call[p].want # None
        BY <3>1, <3>2, HideAlone
      <4>2. QED
        BY <2>1, <4>1, OneStart
    <3>3. QED
      BY <2>1, <3>2
  <2>2. CASE q # p
    BY <1>0, <1>1, <2>1, <2>2
  <2>3. ASSUME q = p, NEW s \in Sessions, StartInsert(p, s), call'[p].sid = s
        PROVE  exclusive'[s] = None
    BY <2>3 DEF StartInsert, Unborn
  <2>4. QED
    BY <1>1, <2>1, <2>2, <2>3, CallMoves DEF Owner
<1>2. ASSUME NEW q \in Procs, pc'[q] = "start_hide"
      PROVE  exclusive'[call'[q].sid] = None
  <2>1. ASSUME NEW s \in Sessions, q = p, StartInsert(p, s), call'[p].sid = s
        PROVE  exclusive'[s] = None
    BY <2>1 DEF StartInsert, Unborn
  <2>2. CASE q # p
    <3>1. /\ pc[q] = "start_hide" /\ call'[q] = call[q]
          /\ call[q].op = "start" /\ call[q].sid \in Sessions
          /\ exclusive[call[q].sid] = None
      BY <1>0, <1>2, <2>2, OpAt, Sited DEF HsetIsOnce, Row
    <3>2. ASSUME exclusive'[call[q].sid] # None PROVE FALSE
      BY <1>0, <2>2, <3>1, <3>2, HideAlone, OneStart
    <3>3. QED
      BY <3>1, <3>2
  <2>3. QED
    BY <1>2, <2>1, <2>2, Enters
<1>3. ASSUME NEW q \in Procs, pc'[q] = "breakout_notify", call'[q].cleared,
             NEW r \in Procs
      PROVE  /\ exclusive'[call'[q].sid] = None
             /\ ~(pc'[r] = "start_hide" /\ call'[r].sid = call'[q].sid)
  <2>1. CASE q = p
    <3>1. ClearDel(p) /\ pc[p] = "clear_del" /\ call'[p].sid = call[p].sid
      <4>1. ~call[p].cleared /\ (ClearGet(p) \/ ClearDel(p) \/ ClearFails(p))
        BY <1>3, <2>1, Enters
      <4>2. ~ClearGet(p) /\ ~ClearFails(p)
        BY <1>3, <2>1, <4>1 DEF ClearGet, ClearFails, Goto
      <4>3. QED
        BY <1>0, <4>1, <4>2 DEF ClearDel, At, TypeOK, Calls
    <3>2. call[p].sid \in Sessions
      BY <3>1, Sited DEF Row
    <3>3. exclusive'[call[p].sid] = None /\ exclusive[call[p].sid] # None
      BY <1>0, <1>3, <2>1, <3>1, <3>2 DEF ClearDel, TypeOK, Calls
    <3>4. r # p => ~(pc[r] = "start_hide" /\ call[r].sid = call[p].sid)
      BY <3>3 DEF HsetIsOnce
    <3>5. QED
      BY <1>0, <1>3, <2>1, <3>1, <3>3, <3>4
  <2>2. CASE q # p
    <3>1. /\ pc[q] = "breakout_notify" /\ call[q].cleared /\ call'[q] = call[q]
          /\ Row(call[q].sid)
      BY <1>0, <1>3, <2>2, Sited
    <3>2. /\ exclusive[call[q].sid] = None
          /\ ~(pc[p] = "start_hide" /\ call[p].sid = call[q].sid)
          /\ ~(pc[r] = "start_hide" /\ call[r].sid = call[q].sid)
      BY <3>1 DEF HsetIsOnce
    <3>3. exclusive'[call[q].sid] = None
      BY <3>1, <3>2, HideAlone DEF Row
    <3>4. ~StartInsert(p, call[q].sid)
      BY <3>1 DEF StartInsert, Row
    <3>5. ~(pc'[r] = "start_hide" /\ call'[r].sid = call[q].sid)
      BY <1>0, <3>2, <3>4, Enters
    <3>6. QED
      BY <3>1, <3>3, <3>5
  <2>3. QED
    BY <2>1, <2>2
<1>4. QED
  BY <1>1, <1>2, <1>3 DEF HsetIsOnce

LEMMA TextedStep ==
    ASSUME TypeOK, Locals, Unborn, JobsInStep, HsetIsOnce, TextedIsPublic,
           NEW p \in Procs, Move(p)
    PROVE  TextedIsPublic'
<1> SUFFICES ASSUME NEW s \in Sessions, s \in texting'
             PROVE  /\ exclusive'[s] = None
                    /\ \A q \in Procs : ~(call'[q].sid = s /\ pc'[q] = "start_hide")
  BY TypeStep DEF TextedIsPublic, TypeOK
<1>0. \A q \in Procs : q # p => pc'[q] = pc[q] /\ call'[q] = call[q]
  BY MoveFrame DEF Frame
<1>1. CASE s \in texting
  <2>1. /\ exclusive[s] = None /\ Exists(s)
        /\ \A q \in Procs : ~(call[q].sid = s /\ pc[q] = "start_hide")
    BY <1>1 DEF TextedIsPublic, Unborn
  <2>2. exclusive'[s] = None
    BY <2>1, HideAlone
  <2>3. ~StartInsert(p, s)
    BY <2>1 DEF StartInsert
  <2>4. QED
    BY <1>0, <2>1, <2>2, <2>3, Enters
<1>2. CASE s \notin texting
  <2>1. /\ StartNotify(p) \/ BreakoutNotify(p)
        /\ call[p].sid = s
        /\ StartNotify(p) => call[p].want = None
        /\ BreakoutNotify(p) => call[p].cleared
    BY <1>2, TextingMoves
  <2>2. exclusive' = exclusive /\ pc'[p] # "start_hide"
    BY <2>1 DEF StartNotify, BreakoutNotify, Goto, Done, Jump, TypeOK
  <2>3. CASE StartNotify(p)
    <3>1. call[p].op = "start" /\ s # None
      BY <2>3, OpAt, DisjointUsers DEF StartNotify, At
    <3>2. exclusive[s] = None
      BY <2>1, <2>3, <3>1 DEF HsetIsOnce
    <3>3. ASSUME NEW q \in Procs, q # p, call[q].sid = s, pc[q] = "start_hide"
          PROVE  FALSE
      BY <2>1, <3>1, <3>3, OpAt, OneStart
    <3>4. QED
      BY <1>0, <2>2, <3>2, <3>3
  <2>4. CASE BreakoutNotify(p)
    <3>1. /\ exclusive[s] = None
          /\ \A q \in Procs : ~(call[q].sid = s /\ pc[q] = "start_hide")
      BY <2>1, <2>4 DEF BreakoutNotify, At, HsetIsOnce
    <3>2. QED
      BY <1>0, <2>2, <3>1
  <2>5. QED
    BY <2>1, <2>3, <2>4
<1>3. QED
  BY <1>1, <1>2

LEMMA ShadowStep ==
    ASSUME TypeOK, Locals, Unborn, JobsInStep, ShadowBannedStayHidden,
           NEW p \in Procs, Move(p)
    PROVE  ShadowBannedStayHidden'
<1> SUFFICES ASSUME NEW s \in Sessions, student'[s] \in ShadowBanned
             PROVE  /\ s \notin texting'
                    /\ exclusive'[s] = None
                    /\ volunteer'[s] \in Admins \cup {None}
  BY DEF ShadowBannedStayHidden
<1>1. /\ s \notin texting /\ exclusive[s] = None
      /\ volunteer[s] \in Admins \cup {None}
      /\ Exists(s) => student[s] \in ShadowBanned
  BY MoveFrame DEF Frame, Unborn, ShadowBannedStayHidden
<1>2. s \notin texting'
  <2>1. ASSUME StartNotify(p) \/ BreakoutNotify(p), call[p].sid = s
        PROVE  call[p].user \in ShadowBanned
    BY <1>1, <2>1, Sited, OpAt DEF StartNotify, BreakoutNotify, At, Locals, LocalsOf, Row
  <2>2. QED
    BY <1>1, <2>1, TextingMoves
<1>3. exclusive'[s] = None
  <2>1. ASSUME StartHide(p), call[p].sid = s PROVE FALSE
    BY <1>1, <2>1, Sited, OpAt DEF StartHide, At, Locals, LocalsOf, Row
  <2>2. QED
    BY <1>1, <2>1, HideAlone
<1>4. volunteer'[s] \in Admins \cup {None}
  <2>1. ASSUME JoinClaim(p), call[p].sid = s PROVE call[p].user \in Admins
    BY <1>1, <2>1, Sited, OpAt DEF JoinClaim, At, Locals, LocalsOf, Row
  <2>2. QED
    BY <1>1, <2>1, VolunteerMoves DEF TypeOK
<1>5. QED
  BY <1>2, <1>3, <1>4

-----------------------------------------------------------------------------
\* What is done once, and who removes an entry of the hash.

LEMMA ProcessedStep ==
    ASSUME TypeOK, Locals, JobsInStep, ProcessedAtMostOnce, NEW p \in Procs, Move(p)
    PROVE  ProcessedAtMostOnce'
<1> SUFFICES ASSUME NEW s \in Sessions, <<"once", s>> \notin lost'
             PROVE  processed'[s] <= 1
  BY DEF ProcessedAtMostOnce
<1>0. <<"once", s>> \notin lost
  BY LostGrows
<1>1. CASE processed'[s] = processed[s]
  BY <1>0, <1>1 DEF ProcessedAtMostOnce
<1>2. CASE processed'[s] # processed[s]
  <2>1. Runs(p, "ProcessSessionEnded", s) /\ processed'[s] = processed[s] + 1
    BY <1>2, ProcessedMoves
  <2>2. processed[s] = 0
    BY <1>0, <2>1 DEF JobsInStep, Runs
  <2>3. QED
    BY <2>1, <2>2
<1>3. QED
  BY <1>1, <1>2

\* The EndUnmatchedSession job that has yet to clear session s.
Clears(p, s) ==
    /\ call[p].op = "unmatched" /\ call[p].sid = s
    /\ pc[p] \in {"clear_get", "clear_del"} /\ call[p].next = "unmatched_decide"

LEMMA OwnedStep ==
    ASSUME TypeOK, Locals, Unborn, JobsInStep, ExclusiveIsOwned,
           NEW p \in Procs, Move(p)
    PROVE  ExclusiveIsOwned'
<1> DEFINE EU(s) == <<"EndUnmatchedSession", s>>
<1> SUFFICES ASSUME NEW s \in Sessions, exclusive'[s] # None
             PROVE  \/ \E q \in Requests : call'[q].op = "start" /\ call'[q].sid = s
                    \/ job'[EU(s)] = "queued"
                    \/ \E q \in Workers : Clears(q, s)'
                    \/ {<<"start", s>>, <<"clear", s>>} \cap lost' # {}
  BY DEF ExclusiveIsOwned, Clears
<1>0. /\ \A q \in Procs : q # p => pc'[q] = pc[q] /\ call'[q] = call[q]
      /\ EU(s) \in Kinds \X Sessions /\ call[p] \in Calls /\ s # None
  BY MoveFrame, DisjointUsers DEF Frame, Kinds, TypeOK
<1>1. CASE exclusive[s] = None
  <2>1. StartHide(p) /\ call[p].sid = s /\ call[p].op = "start"
    BY <1>1, HideAlone
  <2>2. call' = call /\ p \in Requests
    BY <2>1 DEF StartHide, Goto, Locals, LocalsOf
  <2>3. QED
    BY <2>1, <2>2
<1>2. CASE {<<"start", s>>, <<"clear", s>>} \cap lost # {}
  BY <1>2, LostGrows
<1>3. CASE job[EU(s)] = "queued"
  <2>1. ~Runs(p, "EndUnmatchedSession", s)
    BY <1>3 DEF JobsInStep, Runs
  <2>2. job'[EU(s)] = "queued" \/ UnmatchedRead(p, s) \/ UnmatchedReadFails(p, s)
    BY <1>3, <2>1, JobMoves DEF Kinds
  <2>5. ASSUME UnmatchedReadFails(p, s) PROVE <<"clear", s>> \in lost'
    BY <2>5 DEF UnmatchedReadFails, Fault
  <2>3. ASSUME UnmatchedRead(p, s) PROVE Clears(p, s)' /\ p \in Workers
    <3>1. Clears(p, s)'
      BY <2>3 DEF UnmatchedRead, Jump, Clears, NoCall, TypeOK
    <3>2. QED
      BY <3>1, LocalsStep DEF Clears, Locals, LocalsOf
  <2>4. QED
    BY <2>2, <2>3, <2>5
<1>4. ASSUME NEW q \in Requests, call[q].op = "start", call[q].sid = s, q # p
      PROVE  call'[q].op = "start" /\ call'[q].sid = s
  BY <1>0, <1>4 DEF Procs
<1>5. ASSUME NEW q \in Workers, Clears(q, s), q # p
      PROVE  Clears(q, s)'
  BY <1>0, <1>5 DEF Procs, Clears
<1>6. ASSUME p \in Requests, call[p].op = "start", call[p].sid = s
      PROVE  \/ call'[p].op = "start" /\ call'[p].sid = s
             \/ job'[EU(s)] = "queued"
             \/ <<"start", s>> \in lost'
  <2>1. pc[p] \in {"start_hide", "start_notify", "start_queue"}
    BY <1>0, <1>6 DEF Locals, LocalsOf
  <2>2. CASE StartHide(p) \/ StartNotify(p)
    BY <1>6, <2>2 DEF StartHide, StartNotify, Goto
  <2>3. CASE StartQueue(p)
    <3>1. job[EU(s)] = "absent"
      BY <1>0, <1>6 DEF JobsInStep
    <3>2. job' = Added(job, "EndUnmatchedSession", s)
      BY <1>6, <2>3 DEF StartQueue
    <3>3. QED
      BY <1>0, <3>1, <3>2 DEF Added, TypeOK
  <2>4. CASE Crash(p)
    <3>1. <<"start", s>> \in CutBy(p)
      BY <1>6 DEF CutBy
    <3>2. QED
      BY <2>4, <3>1 DEF Crash, Fault
  <2>5. QED
    BY <2>1, <2>2, <2>3, <2>4
    DEF Move, Arrive, Take, Continue, Fail, At, Begin, StartRead, JoinRead,
        EndRequest, BreakoutRead, UnmatchedRead, ProcessTake, StaleRead, Sweep, UnmatchedReadFails, ClearJobs,
        StartCheckVolunteer, StartInsert, JoinClaim, JoinReply, ClearGet,
        ClearDel, ClearFails, BreakoutNotify, EndRead, EndRefused, EndCommit,
        EndThrows, EndMeeting, EndMeetingFails, EndQueue, UnmatchedDecide,
        StaleNext, ProcessFinish
<1>7. ASSUME Clears(p, s), exclusive[s] # None
      PROVE  \/ Clears(p, s)'
             \/ job'[EU(s)] = "queued"
             \/ <<"clear", s>> \in lost'
  <2>1. /\ call[p].op = "unmatched" /\ call[p].sid = s
        /\ pc[p] \in {"clear_get", "clear_del"} /\ call[p].next = "unmatched_decide"
    BY <1>7 DEF Clears
  <2>2. CASE ClearGet(p)
    BY <1>7, <2>1, <2>2 DEF ClearGet, Goto, Jump, Clears, TypeOK
  <2>3. CASE ClearFails(p)
    BY <2>1, <2>3 DEF ClearFails, Fault
  <2>4. ~ClearDel(p)
    BY <2>1 DEF ClearDel, TypeOK
  <2>5. CASE Crash(p)
    <3>1. CASE EU(s) \in stalled
      <4>1. <<"clear", s>> \in CutBy(p)
        BY <2>1, <3>1 DEF CutBy
      <4>2. QED
        BY <2>5, <4>1 DEF Crash, Fault
    <3>2. CASE EU(s) \notin stalled
      <4>1. EU(s) \in JobOf(p)
        BY <1>0, <2>1 DEF JobOf
      <4>2. QED
        BY <1>0, <2>5, <3>2, <4>1 DEF Crash
    <3>3. QED
      BY <3>1, <3>2
  <2>6. QED
    BY <2>1, <2>2, <2>3, <2>4, <2>5
    DEF Move, Arrive, Take, Continue, Fail, At, Begin, StartRead, JoinRead,
        EndRequest, BreakoutRead, UnmatchedRead, ProcessTake, StaleRead, Sweep, UnmatchedReadFails, ClearJobs,
        StartCheckVolunteer, StartInsert, StartHide, StartNotify, StartQueue,
        JoinClaim, JoinReply, BreakoutNotify, EndRead, EndRefused, EndCommit,
        EndThrows, EndMeeting, EndMeetingFails, EndQueue, UnmatchedDecide,
        StaleNext, ProcessFinish
<1>8. \/ exclusive[s] = None
      \/ \E q \in Requests : call[q].op = "start" /\ call[q].sid = s
      \/ job[EU(s)] = "queued"
      \/ \E q \in Workers : Clears(q, s)
      \/ {<<"start", s>>, <<"clear", s>>} \cap lost # {}
  BY DEF ExclusiveIsOwned, Clears
<1>9. QED
  BY <1>1, <1>2, <1>3, <1>4, <1>5, <1>6, <1>7, <1>8

-----------------------------------------------------------------------------
\* The inductive invariant.

LEMMA InitIInv == Init => IInv
<1> SUFFICES ASSUME Init PROVE IInv
  OBVIOUS
<1> USE DisjointUsers DEF Init
<1>1. TypeOK
  BY NoCallTyped, LabelFacts, FaultBound DEF TypeOK, JobStates, Ages
<1>2. Locals
  BY DEF Locals, LocalsOf, NoCall
<1>3. Unborn
  BY DEF Unborn, Exists, Kinds
<1>4. JobsInStep /\ HsetIsOnce /\ EndersTakePart
  BY DEF JobsInStep, HsetIsOnce, EndersTakePart, NoCall, Kinds
<1>5. EndsInStep
  BY DEF EndsInStep, InEndTail, Kinds
<1>6. /\ EndedIsHandled /\ ProcessedAtMostOnce /\ ExclusiveIsOwned
      /\ TextedIsPublic /\ ShadowBannedStayHidden /\ RightfulEnd
  BY DEF EndedIsHandled, ProcessedAtMostOnce, ExclusiveIsOwned, TextedIsPublic,
         ShadowBannedStayHidden, RightfulEnd
<1>7. QED
  BY <1>1, <1>2, <1>3, <1>4, <1>5, <1>6 DEF IInv

\* The passing of time touches the age of an active session and the history.
LEMMA TimePasses ==
    ASSUME TypeOK, NEW s \in Sessions, GrowOld(s)
    PROVE  /\ UNCHANGED <<rows, exclusive, texting, job, stalled, pc, call, faults, processed>>
           /\ age' \in [Sessions -> Ages] /\ \A t \in Sessions : ~Exists(t) => age'[t] = age[t]
           /\ lost \subseteq lost'
           /\ lost' \subseteq {"start", "clear", "unmatched", "end", "sweep", "once"} \X Sessions
BY DEF GrowOld, TypeOK, Active, Ages

LEMMA TimeKeeps ==
    ASSUME IInv, NEW s \in Sessions, GrowOld(s)
    PROVE  IInv'
<1> USE DEF IInv, rows
<1>0. /\ UNCHANGED <<rows, exclusive, texting, job, stalled, pc, call, faults, processed>>
      /\ age' \in [Sessions -> Ages] /\ \A t \in Sessions : ~Exists(t) => age'[t] = age[t]
      /\ lost \subseteq lost'
      /\ lost' \subseteq {"start", "clear", "unmatched", "end", "sweep", "once"} \X Sessions
  BY TimePasses
<1>1. TypeOK' /\ Unborn' /\ HsetIsOnce'
  BY <1>0 DEF TypeOK, Unborn, Exists, HsetIsOnce
<1>2. Locals'
  BY <1>0 DEF Locals, LocalsOf, Row, Exists
<1>3. EndersTakePart' /\ RightfulEnd' /\ ShadowBannedStayHidden' /\ TextedIsPublic'
  BY <1>0 DEF EndersTakePart, RightfulEnd, Participant, ShadowBannedStayHidden, TextedIsPublic
<1>4. EndedIsHandled' /\ ProcessedAtMostOnce' /\ ExclusiveIsOwned'
  BY <1>0 DEF EndedIsHandled, InEndTail, ProcessedAtMostOnce, ExclusiveIsOwned
<1>5. JobsInStep' /\ EndsInStep'
  BY <1>0 DEF JobsInStep, EndsInStep, InEnd, InEndTail
<1>6. QED
  BY <1>1, <1>2, <1>3, <1>4, <1>5

LEMMA StepIInv == IInv /\ [Next]_vars => IInv'
<1> SUFFICES ASSUME IInv, [Next]_vars PROVE IInv'
  OBVIOUS
<1> USE DEF IInv
<1>1. CASE UNCHANGED vars
  <2>1. TypeOK' /\ Unborn' /\ JobsInStep' /\ HsetIsOnce'
    BY <1>1 DEF vars, rows, hist, TypeOK, Unborn, Exists, JobsInStep, HsetIsOnce
  <2>2. Locals'
    BY <1>1 DEF vars, rows, hist, Locals, LocalsOf, Row, Exists
  <2>3. EndersTakePart' /\ RightfulEnd' /\ ShadowBannedStayHidden'
    BY <1>1 DEF vars, rows, hist, EndersTakePart, RightfulEnd, Participant,
                ShadowBannedStayHidden
  <2>4. EndedIsHandled' /\ ProcessedAtMostOnce' /\ TextedIsPublic'
    BY <1>1 DEF vars, rows, hist, EndedIsHandled, InEndTail, ProcessedAtMostOnce,
                TextedIsPublic
  <2>5. ExclusiveIsOwned' /\ EndsInStep'
    BY <1>1 DEF vars, rows, hist, ExclusiveIsOwned, EndsInStep, InEnd, InEndTail
  <2>6. QED
    BY <2>1, <2>2, <2>3, <2>4, <2>5
<1>3. CASE \E s \in Sessions : GrowOld(s)
  BY <1>3, TimeKeeps
<1>2. CASE \E p \in Procs : Move(p)
  <2>1. PICK p \in Procs : Move(p)
    BY <1>2
  <2>2. TypeOK' /\ Locals' /\ Unborn' /\ JobsInStep' /\ EndsInStep'
    BY <2>1, TypeStep, LocalsStep, UnbornStep, JobsStep, EndsStep
  <2>3. HsetIsOnce' /\ EndersTakePart' /\ EndedIsHandled'
    BY <2>1, HsetStep, EndersStep, HandledStep
  <2>4. ProcessedAtMostOnce' /\ ExclusiveIsOwned' /\ TextedIsPublic'
    BY <2>1, ProcessedStep, OwnedStep, TextedStep
  <2>5. ShadowBannedStayHidden' /\ RightfulEnd'
    BY <2>1, ShadowStep, RightfulStep
  <2>6. QED
    BY <2>2, <2>3, <2>4, <2>5
<1>4. QED
  BY <1>1, <1>2, <1>3, NextMoves

\* Every behaviour of the session lifecycle satisfies the inductive invariant
\* behind the safety properties, for any number of users, sessions, requests,
\* worker slots and faults.
THEOREM Invariance == Spec => []IInv
BY InitIInv, StepIInv, PTL DEF Spec

\* The variables keep their types, whatever requests, jobs and crashes do.
THEOREM TypeCorrect == Spec => []TypeOK
<1>1. IInv => TypeOK
  BY DEF IInv
<1>2. QED
  BY <1>1, Invariance, PTL

\* A session whose end was committed has its post-session job queued, or an
\* endSession call on its way there, or a fault to show for it.
THEOREM NoEndIsForgotten == Spec => []EndedIsHandled
<1>1. IInv => EndedIsHandled
  BY DEF IInv
<1>2. QED
  BY <1>1, Invariance, PTL

\* The post-session job of a session completes at most once, however many
\* endSession calls race and whichever workers stall.
THEOREM PostProcessingIsOnce == Spec => []ProcessedAtMostOnce
<1>1. IInv => ProcessedAtMostOnce
  BY DEF IInv
<1>2. QED
  BY <1>1, Invariance, PTL

\* An entry of exclusiveRequestSessions always has a call or a job ahead of it
\* that will remove it, or a fault to show for it.
THEOREM NoEntryIsOrphaned == Spec => []ExclusiveIsOwned
<1>1. IInv => ExclusiveIsOwned
  BY DEF IInv
<1>2. QED
  BY <1>1, Invariance, PTL

\* Regular text messages never go out for an exclusive request.
THEOREM ExclusiveIsNotTexted == Spec => []TextedIsPublic
<1>1. IInv => TextedIsPublic
  BY DEF IInv
<1>2. QED
  BY <1>1, Invariance, PTL

\* A shadow-banned student reaches no volunteer but an admin.
THEOREM ShadowBanHolds == Spec => []ShadowBannedStayHidden
<1>1. IInv => ShadowBannedStayHidden
  BY DEF IInv
<1>2. QED
  BY <1>1, Invariance, PTL

\* The user recorded as having ended a session takes part in it.
THEOREM OnlyParticipantsEnd == Spec => []RightfulEnd
<1>1. IInv => RightfulEnd
  BY DEF IInv
<1>2. QED
  BY <1>1, Invariance, PTL

-----------------------------------------------------------------------------
\* The refinement.

TheRow(s) == [student |-> student[s], volunteer |-> volunteer[s],
              closed |-> ended[s], closedBy |-> endedBy[s]]
TheRows   == [s \in Sessions |-> TheRow(s)]

LEMMA StudentMoves ==
    ASSUME TypeOK, NEW p \in Procs, Move(p),
           \A s \in Sessions : ~StartInsert(p, s)
    PROVE  student' = student
BY DEF Move, Arrive, Take, Continue, Fail, StartRead, JoinRead, rows,
   EndRequest, BreakoutRead, UnmatchedRead, ProcessTake, StaleRead, Sweep, UnmatchedReadFails, ClearJobs,
   StartCheckVolunteer, StartHide, StartNotify, StartQueue, JoinClaim,
   JoinReply, ClearGet, ClearDel, ClearFails, BreakoutNotify, EndRead,
   EndRefused, EndCommit, EndThrows, EndMeeting, EndMeetingFails,
   EndQueue, UnmatchedDecide, StaleNext, ProcessFinish, Crash

LEMMA RecordStep ==
    ASSUME IInv, NEW p \in Procs, Move(p)
    PROVE  Record!Next \/ TheRows' = TheRows
<1>0. TypeOK /\ Locals /\ Unborn /\ EndersTakePart
  BY DEF IInv
<1>1. ASSUME NEW s \in Sessions, StartInsert(p, s)
      PROVE  Record!Next
  <2>1. PICK u \in Students : u = call[p].user
    BY <1>0, <1>1, OpAt DEF StartInsert, At, Locals, LocalsOf
  <2>2. student[s] = None /\ volunteer[s] = None /\ ended[s] = FALSE /\ endedBy[s] = None
    BY <1>0, <1>1 DEF StartInsert, Unborn, Exists, TypeOK
  <2>3. TheRows[s] = Record!NoRow
    BY <2>2 DEF TheRows, TheRow, Record!NoRow
  <2>4. TheRows' = [TheRows EXCEPT ![s].student = u]
    BY <1>0, <1>1, <2>1 DEF StartInsert, TheRows, TheRow, TypeOK
  <2>5. Record!Open(s, u)
    BY <2>3, <2>4 DEF Record!Open, TheRows, TheRow
  <2>6. QED
    BY <2>5 DEF Record!Next
<1>2. CASE JoinClaim(p) /\ volunteer' # volunteer
  <2>1. PICK s \in Sessions, v \in Volunteers :
            s = call[p].sid /\ v = call[p].user /\ Exists(s)
    BY <1>0, <1>2, Sited, OpAt DEF JoinClaim, At, Locals, LocalsOf, Row
  <2>2. volunteer[s] = None /\ volunteer' = [volunteer EXCEPT ![s] = v]
    BY <1>0, <1>2, <2>1, VolunteerMoves
  <2>3. TheRows' = [TheRows EXCEPT ![s].volunteer = v]
    BY <1>0, <1>2, <2>2 DEF JoinClaim, TheRows, TheRow, TypeOK
  <2>4. Record!Claim(s, v)
    BY <2>1, <2>2, <2>3 DEF Record!Claim, TheRows, TheRow, Exists
  <2>5. QED
    BY <2>4 DEF Record!Next
<1>3. CASE EndCommit(p)
  <2>1. PICK s \in Sessions, u \in Users \cup {None} :
            /\ s = call[p].sid /\ u = call[p].user /\ Exists(s)
            /\ u # None => Participant(u, s)
    BY <1>0, <1>3, Sited DEF EndCommit, At, EndersTakePart, TypeOK, Calls, Row
  <2>2. TheRows' = [TheRows EXCEPT ![s].closed = TRUE, ![s].closedBy = u]
    BY <1>0, <1>3, <2>1 DEF EndCommit, TheRows, TheRow, TypeOK
  <2>3. Record!Close(s, u)
    BY <2>1, <2>2 DEF Record!Close, Record!TakesPart, Participant, TheRows,
                      TheRow, Exists
  <2>4. QED
    BY <2>3 DEF Record!Next, Users
<1>4. CASE /\ \A s \in Sessions : ~StartInsert(p, s)
           /\ volunteer' = volunteer /\ ~EndCommit(p)
  BY <1>0, <1>4, StudentMoves, EndedMoves DEF TheRows, TheRow
<1>5. volunteer' = volunteer \/ JoinClaim(p)
  BY <1>0, VolunteerMoves
<1>6. QED
  BY <1>1, <1>2, <1>3, <1>4, <1>5

\* The rows of the sessions table behave as SessionRecord promises: the
\* lifecycle, with all its racing requests and jobs, implements it.
THEOREM Implements == Spec => ImplementsRecord
<1>1. Init => Record!Init
  BY DEF Init, Record!Init, Record!NoRow
<1>2. IInv /\ [Next]_vars => [Record!Next]_TheRows
  <2> SUFFICES ASSUME IInv, [Next]_vars PROVE Record!Next \/ TheRows' = TheRows
    OBVIOUS
  <2>1. CASE UNCHANGED vars
    BY <2>1 DEF vars, rows, TheRows, TheRow
  <2>2. CASE ~UNCHANGED vars
    <3>1. ASSUME NEW s \in Sessions, GrowOld(s) PROVE TheRows' = TheRows
      BY <3>1 DEF GrowOld, rows, TheRows, TheRow
    <3>2. QED
      BY <2>2, <3>1, NextMoves, RecordStep
  <2>3. QED
    BY <2>1, <2>2
<1>3. QED
  BY <1>1, <1>2, Invariance, PTL DEF Spec, ImplementsRecord, Record!Spec, TheRows, TheRow

=============================================================================
