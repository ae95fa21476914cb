----------------------- MODULE SessionMeeting_proofs -----------------------
(***************************************************************************)
(* Proofs about SessionMeeting, for every number of users, requests and    *)
(* meetings: the race to create the meeting is settled by the unique key   *)
(* of session_meetings alone, whatever calls to Chime fail.                *)
(***************************************************************************)
EXTENDS SessionMeeting, TLAPS

\* Past the row, a request works on the meeting of the row; before it, on one
\* that the row does not have and in which it alone has an attendee.
InHandOf(p) ==
    /\ pc[p] \in {"read", "create", "insert", "cleanup", "reread", "get", "list",
                  "attend"} => call[p].user \in Users
    /\ pc[p] \in {"get", "list", "attend", "rec_start", "close_delete"}
          => row # None /\ call[p].meeting = row
    /\ pc[p] = "insert" =>
          /\ call[p].meeting \in created
          /\ call[p].meeting # row
          /\ attendees[call[p].meeting] = {call[p].user}
    /\ pc[p] = "attend" => call[p].partner # None
    /\ pc[p] \in {"close_read", "close_delete"} /\ call[p].ends => ended

InHand == \A p \in Requests : InHandOf(p)

\* No two requests are about to insert the same meeting.
Distinct ==
    \A p, q \in Requests :
        p # q /\ pc[p] = "insert" /\ pc[q] = "insert"
            => call[p].meeting # call[q].meeting

\* The meeting on record was created, with an attendee in it.
OnRecord == row # None => row \in created /\ attendees[row] # {}

\* Every answer names the meeting on record and a user who can attend it.
AnswersFit ==
    \A a \in answers :
        row # None /\ a.meeting = row /\ a.user \in attendees[row]

IInv ==
    /\ TypeOK /\ InHand /\ Distinct /\ OnRecord /\ AnswersFit /\ OneIsAlone
    /\ closed => ended
    /\ ClosedStaysClosed

\* What request p may do.
Step(p) ==
    \/ \E u \in Users : \/ OpenRequest(p, u) \/ RecordRequest(p, u)
                        \/ CloseRequest(p, u) \/ EndSession(p, u)
    \/ Open(p) \/ Record(p) \/ Close(p) \/ Fail(p)


-----------------------------------------------------------------------------
\* Typing.

LEMMA LabelFacts ==
    /\ "idle" \in Labels /\ "read" \in Labels /\ "create" \in Labels
    /\ "insert" \in Labels /\ "cleanup" \in Labels /\ "reread" \in Labels
    /\ "get" \in Labels /\ "list" \in Labels /\ "attend" \in Labels
    /\ "rec_read" \in Labels /\ "rec_start" \in Labels /\ "rec_save" \in Labels
    /\ "close_read" \in Labels /\ "close_delete" \in Labels
BY DEF Labels

LEMMA NoCallTyped == NoCall \in Calls
BY ConstantsOK DEF NoCall, Calls, ConstantsOK

LEMMA CallTyped ==
    ASSUME NEW c \in Calls
    PROVE  /\ \A m \in Meetings \cup {None} : [c EXCEPT !.meeting = m] \in Calls
           /\ \A u \in Users \cup {None} : [c EXCEPT !.user = u] \in Calls
           /\ \A u \in Users \cup {None} : [c EXCEPT !.partner = u] \in Calls
           /\ \A u \in Users : [c EXCEPT !.user = u, !.ends = TRUE] \in Calls
           /\ \A i \in 0..MaxRecordings : [c EXCEPT !.id = i] \in Calls
<1>1. ASSUME NEW m \in Meetings \cup {None} PROVE [c EXCEPT !.meeting = m] \in Calls
  BY DEF Calls
<1>2. ASSUME NEW u \in Users \cup {None} PROVE [c EXCEPT !.user = u] \in Calls
  BY DEF Calls
<1>3. ASSUME NEW u \in Users \cup {None} PROVE [c EXCEPT !.partner = u] \in Calls
  BY DEF Calls
<1>4. ASSUME NEW u \in Users PROVE [c EXCEPT !.user = u, !.ends = TRUE] \in Calls
  BY DEF Calls
<1>5. ASSUME NEW i \in 0..MaxRecordings PROVE [c EXCEPT !.id = i] \in Calls
  BY DEF Calls
<1>6. QED
  BY <1>1, <1>2, <1>3, <1>4, <1>5

\* The two variables of the requests keep their types.
ReqsTyped == pc \in [Requests -> Labels] /\ call \in [Requests -> Calls]

LEMMA JumpTyped ==
    ASSUME TypeOK, NEW p \in Requests, NEW label \in Labels, NEW c \in Calls,
           Goto(p, label), call' = [call EXCEPT ![p] = c]
    PROVE  ReqsTyped'
BY DEF TypeOK, Goto, ReqsTyped

LEMMA StayTyped ==
    ASSUME TypeOK, NEW p \in Requests, NEW label \in Labels, Goto(p, label),
           UNCHANGED call
    PROVE  ReqsTyped'
BY DEF TypeOK, Goto, ReqsTyped

LEMMA DoneTyped == ASSUME TypeOK, NEW p \in Requests, Done(p) PROVE ReqsTyped'
BY JumpTyped, NoCallTyped, LabelFacts DEF Done

\* The fields of a request's locals.
LEMMA CallFields ==
    ASSUME TypeOK, NEW p \in Requests
    PROVE  /\ call[p] \in Calls
           /\ call[p].user \in Users \cup {None}
           /\ call[p].partner \in Users \cup {None}
           /\ call[p].meeting \in Meetings \cup {None}
           /\ call[p].id \in 0..MaxRecordings
           /\ call[p].ends \in BOOLEAN
BY DEF TypeOK, Calls

\* What POST /meeting answers.
AnswerType == [user : Users, meeting : Meetings, partner : Users \cup {None}]

LEMMA AnswerTyped ==
    ASSUME TypeOK, NEW p \in Requests, call[p].user \in Users, NEW m \in Meetings,
           NEW partner \in Users \cup {None}, Answer(p, m, partner)
    PROVE  answers' \subseteq AnswerType /\ ReqsTyped'
<1>1. [user |-> call[p].user, meeting |-> m, partner |-> partner] \in AnswerType
  BY DEF AnswerType
<1>2. answers \subseteq AnswerType
  BY DEF TypeOK, AnswerType
<1>3. QED
  BY <1>1, <1>2, DoneTyped DEF Answer

LEMMA NextPipeline ==
    ASSUME TypeOK, pipelines < MaxRecordings
    PROVE  pipelines + 1 \in 0..MaxRecordings
BY ConstantsOK DEF TypeOK, ConstantsOK

LEMMA TypeStep == ASSUME TypeOK, InHand, NEW p \in Requests, Step(p) PROVE TypeOK'
<1> USE LabelFacts, NoCallTyped, CallFields, CallTyped, ConstantsOK
    DEF chime, ConstantsOK
<1>a. ASSUME NEW m \in Meetings \cup {None}, NEW label \in Labels,
             call' = [call EXCEPT ![p].meeting = m], Goto(p, label)
      PROVE  ReqsTyped'
  BY <1>a, JumpTyped, [call[p] EXCEPT !.meeting = m] \in Calls
<1>1. ASSUME NEW u \in Users, OpenRequest(p, u) PROVE TypeOK'
  BY <1>1, JumpTyped DEF OpenRequest, Begin, TypeOK, ReqsTyped
<1>2. ASSUME NEW u \in Users, RecordRequest(p, u) PROVE TypeOK'
  BY <1>2, JumpTyped DEF RecordRequest, Begin, TypeOK, ReqsTyped
<1>3. ASSUME NEW u \in Users, CloseRequest(p, u) PROVE TypeOK'
  BY <1>3, JumpTyped DEF CloseRequest, Begin, TypeOK, ReqsTyped
<1>4. ASSUME NEW u \in Users, EndSession(p, u) PROVE TypeOK'
  BY <1>4, JumpTyped DEF EndSession, Begin, TypeOK, ReqsTyped
<1>5. CASE Open(p)
  <2>1. CASE Read(p)
    BY <2>1, <1>a DEF Read, TypeOK, ReqsTyped
  <2>2. CASE Create(p)
    <3>1. PICK m \in Meetings \ created : 
              /\ created' = created \cup {m}
              /\ live' = live \cup {m}
              /\ attendees' = [attendees EXCEPT ![m] = {call[p].user}]
              /\ call' = [call EXCEPT ![p].meeting = m]
      BY <2>2 DEF Create
    <3>2. call[p].user \in Users
      BY <2>2 DEF Create, InHand, InHandOf, At
    <3>3. ReqsTyped'
      BY <2>2, <3>1, <1>a DEF Create
    <3>4. QED
      BY <2>2, <3>1, <3>2, <3>3 DEF Create, TypeOK, ReqsTyped
  <2>3. CASE Insert(p)
    <3>1. call[p].user \in Users /\ call[p].meeting \in Meetings
      BY <2>3 DEF Insert, InHand, InHandOf, At, TypeOK
    <3>2. CASE Answer(p, call[p].meeting, None) /\ row' = call[p].meeting
      BY <2>3, <3>1, <3>2, AnswerTyped DEF Insert, TypeOK, ReqsTyped, AnswerType
    <3>3. CASE Goto(p, "cleanup") /\ UNCHANGED <<row, call, answers, late>>
      BY <2>3, <3>3, StayTyped DEF Insert, TypeOK, ReqsTyped
    <3>4. QED
      BY <2>3, <3>2, <3>3 DEF Insert
  <2>4. CASE Cleanup(p)
    BY <2>4, StayTyped DEF Cleanup, TypeOK, ReqsTyped
  <2>5. CASE Reread(p)
    BY <2>5, <1>a, DoneTyped DEF Reread, TypeOK, ReqsTyped
  <2>6. CASE Get(p)
    BY <2>6, StayTyped, DoneTyped DEF Get, TypeOK, ReqsTyped
  <2>7. CASE List(p)
    <3>1. call[p].user \in Users /\ call[p].meeting \in Meetings
      BY <2>7 DEF List, InHand, InHandOf, At, TypeOK
    <3> DEFINE rest == attendees[call[p].meeting] \ {call[p].user}
               others == IF rest = {} THEN {None} ELSE rest
    <3>2. \A partner \in others : partner \in Users \cup {None}
      BY <3>1 DEF TypeOK
    <3>3. CASE Done(p) /\ UNCHANGED answers
      BY <2>7, <3>3, DoneTyped DEF List, TypeOK, ReqsTyped
    <3>4. CASE \E partner \in others : Answer(p, call[p].meeting, partner)
      BY <2>7, <3>1, <3>2, <3>4, AnswerTyped DEF List, TypeOK, ReqsTyped, AnswerType
    <3>5. CASE /\ \E partner \in others : call' = [call EXCEPT ![p].partner = partner]
               /\ Goto(p, "attend") /\ UNCHANGED answers
      <4>1. PICK partner \in others : call' = [call EXCEPT ![p].partner = partner]
        BY <3>5
      <4>2. ReqsTyped'
        BY <3>2, <3>5, <4>1, JumpTyped, [call[p] EXCEPT !.partner = partner] \in Calls
      <4>3. QED
        BY <2>7, <3>5, <4>2 DEF List, TypeOK, ReqsTyped
    <3>6. QED
      BY <2>7, <3>3, <3>4, <3>5 DEF List
  <2>8. CASE Attend(p)
    <3>1. call[p].user \in Users /\ call[p].meeting \in Meetings
      BY <2>8 DEF Attend, InHand, InHandOf, At, TypeOK
    <3>2. CASE Answer(p, call[p].meeting, call[p].partner)
      <4>1. answers' \subseteq AnswerType /\ ReqsTyped'
        BY <3>1, <3>2, AnswerTyped
      <4>2. attendees' \in [Meetings -> SUBSET Users]
        <5>1. CASE attendees' = [attendees EXCEPT ![call[p].meeting] =
                                     @ \cup {call[p].user}]
          <6>1. attendees[call[p].meeting] \cup {call[p].user} \in SUBSET Users
            BY <3>1 DEF TypeOK
          <6>2. QED
            BY <3>1, <5>1, <6>1 DEF TypeOK
        <5>2. CASE attendees' = attendees
          BY <5>2 DEF TypeOK
        <5>3. QED
          BY <2>8, <5>1, <5>2 DEF Attend
      <4>3. QED
        BY <2>8, <4>1, <4>2 DEF Attend, TypeOK, ReqsTyped, AnswerType
    <3>3. CASE Done(p) /\ UNCHANGED <<attendees, answers>>
      BY <2>8, <3>3, DoneTyped DEF Attend, TypeOK, ReqsTyped
    <3>4. QED
      BY <2>8, <3>2, <3>3 DEF Attend
  <2>9. QED
    BY <1>5, <2>1, <2>2, <2>3, <2>4, <2>5, <2>6, <2>7, <2>8 DEF Open
<1>6. CASE Record(p)
  <2>1. CASE RecordRead(p)
    BY <2>1, <1>a, DoneTyped DEF RecordRead, TypeOK, ReqsTyped
  <2>2. CASE RecordStart(p)
    <3>1. CASE Done(p) /\ UNCHANGED pipelines
      BY <2>2, <3>1, DoneTyped DEF RecordStart, TypeOK, ReqsTyped
    <3>2. CASE /\ pipelines < MaxRecordings /\ pipelines' = pipelines + 1
               /\ call' = [call EXCEPT ![p].id = pipelines + 1]
               /\ Goto(p, "rec_save")
      <4>1. pipelines + 1 \in 0..MaxRecordings
        BY <3>2, NextPipeline
      <4>2. ReqsTyped'
        BY <3>2, <4>1, JumpTyped, [call[p] EXCEPT !.id = pipelines + 1] \in Calls
      <4>3. QED
        BY <2>2, <3>2, <4>1, <4>2 DEF RecordStart, TypeOK, ReqsTyped
    <3>3. QED
      BY <2>2, <3>1, <3>2 DEF RecordStart
  <2>3. CASE RecordSave(p)
    BY <2>3, DoneTyped DEF RecordSave, TypeOK, ReqsTyped
  <2>4. QED
    BY <1>6, <2>1, <2>2, <2>3 DEF Record
<1>7. CASE Close(p)
  <2>1. CASE CloseRead(p)
    BY <2>1, <1>a, DoneTyped DEF CloseRead, TypeOK, ReqsTyped
  <2>2. CASE CloseDelete(p)
    BY <2>2, DoneTyped DEF CloseDelete, TypeOK, ReqsTyped
  <2>3. QED
    BY <1>7, <2>1, <2>2 DEF Close
<1>8. CASE Fail(p)
  BY <1>8, DoneTyped DEF Fail, TypeOK, ReqsTyped
<1>9. QED
  BY <1>1, <1>2, <1>3, <1>4, <1>5, <1>6, <1>7, <1>8 DEF Step

-----------------------------------------------------------------------------
\* What a step of p leaves in place: the other requests; the row once there is
\* one; the attendees of every meeting, and of all but the row's exactly; the
\* absence of a meeting that was deleted.
Frame(p) ==
    /\ \A q \in Requests : q # p => pc'[q] = pc[q] /\ call'[q] = call[q]
    /\ created \subseteq created'
    /\ \A m \in created : /\ attendees[m] \subseteq attendees'[m]
                          /\ m # row => attendees'[m] = attendees[m]
                          /\ m \in live' => m \in live
    /\ \/ row' = row
       \/ /\ row = None /\ pc[p] = "insert" /\ row' = call[p].meeting
          /\ late' = (late \/ ended) /\ closed' = closed
    /\ ended => ended'
    /\ late => late'

LEMMA StepFrame == ASSUME IInv, NEW p \in Requests, Step(p) PROVE Frame(p)
<1> USE DEF chime, Frame, Goto
<1>1. TypeOK /\ InHandOf(p)
  BY DEF IInv, InHand
<1>2. pc \in [Requests -> Labels] /\ call \in [Requests -> Calls]
      /\ attendees \in [Meetings -> SUBSET Users] /\ created \subseteq Meetings
  BY <1>1 DEF TypeOK
<1>3. CASE \E u \in Users : \/ OpenRequest(p, u) \/ RecordRequest(p, u)
                            \/ CloseRequest(p, u) \/ EndSession(p, u)
  BY <1>2, <1>3 DEF OpenRequest, RecordRequest, CloseRequest, EndSession, Begin
<1>4. CASE Read(p) \/ Cleanup(p) \/ Reread(p) \/ Get(p)
  BY <1>2, <1>4 DEF Read, Cleanup, Reread, Get, Done
<1>5. CASE Create(p)
  <2>1. PICK m \in Meetings \ created :
            /\ created' = created \cup {m}
            /\ live' = live \cup {m}
            /\ attendees' = [attendees EXCEPT ![m] = {call[p].user}]
            /\ call' = [call EXCEPT ![p].meeting = m]
    BY <1>5 DEF Create
  <2>2. \A k \in created : attendees'[k] = attendees[k] /\ (k \in live' => k \in live)
    BY <1>2, <2>1
  <2>3. QED
    BY <1>2, <1>5, <2>1, <2>2 DEF Create
<1>6. CASE Insert(p)
  <2>1. late \in BOOLEAN
    BY <1>1 DEF TypeOK
  <2>2. UNCHANGED <<live, attendees, created, ended, closed>> /\ pc[p] = "insert"
    BY <1>6 DEF Insert, At
  <2>3. CASE Goto(p, "cleanup") /\ UNCHANGED <<row, call, late>>
    BY <1>2, <2>2, <2>3
  <2>4. CASE /\ row = None /\ row' = call[p].meeting /\ late' = (late \/ ended)
             /\ Done(p)
    <3>1. \A q \in Requests : q # p => pc'[q] = pc[q] /\ call'[q] = call[q]
      BY <1>2, <2>4 DEF Done
    <3>2. late => late'
      BY <2>1, <2>4
    <3>3. QED
      BY <2>2, <2>4, <3>1, <3>2
  <2>5. QED
    BY <1>6, <2>3, <2>4 DEF Insert, Answer
<1>7. CASE List(p)
  BY <1>2, <1>7 DEF List, Answer, Done
<1>8. CASE Attend(p)
  BY <1>1, <1>2, <1>8 DEF Attend, Answer, Done, At, InHandOf
<1>9. CASE Record(p)
  BY <1>2, <1>9 DEF Record, RecordRead, RecordStart, RecordSave, Done
<1>10. CASE Close(p)
  BY <1>2, <1>10 DEF Close, CloseRead, CloseDelete, Done
<1>11. CASE Fail(p)
  BY <1>2, <1>11 DEF Fail, Done
<1>12. QED
  BY <1>3, <1>4, <1>5, <1>6, <1>7, <1>8, <1>9, <1>10, <1>11 DEF Step, Open

\* The requests that do not move keep what they rely on.
LEMMA OthersInHand ==
    ASSUME IInv, NEW p \in Requests, Frame(p), NEW q \in Requests, q # p
    PROVE  InHandOf(q)'
<1>1. InHandOf(q) /\ pc'[q] = pc[q] /\ call'[q] = call[q]
  BY DEF IInv, InHand, Frame
<1>2. ASSUME pc[q] = "insert"
      PROVE  /\ call[q].meeting \in created' /\ call[q].meeting # row'
             /\ attendees'[call[q].meeting] = {call[q].user}
  BY <1>1, <1>2 DEF IInv, InHandOf, Distinct, Frame
<1>3. ASSUME row # None PROVE row' = row
  BY <1>3 DEF Frame
<1>4. ended => ended'
  BY DEF Frame
<1>5. QED
  BY <1>1, <1>2, <1>3, <1>4 DEF InHandOf

\* The request that moves.
LEMMA OwnInHand ==
    ASSUME IInv, TypeOK', NEW p \in Requests, Step(p) PROVE InHandOf(p)'
<1> USE DEF chime, Goto, At
<1>1. TypeOK /\ InHandOf(p)
  BY DEF IInv, InHand
<1>2. pc \in [Requests -> Labels] /\ call \in [Requests -> Calls]
      /\ call[p] \in Calls
  BY <1>1 DEF TypeOK
<1>3. ASSUME Done(p) PROVE InHandOf(p)'
  BY <1>2, <1>3 DEF Done, InHandOf
<1>4. CASE \E u \in Users : \/ OpenRequest(p, u) \/ RecordRequest(p, u)
                            \/ CloseRequest(p, u) \/ EndSession(p, u)
  <2> PICK u \in Users : \/ OpenRequest(p, u) \/ RecordRequest(p, u)
                         \/ CloseRequest(p, u) \/ EndSession(p, u)
    BY <1>4
  <2>1. CASE OpenRequest(p, u) \/ RecordRequest(p, u) \/ CloseRequest(p, u)
    <3>1. pc'[p] \in {"read", "rec_read", "close_read"}
          /\ call'[p] = [NoCall EXCEPT !.user = u]
      BY <1>2, <2>1 DEF OpenRequest, RecordRequest, CloseRequest, Begin
    <3>2. call'[p].user = u /\ ~call'[p].ends
      BY <3>1 DEF NoCall
    <3>3. QED
      BY <3>1, <3>2 DEF InHandOf
  <2>2. CASE EndSession(p, u)
    BY <1>2, <2>2 DEF EndSession, Begin, InHandOf
  <2>3. QED
    BY <2>1, <2>2
<1>5. CASE Read(p)
  <2>1. pc'[p] = IF row = None THEN "create" ELSE "get"
    BY <1>2, <1>5 DEF Read
  <2>2. call'[p].meeting = row /\ call'[p].user = call[p].user
    BY <1>2, <1>5 DEF Read, Calls
  <2>3. QED
    BY <1>1, <1>5, <2>1, <2>2 DEF Read, InHandOf
<1>6. CASE Create(p)
  <2>1. PICK m \in Meetings \ created : 
            /\ created' = created \cup {m}
            /\ attendees' = [attendees EXCEPT ![m] = {call[p].user}]
            /\ call' = [call EXCEPT ![p].meeting = m]
    BY <1>6 DEF Create
  <2>2. call'[p].meeting = m /\ call'[p].user = call[p].user
    BY <1>2, <2>1 DEF Calls
  <2>3. pc'[p] = "insert" /\ pc[p] = "create" /\ row' = row
    BY <1>2, <1>6 DEF Create
  <2>4. m # row
    BY ConstantsOK DEF IInv, OnRecord, ConstantsOK
  <2>5. attendees'[m] = {call[p].user}
    BY <1>1, <2>1 DEF TypeOK
  <2>6. QED
    BY <1>1, <2>1, <2>2, <2>3, <2>4, <2>5 DEF InHandOf
<1>7. CASE Insert(p)
  <2>1. CASE Goto(p, "cleanup") /\ UNCHANGED <<row, call, answers, late>>
    BY <1>1, <1>2, <1>7, <2>1 DEF Insert, InHandOf
  <2>2. QED
    BY <1>3, <1>7, <2>1 DEF Insert, Answer
<1>8. CASE Cleanup(p)
  BY <1>1, <1>2, <1>8 DEF Cleanup, InHandOf
<1>9. CASE Reread(p)
  <2>1. CASE row # None
    <3>1. pc'[p] = "get" /\ row' = row /\ pc[p] = "reread"
      BY <1>2, <1>9, <2>1 DEF Reread
    <3>2. call'[p].meeting = row /\ call'[p].user = call[p].user
      BY <1>2, <1>9, <2>1 DEF Reread, Calls
    <3>3. QED
      BY <1>1, <2>1, <3>1, <3>2 DEF InHandOf
  <2>2. QED
    BY <1>3, <1>9, <2>1 DEF Reread
<1>10. CASE Get(p)
  <2>1. CASE Goto(p, "list") /\ UNCHANGED call
    BY <1>1, <1>2, <1>10, <2>1 DEF Get, InHandOf
  <2>2. QED
    BY <1>3, <1>10, <2>1 DEF Get
<1>11. CASE List(p)
  <2> DEFINE rest   == attendees[call[p].meeting] \ {call[p].user}
             others == IF rest = {} THEN {None} ELSE rest
  <2>1. CASE /\ call[p].user \notin attendees[call[p].meeting]
             /\ \E partner \in others : call' = [call EXCEPT ![p].partner = partner]
             /\ Goto(p, "attend")
    <3>1. PICK partner \in others : call' = [call EXCEPT ![p].partner = partner]
      BY <2>1
    <3>2. pc'[p] = "attend" /\ row' = row /\ pc[p] = "list"
      BY <1>2, <1>11, <2>1 DEF List
    <3>3. /\ call'[p].partner = partner /\ call'[p].user = call[p].user
          /\ call'[p].meeting = call[p].meeting
      BY <1>2, <3>1 DEF Calls
    <3>4. row # None /\ call[p].meeting = row
      BY <1>1, <3>2 DEF InHandOf
    <3>5. row \in created /\ attendees[row] # {} /\ attendees[row] \subseteq Users
      BY <1>1, <3>4 DEF IInv, OnRecord, TypeOK
    <3>6. partner # None
      BY <2>1, <3>4, <3>5, ConstantsOK DEF ConstantsOK
    <3>7. QED
      BY <1>1, <3>2, <3>3, <3>4, <3>6 DEF InHandOf
  <2>2. QED
    BY <1>3, <1>11, <2>1 DEF List, Answer
<1>12. CASE Attend(p)
  BY <1>3, <1>12 DEF Attend, Answer
<1>13. CASE Record(p)
  <2>1. CASE RecordRead(p) /\ row # None /\ recording = 0
    <3>1. CASE Done(p)
      BY <1>3, <3>1
    <3>2. CASE call' = [call EXCEPT ![p].meeting = row] /\ Goto(p, "rec_start")
      <4>1. pc'[p] = "rec_start" /\ row' = row
        BY <1>2, <2>1, <3>2 DEF RecordRead
      <4>2. call'[p].meeting = row
        BY <1>2, <3>2 DEF Calls
      <4>3. QED
        BY <2>1, <4>1, <4>2 DEF InHandOf
    <3>3. QED
      BY <2>1, <3>1, <3>2 DEF RecordRead
  <2>2. CASE RecordStart(p)
    <3>1. CASE Goto(p, "rec_save")
      BY <1>2, <3>1 DEF InHandOf
    <3>2. QED
      BY <1>3, <2>2, <3>1 DEF RecordStart
  <2>3. QED
    BY <1>3, <1>13, <2>1, <2>2 DEF Record, RecordRead, RecordSave
<1>14. CASE Close(p)
  <2>1. CASE CloseRead(p) /\ row # None
    <3>1. pc'[p] = "close_delete" /\ row' = row /\ pc[p] = "close_read" /\ ended' = ended
      BY <1>2, <2>1 DEF CloseRead
    <3>2. call'[p].meeting = row /\ call'[p].ends = call[p].ends
      BY <1>2, <2>1 DEF CloseRead, Calls
    <3>3. QED
      BY <1>1, <2>1, <3>1, <3>2 DEF InHandOf
  <2>2. QED
    BY <1>3, <1>14, <2>1 DEF Close, CloseRead, CloseDelete
<1>15. CASE Fail(p)
  BY <1>3, <1>15 DEF Fail
<1>16. QED
  BY <1>4, <1>5, <1>6, <1>7, <1>8, <1>9, <1>10, <1>11, <1>12, <1>13, <1>14, <1>15
     DEF Step, Open

LEMMA InHandStep ==
    ASSUME IInv, TypeOK', NEW p \in Requests, Step(p) PROVE InHand'
BY StepFrame, OthersInHand, OwnInHand DEF InHand

\* A meeting that p is about to insert is one that p has had in hand since it
\* made it, and a new meeting is in nobody's hands.
LEMMA DistinctStep ==
    ASSUME IInv, TypeOK', NEW p \in Requests, Step(p) PROVE Distinct'
<1>1. Frame(p) /\ InHand
  BY StepFrame DEF IInv
<1>2. ASSUME pc'[p] = "insert", NEW q \in Requests, q # p, pc'[q] = "insert"
      PROVE  call'[p].meeting # call'[q].meeting
  <2>1. Create(p)
    BY <1>2 DEF IInv, TypeOK, Step, Open, Record, Close, OpenRequest,
                RecordRequest, CloseRequest, EndSession, Begin, Read, Insert,
                Cleanup, Reread, Get, List, Attend, Answer, RecordRead,
                RecordStart, RecordSave, CloseRead, CloseDelete, Fail, Done, Goto,
                At
  <2>2. call'[p].meeting \notin created
    BY <2>1 DEF Create, IInv, TypeOK, Calls
  <2>3. call'[q].meeting \in created
    BY <1>1, <1>2 DEF Frame, InHand, InHandOf
  <2>4. QED
    BY <2>2, <2>3
<1>3. ASSUME NEW q \in Requests, NEW r \in Requests, q # r, q # p, r # p,
             pc'[q] = "insert", pc'[r] = "insert"
      PROVE  call'[q].meeting # call'[r].meeting
  BY <1>1, <1>3 DEF Frame, IInv, Distinct
<1>4. QED
  BY <1>2, <1>3 DEF Distinct

LEMMA OnRecordStep ==
    ASSUME IInv, NEW p \in Requests, Step(p) PROVE OnRecord'
<1>1. Frame(p) /\ InHandOf(p)
  BY StepFrame DEF IInv, InHand
<1>2. CASE row' = row
  BY <1>1, <1>2 DEF Frame, IInv, OnRecord
<1>3. CASE row' # row
  <2>1. /\ row = None /\ row' = call[p].meeting
        /\ call[p].meeting \in created /\ call[p].meeting # row
        /\ attendees[call[p].meeting] = {call[p].user}
    BY <1>1, <1>3 DEF Frame, InHandOf
  <2>2. attendees'[row'] = {call[p].user} /\ row' \in created'
    BY <1>1, <2>1 DEF Frame
  <2>3. QED
    BY <2>2 DEF OnRecord
<1>4. QED
  BY <1>2, <1>3

\* A step answers nobody, or one user: with the meeting on record, in which he
\* has an attendee, and with no partner only if every earlier answer was his.
Answered ==
    \/ answers' = answers
    \/ \E x : /\ answers' = answers \cup {x}
              /\ row' # None /\ x.meeting = row' /\ x.user \in attendees'[row']
              /\ x.partner = None => \A b \in answers : b.user = x.user

LEMMA StepAnswers == ASSUME IInv, NEW p \in Requests, Step(p) PROVE Answered
<1> USE DEF chime, At
<1>1. TypeOK /\ InHandOf(p) /\ AnswersFit /\ OnRecord
  BY DEF IInv, InHand
<1>2. CASE Insert(p) /\ answers' # answers
  <2> DEFINE x == [user |-> call[p].user, meeting |-> call[p].meeting,
                   partner |-> None]
  <2>1. /\ row = None /\ row' = call[p].meeting /\ answers' = answers \cup {x}
        /\ attendees' = attendees /\ pc[p] = "insert"
    BY <1>2 DEF Insert, Answer
  <2>2. row' # None /\ x.user \in attendees'[row']
    BY <1>1, <2>1 DEF InHandOf
  <2>3. answers = {}
    BY <1>1, <2>1 DEF AnswersFit
  <2>4. QED
    BY <2>1, <2>2, <2>3 DEF Answered
<1>3. CASE List(p) /\ answers' # answers
  <2> DEFINE m      == call[p].meeting
             rest   == attendees[m] \ {call[p].user}
             others == IF rest = {} THEN {None} ELSE rest
  <2>1. /\ call[p].user \in attendees[m] /\ row' = row /\ attendees' = attendees
        /\ pc[p] = "list"
        /\ \E partner \in others : Answer(p, m, partner)
    BY <1>3 DEF List
  <2>2. PICK partner \in others : Answer(p, m, partner)
    BY <2>1
  <2>3. row # None /\ m = row
    BY <1>1, <2>1 DEF InHandOf
  <2>4. attendees[row] \subseteq Users
    BY <1>1, <2>3 DEF OnRecord, TypeOK
  <2>5. partner = None => attendees[row] \subseteq {call[p].user}
    BY <2>3, <2>4, ConstantsOK DEF ConstantsOK
  <2>6. partner = None => \A b \in answers : b.user = call[p].user
    BY <1>1, <2>5 DEF AnswersFit
  <2>7. answers' = answers \cup {[user |-> call[p].user, meeting |-> m,
                                  partner |-> partner]}
    BY <2>2 DEF Answer
  <2>8. QED
    BY <2>1, <2>3, <2>6, <2>7 DEF Answered
<1>4. CASE Attend(p) /\ answers' # answers
  <2> DEFINE m == call[p].meeting
  <2>1. /\ pc[p] = "attend" /\ row' = row
        /\ attendees' = [attendees EXCEPT ![m] = @ \cup {call[p].user}]
        /\ answers' = answers \cup {[user |-> call[p].user, meeting |-> m,
                                     partner |-> call[p].partner]}
    BY <1>4 DEF Attend, Answer
  <2>2. row # None /\ m = row /\ call[p].partner # None
    BY <1>1, <2>1 DEF InHandOf
  <2>3. m \in Meetings
    BY <1>1, <2>2 DEF OnRecord, TypeOK
  <2>4. call[p].user \in attendees'[row']
    BY <1>1, <2>1, <2>2, <2>3 DEF TypeOK
  <2>5. QED
    BY <2>1, <2>2, <2>4 DEF Answered
<1>5. QED
  BY <1>2, <1>3, <1>4 DEF Answered, Step, Open, Record, Close, OpenRequest,
     RecordRequest, CloseRequest, EndSession, Read, Create, Cleanup, Reread, Get,
     RecordRead, RecordStart, RecordSave, CloseRead, CloseDelete, Fail

LEMMA AnswersStep ==
    ASSUME IInv, NEW p \in Requests, Step(p) PROVE AnswersFit' /\ OneIsAlone'
<1>1. Frame(p) /\ Answered
  BY StepFrame, StepAnswers
<1>2. \A a \in answers : row' # None /\ a.meeting = row' /\ a.user \in attendees'[row']
  BY <1>1 DEF Frame, IInv, AnswersFit, OnRecord
<1>3. AnswersFit'
  BY <1>1, <1>2 DEF Answered, AnswersFit
<1>4. OneIsAlone'
  BY <1>1 DEF Answered, IInv, OneIsAlone
<1>5. QED
  BY <1>3, <1>4

\* closed is set with the row absent, or by the delete of the row's meeting;
\* only the insert of a session that has ended can undo the former.
LEMMA ClosedStep ==
    ASSUME IInv, NEW p \in Requests, Step(p)
    PROVE  (closed => ended)' /\ ClosedStaysClosed'
<1>1. Frame(p) /\ InHandOf(p) /\ TypeOK /\ OnRecord /\ (closed => ended)
      /\ ClosedStaysClosed
  BY StepFrame DEF IInv, InHand
<1>2. CASE closed' = closed
  BY <1>1, <1>2 DEF Frame, OnRecord, ClosedStaysClosed
<1>3. CASE CloseRead(p) /\ row = None
  BY <1>1, <1>3 DEF CloseRead, At, InHandOf, ClosedStaysClosed
<1>4. CASE CloseDelete(p)
  BY <1>1, <1>4 DEF CloseDelete, At, InHandOf, ClosedStaysClosed
<1>5. QED
  BY <1>2, <1>3, <1>4 DEF Step, Open, Record, Close, OpenRequest, RecordRequest,
     CloseRequest, EndSession, Read, Create, Insert, Cleanup, Reread, Get, List,
     Attend, RecordRead, RecordStart, RecordSave, CloseRead, Fail

-----------------------------------------------------------------------------
\* The theorems.

LEMMA InitIInv == Init => IInv
<1> SUFFICES ASSUME Init PROVE IInv
  OBVIOUS
<1>1. TypeOK
  <2>1. pc \in [Requests -> Labels] /\ call \in [Requests -> Calls]
    BY LabelFacts, NoCallTyped DEF Init
  <2>2. 0 \in 0..MaxRecordings
    BY ConstantsOK DEF ConstantsOK
  <2>3. QED
    BY <2>1, <2>2 DEF Init, TypeOK
<1>2. InHand /\ Distinct
  BY DEF Init, InHand, InHandOf, Distinct
<1>3. QED
  BY <1>1, <1>2 DEF Init, IInv, OnRecord, AnswersFit, OneIsAlone, ClosedStaysClosed

LEMMA Induction == IInv /\ [Next]_vars => IInv'
<1>1. ASSUME IInv, NEW p \in Requests, Step(p) PROVE IInv'
  <2>1. TypeOK'
    BY <1>1, TypeStep DEF IInv
  <2>2. QED
    BY <1>1, <2>1, InHandStep, DistinctStep, OnRecordStep, AnswersStep, ClosedStep
       DEF IInv
<1>2. ASSUME IInv, UNCHANGED vars PROVE IInv'
  BY <1>2 DEF vars, chime, IInv, TypeOK, InHand, InHandOf, Distinct, OnRecord,
              AnswersFit, OneIsAlone, ClosedStaysClosed
<1>3. ASSUME Next PROVE \E p \in Requests : Step(p)
  BY <1>3 DEF Next, Step
<1>4. QED
  BY <1>1, <1>2, <1>3

\* The inductive invariant holds in every behaviour.
THEOREM Invariance == Spec => []IInv
BY InitIInv, Induction, PTL DEF Spec

\* Every variable keeps its type.
THEOREM TypeCorrect == Spec => []TypeOK
<1>1. IInv => TypeOK
  BY DEF IInv
<1>2. QED
  BY Invariance, <1>1, PTL

\* getOrCreateSessionMeeting answers everyone with one and the same meeting.
THEOREM OneMeeting == Spec => []Together
<1>1. IInv => Together
  BY DEF IInv, AnswersFit, Together
<1>2. QED
  BY Invariance, <1>1, PTL

\* At most one user is told by getOrCreateSessionMeeting that he is alone.
THEOREM OnlyOneIsAlone == Spec => []OneIsAlone
<1>1. IInv => OneIsAlone
  BY DEF IInv
<1>2. QED
  BY Invariance, <1>1, PTL

\* Whoever is answered has an attendee in the meeting of his answer.
THEOREM EveryoneCanAttend == Spec => []AnsweredCanAttend
<1>1. IInv => AnsweredCanAttend
  BY DEF IInv, AnswersFit, AnsweredCanAttend
<1>2. QED
  BY Invariance, <1>1, PTL

\* The meeting that endSession has closed does not come back, unless its row
\* was inserted after the end.
THEOREM ClosedForGood == Spec => []ClosedStaysClosed
<1>1. IInv => ClosedStaysClosed
  BY DEF IInv
<1>2. QED
  BY Invariance, <1>1, PTL
=============================================================================
