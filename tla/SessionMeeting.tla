--------------------------- MODULE SessionMeeting ---------------------------
(***************************************************************************)
(* The audio meeting of one session: its row in session_meetings, which    *)
(* has a unique key on the session, the meetings and attendees held by     *)
(* Amazon Chime, and the requests that open, record and close it.          *)
(*                                                                         *)
(* Code: src/server/services/SessionMeetingService.ts, called by the       *)
(* /meeting routes of router/api/session.ts and by endSession.             *)
(*                                                                         *)
(* Chime is modelled as the code uses it: CreateMeeting always makes a new *)
(* meeting with an id of its own (MeetingId); the session is only its      *)
(* ExternalMeetingId, by which no call can name it.                        *)
(***************************************************************************)
EXTENDS Integers, FiniteSets

CONSTANTS
    Users,          \* the student and the volunteer of the session
    Requests,       \* requests that may be in flight at once
    Meetings,       \* meeting ids that Chime can hand out
    None,           \* no row, no meeting, nobody
    MaxRecordings   \* bound on capture pipelines

ASSUME ConstantsOK ==
    /\ None \notin Users \cup Meetings
    /\ MaxRecordings \in Nat

VARIABLES
    row,        \* session_meetings.external_id, None while there is no row
    recording,  \* session_meetings.recording_id; pipelines are numbered, 0 is NULL
    live,       \* meetings that exist in Chime
    attendees,  \* the users each meeting has attendees for
    pipelines,  \* capture pipelines started so far
    ended,      \* sessions.ended_at IS NOT NULL
    pc,         \* the next call of every request
    call,       \* its user, the meeting and the pipeline in its hands
    created,    \* history: meetings that have been created
    answers,    \* history: what POST /meeting has answered
    closed,     \* history: an endMeeting of endSession ran to its end
    late        \* history: the row was inserted after the session had ended

chime == <<live, attendees, created>>
vars  == <<row, recording, chime, pipelines, ended, pc, call, answers, closed, late>>

Labels == {"idle", "read", "create", "insert", "cleanup", "reread", "get", "list",
           "attend", "rec_read", "rec_start", "rec_save", "close_read",
           "close_delete"}

\* user: the caller; meeting: the meeting in hand; partner: partnerAttendee;
\* id: recordingId; ends: endMeeting was called by endSession.
Calls  == [user : Users \cup {None}, meeting : Meetings \cup {None},
           partner : Users \cup {None}, id : 0..MaxRecordings, ends : BOOLEAN]
NoCall == [user |-> None, meeting |-> None, partner |-> None, id |-> 0,
           ends |-> FALSE]

Init ==
    /\ row = None /\ recording = 0
    /\ live = {} /\ attendees = [m \in Meetings |-> {}] /\ created = {}
    /\ pipelines = 0 /\ ended = FALSE
    /\ pc = [p \in Requests |-> "idle"]
    /\ call = [p \in Requests |-> NoCall]
    /\ answers = {} /\ closed = FALSE /\ late = FALSE

At(p, label)   == pc[p] = label
Goto(p, label) == pc' = [pc EXCEPT ![p] = label]
Done(p)        == Goto(p, "idle") /\ call' = [call EXCEPT ![p] = NoCall]
Begin(p, label, c) ==
    At(p, "idle") /\ Goto(p, label) /\ call' = [call EXCEPT ![p] = c]

\* The response of POST /meeting.
Answer(p, m, partner) ==
    /\ answers' = answers \cup {[user |-> call[p].user, meeting |-> m,
                                 partner |-> partner]}
    /\ Done(p)

-----------------------------------------------------------------------------
\* getOrCreateSessionMeeting.

OpenRequest(p, u) ==
    /\ Begin(p, "read", [NoCall EXCEPT !.user = u])
    /\ UNCHANGED <<row, recording, chime, pipelines, ended, answers, closed, late>>

\* getSessionMeetingBySessionId.
Read(p) ==
    /\ At(p, "read")
    /\ call' = [call EXCEPT ![p].meeting = row]
    /\ Goto(p, IF row = None THEN "create" ELSE "get")
    /\ UNCHANGED <<row, recording, chime, pipelines, ended, answers, closed, late>>

\* Mutant of Create: the meeting is created without its first attendee.
CreateEmpty(p) ==
    /\ At(p, "create")
    /\ \E m \in Meetings \ created :
        /\ created' = created \cup {m}
        /\ live' = live \cup {m}
        /\ attendees' = [attendees EXCEPT ![m] = {}]
        /\ call' = [call EXCEPT ![p].meeting = m]
    /\ Goto(p, "insert")
    /\ UNCHANGED <<row, recording, pipelines, ended, answers, closed, late>>

\* createMeetingWithAttendee: one call makes the meeting and the attendee.
Create(p) ==
    /\ At(p, "create")
    /\ \E m \in Meetings \ created :
        /\ created' = created \cup {m}
        /\ live' = live \cup {m}
        /\ attendees' = [attendees EXCEPT ![m] = {call[p].user}]
        /\ call' = [call EXCEPT ![p].meeting = m]
    /\ Goto(p, "insert")
    /\ UNCHANGED <<row, recording, pipelines, ended, answers, closed, late>>

\* insertSessionMeeting.  A second row violates the unique key; this and any
\* other error of the INSERT is a RepoCreateError.
Insert(p) ==
    /\ At(p, "insert")
    /\ \/ /\ row = None
          /\ row' = call[p].meeting
          /\ late' = (late \/ ended)
          /\ Answer(p, call[p].meeting, None)
       \/ /\ Goto(p, "cleanup")
          /\ UNCHANGED <<row, call, answers, late>>
    /\ UNCHANGED <<recording, chime, pipelines, ended, closed>>

\* deleteChimeMeeting of the ExternalMeetingId, which is no meeting's id.
Cleanup(p) ==
    /\ At(p, "cleanup")
    /\ Goto(p, "reread")
    /\ UNCHANGED <<row, recording, chime, pipelines, ended, call, answers, closed,
                   late>>

\* Mutant of Reread: the caller keeps the meeting it has made.
RereadOwn(p) ==
    /\ At(p, "reread")
    /\ Goto(p, "get")
    /\ UNCHANGED <<row, recording, chime, pipelines, ended, call, answers, closed,
                   late>>

\* The row of the winner; without one the request fails.
Reread(p) ==
    /\ At(p, "reread")
    /\ \/ /\ row # None
          /\ call' = [call EXCEPT ![p].meeting = row]
          /\ Goto(p, "get")
       \/ row = None /\ Done(p)
    /\ UNCHANGED <<row, recording, chime, pipelines, ended, answers, closed, late>>

\* getMeeting: an error for a meeting that has been deleted.
Get(p) ==
    /\ At(p, "get")
    /\ \/ call[p].meeting \in live /\ Goto(p, "list") /\ UNCHANGED call
       \/ call[p].meeting \notin live /\ Done(p)
    /\ UNCHANGED <<row, recording, chime, pipelines, ended, answers, closed, late>>

\* ListAttendees: the caller's own, if there is one, and a partner's.
List(p) ==
    /\ At(p, "list")
    /\ LET m      == call[p].meeting
           u      == call[p].user
           others == IF attendees[m] \ {u} = {} THEN {None} ELSE attendees[m] \ {u}
       IN
       \/ m \notin live /\ Done(p) /\ UNCHANGED answers
       \/ /\ m \in live /\ u \in attendees[m]
          /\ \E partner \in others : Answer(p, m, partner)
       \/ /\ m \in live /\ u \notin attendees[m]
          /\ \E partner \in others : call' = [call EXCEPT ![p].partner = partner]
          /\ Goto(p, "attend")
          /\ UNCHANGED answers
    /\ UNCHANGED <<row, recording, chime, pipelines, ended, closed, late>>

\* CreateAttendee.
Attend(p) ==
    /\ At(p, "attend")
    /\ LET m == call[p].meeting IN
       \/ /\ m \in live
          /\ attendees' = [attendees EXCEPT ![m] = @ \cup {call[p].user}]
          /\ Answer(p, m, call[p].partner)
       \/ m \notin live /\ Done(p) /\ UNCHANGED <<attendees, answers>>
    /\ UNCHANGED <<row, recording, live, created, pipelines, ended, closed, late>>

-----------------------------------------------------------------------------
\* startRecording.

RecordRequest(p, u) ==
    /\ Begin(p, "rec_read", [NoCall EXCEPT !.user = u])
    /\ UNCHANGED <<row, recording, chime, pipelines, ended, answers, closed, late>>

\* No row: an error; a row with a recording: its id is the answer.
RecordRead(p) ==
    /\ At(p, "rec_read")
    /\ \/ (row = None \/ recording # 0) /\ Done(p)
       \/ /\ row # None /\ recording = 0
          /\ call' = [call EXCEPT ![p].meeting = row]
          /\ Goto(p, "rec_start")
    /\ UNCHANGED <<row, recording, chime, pipelines, ended, answers, closed, late>>

RecordStart(p) ==
    /\ At(p, "rec_start")
    /\ \/ /\ call[p].meeting \in live /\ pipelines < MaxRecordings
          /\ pipelines' = pipelines + 1
          /\ call' = [call EXCEPT ![p].id = pipelines + 1]
          /\ Goto(p, "rec_save")
       \/ call[p].meeting \notin live /\ Done(p) /\ UNCHANGED pipelines
    /\ UNCHANGED <<row, recording, chime, ended, answers, closed, late>>

\* addRecordingIdToSessionMeeting.
RecordSave(p) ==
    /\ At(p, "rec_save")
    /\ recording' = call[p].id
    /\ Done(p)
    /\ UNCHANGED <<row, chime, pipelines, ended, answers, closed, late>>

-----------------------------------------------------------------------------
\* endMeeting, by PUT /meeting or by endSession after its commit.

CloseRequest(p, u) ==
    /\ Begin(p, "close_read", [NoCall EXCEPT !.user = u])
    /\ UNCHANGED <<row, recording, chime, pipelines, ended, answers, closed, late>>

EndSession(p, u) ==
    /\ ~ended /\ ended' = TRUE
    /\ Begin(p, "close_read", [NoCall EXCEPT !.user = u, !.ends = TRUE])
    /\ UNCHANGED <<row, recording, chime, pipelines, answers, closed, late>>

CloseRead(p) ==
    /\ At(p, "close_read")
    /\ \/ /\ row = None
          /\ closed' = (closed \/ call[p].ends)
          /\ Done(p)
       \/ /\ row # None
          /\ call' = [call EXCEPT ![p].meeting = row]
          /\ Goto(p, "close_delete")
          /\ UNCHANGED closed
    /\ UNCHANGED <<row, recording, chime, pipelines, ended, answers, late>>

\* Mutant of CloseDelete: the meeting is named by its session, as in
\* handleInsertSessionMeetingFailure.
CloseDeleteBySession(p) ==
    /\ At(p, "close_delete")
    /\ closed' = (closed \/ call[p].ends)
    /\ Done(p)
    /\ UNCHANGED <<row, recording, chime, pipelines, ended, answers, late>>

\* stopTranscription, whose errors are swallowed, and deleteChimeMeeting.
CloseDelete(p) ==
    /\ At(p, "close_delete")
    /\ live' = live \ {call[p].meeting}
    /\ closed' = (closed \/ call[p].ends)
    /\ Done(p)
    /\ UNCHANGED <<row, recording, attendees, created, pipelines, ended, answers,
                   late>>

-----------------------------------------------------------------------------
\* A call throws, or the process dies: the request is over.
Fail(p) ==
    /\ ~At(p, "idle")
    /\ Done(p)
    /\ UNCHANGED <<row, recording, chime, pipelines, ended, answers, closed, late>>

Open(p)   == \/ Read(p) \/ Create(p) \/ Insert(p) \/ Cleanup(p) \/ Reread(p)
             \/ Get(p) \/ List(p) \/ Attend(p)
Record(p) == RecordRead(p) \/ RecordStart(p) \/ RecordSave(p)
Close(p)  == CloseRead(p) \/ CloseDelete(p)

Next == \E p \in Requests :
    \/ \E u \in Users : \/ OpenRequest(p, u) \/ RecordRequest(p, u)
                        \/ CloseRequest(p, u) \/ EndSession(p, u)
    \/ Open(p) \/ Record(p) \/ Close(p) \/ Fail(p)

Spec == Init /\ [][Next]_vars

-----------------------------------------------------------------------------
\* Properties.

\* Every variable has its type.
TypeOK ==
    /\ row \in Meetings \cup {None} /\ recording \in 0..MaxRecordings
    /\ live \subseteq Meetings /\ created \subseteq Meetings
    /\ attendees \in [Meetings -> SUBSET Users]
    /\ pipelines \in 0..MaxRecordings
    /\ ended \in BOOLEAN /\ closed \in BOOLEAN /\ late \in BOOLEAN
    /\ pc \in [Requests -> Labels] /\ call \in [Requests -> Calls]
    /\ answers \subseteq [user : Users, meeting : Meetings, partner : Users \cup {None}]

\* Whoever asks for the meeting, at the same time or later, before or after it
\* has been closed, is answered with the same one.
Together == \A a, b \in answers : a.meeting = b.meeting

\* Of the users who get into the meeting at most one is told that nobody else
\* is in it: two who arrive together do not both wait for the other.
OneIsAlone ==
    \A a, b \in answers :
        a.partner = None /\ b.partner = None => a.user = b.user

\* Nobody is answered with a meeting he has no attendee in.
AnsweredCanAttend == \A a \in answers : a.user \in attendees[a.meeting]

\* When endSession's endMeeting has run to its end, the meeting on record is
\* gone, and stays gone, unless the row was inserted after the end.
ClosedStaysClosed == closed /\ row # None /\ ~late => row \notin live
=============================================================================
