# Subway in TLA+

Subway is the server of UPchieve: students ask for help, volunteers join them,
the two share a document or a whiteboard and an audio meeting, the session ends
and is post-processed. The server is Node.js: every API request, socket event
and worker job is an asynchronous function, and between any two `await`s of one
of them any other may run, in the same process or in another. What it keeps is
in PostgreSQL, Redis and the Bull queue (itself in Redis).

The modules here model that: **a request or a job is a process, and each of its
calls to PostgreSQL, Redis, Bull or Chime is one atomic step.** A
`runInTransaction` whose statements read nothing that another transaction
writes in between is one step too. TLC checks the models on small instances;
TLAPS proves their safety for every value of the constants.

## Inventory

Components, in the order of their weight. `PROJECT.json` lists each with its
sources and its status.

| Component | State | Operations | Talks to | Hard part | Correct when |
|---|---|---|---|---|---|
| Session lifecycle (`SessionService`, `NotifyVolunteerService`, three jobs) | rows of `sessions`; Redis hash of exclusive requests | start, join, end, break out of an exclusive request; jobs: end unmatched, end stale, process ended | queue, sockets, meetings | every check is on a row read before the write; crash after the commit and before the queue | a claimed session keeps its volunteer, an ended one is post-processed once, an exclusive one is texted to nobody else |
| Job queue (Bull) | jobs by id, their state | add, take, complete, fail, stall, clean | all jobs | a job runs again when its worker stalls; cleaning frees ids | what relies on `jobId` runs once |
| Audio meetings (`SessionMeetingService`) | `session_meetings` row; meetings in Chime | get or create, start recording, end | Chime, `endSession` | two users create at once | both are in one meeting, which is gone after the end |
| Presence (`PresenceService`) | three Redis keys per client; rows of user actions | activity, passivity, countdown, inactivity, key expiry | Redis pub/sub | check-then-act over keys, and expiry on every server | nobody stays present for ever |
| Document cache (`QuillDocService`) | Redis key, list of deltas, lock (v1); set of updates (v2) | request, transmit, compose, store, delete | sockets, post-session job | composing under a lock that may lapse, or leak | no edit is lost, doubled or reordered |
| Post-session pipeline (`processSessionEnded`) | columns of the session, reports, mails | eleven tasks in sequence | most services | one task fails among several, the job is run again | every task that can run has run, harmlessly if twice |
| Texting rounds (`textVolunteers`, `NotifyVolunteerService`) | rows of `notifications`; delayed rounds in Bull | one round per job, then the next is queued; the text to an exclusive volunteer | queue, Twilio, lifecycle | who is free is read before the text is sent, his row written after it | nobody is texted twice in a few minutes, and the search goes on until somebody joins |
| Session broadcasts (`SocketService`, sockets router) | rooms, session lists | list, change, join, leave | lifecycle | a list made of a row not committed, or not hidden yet | lists converge, and show no exclusive session to all |
| Whiteboard cache (`WhiteboardService`, whiteboard router) | Redis string | load, append, continue, upload, delete | post-session job | length check, then append; deletion of what was read before | no acknowledged piece is lost |
| Volunteer onboarding (`VolunteerService`, `TrainingCtrl`, `CalendarCtrl`) | `volunteer_profiles`, certifications, account actions | quiz, schedule, photo, review, background information | pool, mails | what onboards is read by requests that do not see each other | the qualified are onboarded, the vetted approved |
| Transactions (`db.ts`) | pool of connections, client in use | run, roll back, nest | repositories | a nested call takes a second connection | all or nothing, and every request is answered |
| NTHS groups (`NTHSGroupsService`) | groups, members, roles | found, join, leave, change roles | PostgreSQL and its read replica | a guard on the replica or on the pool, then a write | one chapter per member, an admin per chapter |
| Moderation, assignments, verification codes | counters, statuses | CRUD with rules | PostgreSQL, outside services | thresholds, statuses | rules hold |
| Users, rosters, rewards, surveys, progress reports, tutor bot, gateways, repositories | PostgreSQL, outside services | CRUD, formatting, I/O | | little concurrency of their own | |

How they interact: `SessionLifecycle` is the hub. A start, join, end or breakout
broadcasts the list (`SessionBroadcasts`), begins the texts (`TextVolunteers`)
and, at the end, closes the meeting (`SessionMeeting`) and queues the job that
stores the document of the session (`SessionEditors`, which composes `QuillDoc`,
`QuillUpdates` and `Whiteboard`). Each of those modules has the row of a session
as far as it asks for it: open, claimed or ended, changed by an action of its
own that may come at any point. Presence, onboarding and chapters share nothing
with sessions but the users.

## Modules

| Module | Models | Runs |
|---|---|---|
| `SessionRecord` | abstract specification: what the `sessions` table promises | as a property of `lifecycle_races` |
| `SessionLifecycle` | start, join, end, breakout, the three jobs, the queue | `lifecycle_races`, `lifecycle_liveness`, `lost_join`, `matched_session_ended` |
| `SessionMeeting` | the meeting of one session | `meeting_races` |
| `Presence` | one client's keys and log | `presence` |
| `QuillDoc` | the version 1 document of one session | `quill_shared` |
| `QuillUpdates` | extends `QuillDoc`: both versions of the document, and which one is used | in `editors` |
| `Whiteboard` | the whiteboard document of one session | in `editors` |
| `SessionEditors` | composition: the editor of a session, and the job that stores its document | `editors` |
| `VolunteerAccount` | onboarding and approval of one volunteer, over a pool of connections | `onboarding` |
| `NTHSGroups` | chapters and their members, over a lagging replica | `nths` |
| `SessionBroadcasts` | the list of open sessions that volunteers see | `broadcasts` |
| `TextVolunteers` | the rounds of text messages for open sessions | `texting` |
| `..._proofs` | theorems about the module of that name (for `SessionEditors`, also about the three it composes), with their proofs | |
| `MC...` | constants and symmetry for TLC | |

An operator whose comment begins with *Mutant of* is not part of a
specification: it is a plausible wrong version of the definition it names,
kept to show that a property notices the difference.

**History variables.** Most properties hold but for some races that the code
leaves open. A module then has a variable that records the race where it happens
(`lost`, `harmed`, `spoiled`, `failed`, `unsure`, `why`, `stale`, `window`,
`late`, `excused`, `stopped`, `refused`; `vetted` and `acked` record what was done), and the property excuses exactly what is
recorded. No guard reads one. They double as the list of what the code does not
recover from.

### SessionLifecycle

State: the columns `student_id`, `volunteer_id`, `ended_at` (set or not) and
`ended_by_user_id` of every session, the exclusive hash, the set of sessions
with a `TextVolunteers` job, the jobs `EndUnmatchedSession` and
`ProcessSessionEnded` of each session by `jobId`, and for every request or job
in progress its next call (`pc`) and its variables (`call`).

| Action | Code |
|---|---|
| `StartRead`, `StartCheckVolunteer`, `StartInsert`, `StartHide`, `StartNotify`, `StartQueue` | `startSession`, in its order: checks, transaction with the insert, HSET of an exclusive request, texting job, delayed `EndUnmatchedSession` |
| `JoinRead`, `JoinClaim`, `JoinReply` | `joinSession`: `ensureCanJoinSession` on the row read, the `UPDATE ... WHERE volunteer_id IS NULL`, clearing, the answer |
| `EndRequest`, `EndRead`, `EndRefused`, `EndCommit`, `EndMeeting`, `EndQueue` | `endSession`: checks on the row read, the transaction, `endMeeting`, clearing, `queue.add` |
| `ClearGet`, `ClearDel` | `clearExclusiveRequest`, called by all the others: HGET, then HDEL |
| `BreakoutRead`, `BreakoutNotify` | `handleSessionBreakout`: only the call whose HDEL removed the entry starts the texting |
| `UnmatchedRead`, `UnmatchedReadFails`, `UnmatchedDecide`, `StaleRead`, `StaleNext`, `ProcessTake`, `ProcessFinish` | the jobs; the read of the unmatched job may throw before anything is cleared |
| `GrowOld` | time passes: a session is due for the stale sweep for two hours, and then past |
| `ClearJobs`, and the failure and stall actions | daily cleaning; crashes and failed calls; Bull re-queues a stalled job once, then fails it |

A session is an id; times are nondeterministic (a delayed job may run at any
moment after it was queued). Only the age of an active session is kept, against
the window of `getStaleSessions`: "young", "due" between twelve and fourteen hours
after its start, "covered" once a sweep has read it in that time, "past". The post-session tasks are inside `ProcessFinish`,
which completes or fails. `processed` counts the completed runs of the
post-session job; `lost` names what a crash or failed call cut off ("start": a
start that never queued its job, "clear": an exclusive entry whose last owner
died or failed, "unmatched": the job that should have ended the session failed,
"end": an end committed but not queued, "sweep": no stale sweep read the session
in its two hours, or the one that did failed on it) and the jobs whose id the cleaning freed while a second `endSession`
was under way ("once").

### SessionMeeting

`row` and `recording` are the two columns of `session_meetings`; `live` and
`attendees` are what Chime holds. Chime is used, never modelled beyond what the
code relies on: every `CreateMeeting` makes a meeting with a new id; a
`DeleteMeeting` of anything that is not such an id deletes nothing. The actions
follow `getOrCreateSessionMeeting` (`Read`, `Create`, `Insert`, `Cleanup`,
`Reread`, `Get`, `List`, `Attend`), `startRecording` (`RecordRead`,
`RecordStart`, `RecordSave`) and `endMeeting` (`CloseRead`, `CloseDelete`), and
`Fail` ends a request at any call.

### Presence

The keys `active`, `passive` and `maybe` of one client, the action last
written, and one handler per server and key. Requests (`Activity`, `Passivity`,
`Countdown`, `Inactivity`) make their first Redis call in the step that admits
them. `Expire` removes a key and notifies every server; `Receive` starts the
handler, unless another server holds the lock of that key. Clients share
nothing, so one stands for all.

### QuillDoc and QuillUpdates

Version 1: the document key, the list of deltas, the lock with its holder,
sockets that load (`RequestState` ... `Create`) and edit (`TransmitDelta`,
`Push`), and the post-session job (`JobStart` ... `DeleteDeltas`), which runs
again after a crash. A delta is its number in Redis's order and a document the
sequence of deltas in it, so "complete and in order" is "equal to 1..n".
`Expire` lets the lock lapse at any moment, under its holder too; `harmed` then
records it.

Version 2 is a Redis set of Yjs updates. They commute, so a set is what they are
here. A dummy member, added at the start, makes the set exist, and its existence
tells every reader which version the session uses (`getDocEditorVersion`).
Reading writes: `NeedsWorksheet` adds the worksheet when the set is empty, for a
socket, the tutor bot (`Bots`) and the job alike. The bot can so turn a version 1
session of the college list into a version 2 one, whose version 1 edits are not
looked at any more (`QuillDocService.ts:149-169`); `harmed` records that, too.

The job runs again after a crash or when a stalled worker's job is handed on, from
any point, also when it had finished this task and its worker died in a later one;
a call that throws ends it for good (`failed`), since `ProcessSessionEnded` has no
further attempts. `EditsAreStored` holds through all of that with one proviso
(`revived`): a worksheet, or an edit, that gets into the set after it was deleted
makes the run that follows store that set over the whole document. TLC needs 17
states to show it.

### Whiteboard and SessionEditors

The Redis string is the sequence of the pieces appended. Every message has a
handler of its own, so `INIT`, `APPEND` (length check, then append) and
`CONTINUATION` of all clients interleave; the task `TaskGet` ... `TaskDelete`
reads, uploads and deletes. The continuation of a message is one, and is sent right
after its first piece (`SendMore`); such an `APPEND` is not acknowledged, its
`CONTINUATION` is, whatever became of the `APPEND`. One that comes with an offset
other than the length, or finds no document, is refused (`AppendRefused`), one whose
Redis call throws fails (`AppendFails`); both times the `CONTINUATION` is appended
and acknowledged all the same. `refused` has the first pieces of such messages, and
`AckedIsStored` promises every other piece that was acknowledged. How a client
behaves is not in the repository: the model has it wait for the answer to all of a
message before it sends the next one. `SessionEditors` chooses one of the three documents
for the session and runs the job of that one, as `processSessionEditors` does.

### VolunteerAccount

Each request is `getQuizScore`, `updateSchedule`, the photo upload and its
review, or the background information, statement by statement. `getQuizScore`
hands the pool itself to `runInTransaction`, so its statements commit one by
one; the others hold a connection from BEGIN to the release (`tx`, `free`), and
`Pooled` statements wait for a free one. `hasCompletedVolunteerTraining` is not
given the client and asks for a second connection: with every connection held
by an `updateSchedule` that waits for one, nobody is ever answered (`Starved`).
The property names that state; the pool is large (500), the code does nothing
else against it.

What the model shows besides, none of which the code forbids: mails are queued
before the COMMIT, so a rollback leaves one for nothing; two requests can both
find the volunteer just qualified, and onboard him twice; after a throw
`onboarded` may stand without its account action; a review can withdraw an
approval by a profile it had read before. A submission of background information
takes whatever fields are given: it may leave the information incomplete, or empty
what was complete, and it approves a volunteer of a partner organization all the
same. So `ApprovedIsVetted` says of the others only that their information was
complete at some time (`vetted`), of partners nothing. Outside the model,
`queueNationalTutorCertificateEmail` queues `{ volunteerId }` while its job
reads `userId`.

### NTHSGroups

Chapters are numbers: `foundGroup` makes name and key from their count.
`replica` is what `getGroupsByUser` answers there, and `Replicate` brings it up
to date. Joining and updating run on the pool, a commit per statement: reading,
`JoinOccupations`, `JoinInsert`, `JoinRole`, and `UpdateGroupMember`,
`ChangeRole`, `Deactivate`. `unsure` collects the users whose requests
overlapped, met the lag or threw half way; `why` says how a chapter may have
lost its last admin: two requests at once ("race"), one request
`{ role: 'admin', isActive: false }`, which passes the guard of
`NTHSGroupsService.ts:203` although line 196 forbids it ("both"), or the
background information, which asks for no other admin ("background").

Also seen in the model: a member without a role, after a throw between the two
inserts, is on no list and cannot join again; a chapter renamed to the name of
the next one blocks every founder until it is renamed again (`taken`);
`foundGroup` does not ask for the founder's occupations; the error of the job
that is to announce a departure is swallowed, and the chapters that come after
it are not left.

### SessionBroadcasts

A broadcast of the list reads the rows, then the exclusive hash, then emits:
`ReadRows`, `ReadHash` and `Emit` of a request, with those of another one in
between. `endSession` broadcasts inside its transaction, before the COMMIT, so
only its own read sees the end. Requests that a worker runs have no
`SocketService` and broadcast nothing. `stale` records that the last list was
made of what has changed since and nobody told again; `window` the sessions read
between their COMMIT and their HSET. Also seen: `joinSession` answers "A
volunteer has already joined" when a call after the claim fails
(`SessionService.ts:855-862`), although it is its own volunteer who has.

### TextVolunteers

A round (`Take`, `ReadSessions`, `SelectVolunteers` by the three priority groups,
one `Send` and `LogText` per text, `QueueNext`, `Complete`) and `startSession`'s text to an
exclusive volunteer. Time passes in ticks, since what is modelled is a window:
who has a row of the last `Window` ticks is not texted. Bull's named processors
add their concurrency up, so rounds overlap (`Workers`). A stalled job is run
again, and since the next round has no `jobId` two chains of rounds may go on
(`chain`). Also seen: a round that finds nobody ends the search for good, and so
does one text or insert that fails, while the other texts of it go on (`loose`);
the text to an exclusive volunteer does not look at who was texted.

## Runs

| Run | Instance | States | Question |
|---|---|---|---|
| `lifecycle_races` | 1 student, 2 volunteers, 1 session, 2 requests, 1 worker, 1 fault | 1.25 million | Do the safety properties hold, and does the lifecycle implement `SessionRecord`, when two requests and a job race and one call fails? |
| `lifecycle_liveness` | 2 students, one shadow-banned, 2 volunteers, one an admin, 1 request, 1 worker, 1 fault | 173,000 | Does every session end, get processed, stop being exclusive, though no stale sweep need come in time? Does the ban hold on every path? |
| `meeting_races` | 2 users, 3 requests, 3 meetings, 1 pipeline | 1.06 million | Do all get one meeting, at most one of them alone, closed for good? |
| `presence` | 1 request, 1 server, 1 fault | 149,000 | Does the log agree with the keys, is nobody forgotten, is a client that left logged inactive in the end? |
| `quill_shared` | 2 sockets, 2 deltas, 1 retry, 1 fault | 1.78 million | Is no delta lost, doubled or reordered, and is the stored document complete? |
| `editors` | document: 1 socket, 1 bot, 1 delta, 2 updates; whiteboard: 2 sockets, 3 pieces; 1 fault | 673,000 | Does every edit reach the store, whichever the editor, and does the job get through? |
| `onboarding` | 2 requests, a pool of 2, 3 certifications, 1 throw | 585,000 | Are the qualified onboarded, only the vetted approved, and the requests answered? |
| `nths` | 2 users, 2 requests at once, 5 in all, 2 chapters, 1 throw | 516,000 | One chapter each, an admin in each, a next founder, nobody back? |
| `broadcasts` | 2 sessions, 2 requests, 1 throw | 1.42 million | Is the list true when nothing is under way, and is an exclusive session hidden? |
| `texting` | 2 sessions, 2 volunteers, 2 workers, 2 rounds, 1 fault | 6.0 million | Is nobody texted twice, and does the search go on? |

All pass. `lost_join` and `matched_session_ended` each check one sentence of the
repository that the code does not keep, and TLC shows how (the next section).

**Bounds, and why they are enough.** Races here are between two check-then-act
sequences on one row, or one key, and two requests with a job cover every pair;
three requests in the meeting let a third user find what the two racers left
behind. `MaxFaults` bounds crashes and failed calls: one shows every single
failure. `IdLeft` admits a start only while the pool of session ids has one.
Four ages are all that the window of the stale
sweep tells apart, and that of a session that has ended is forgotten. `MaxPieces` of 3 is what a message refused after another piece
was appended needs. `MaxDeltas` of 2 is what order and
doubling need, in `quill_shared`; the composition in `editors` needs one edit of
each kind. `MaxRetries` is 10 in the code; it is 1 in `quill_shared`, as the retries
repeat the same call, and 0 in `editors`, where whoever finds the lock held gives up
at once. `Meetings` has one id per request that may create. In `Presence`, a
key does not expire again while a server has yet to handle its last expiration:
the time to live is minutes, the handler a few calls; there one request suffices
for the liveness, and the theorems cover the overlaps of several. A pool of 2
with 2 requests is the smallest that starves. `MaxSubmitted` of 5 lets a chapter
be founded, joined and given up by its founder. Two chapters are what being in
two takes. In `texting`, `Window` 3 is the least that `JobConfig` allows with
2 rounds a tick apart, and `Texts` 1 makes the rounds compete. The theorems have
none of these bounds.

**Symmetry** is declared only in runs without liveness, for sets of model values
that the specification never distinguishes. **`CHECK_DEADLOCK FALSE`** stands
where the system may really stop: the session is over, the pool of ids, the
requests or the faults are used up, the client has left.

**Fairness.** A function that has made a call goes on when it returns: weak
fairness of every process's own steps. Bull hands a waiting job to a free
worker: weak fairness of some worker taking each of them. Time passes: weak
fairness of `GrowOld`. Nothing is assumed of cron: a stale sweep may come late, find
no worker or not come at all, and a session that was due then stays so until it is
past; `StartedEventuallyEnds` excuses what that leaves open only when the session has
its volunteer, or its unmatched job was lost. Redis expires keys and locks: weak fairness of `Expire`. In
`VolunteerAccount` a statement waits for a connection, which is free and taken
in turns; the pool serves its waiting queue in order, so the fairness of a
request's steps is strong there. Nothing is assumed of users: nobody has to
start, join, end, edit or come back. No fault is fair.

## Findings

Each is a run that expects a violation; `PROJECT.json` quotes the line it
contradicts.

| Run | What the code does |
|---|---|
| `lost_join` | the volunteer whose claim changed no row is answered as if he had joined |
| `matched_session_ended` | the unmatched job ends a session that a volunteer joined after the job's read |

The models show more of the same kind, for which no run is kept:

- sessions: two start requests pass the one-active-session check together, and
  the student has two sessions; a second end, past its check, overwrites who
  ended the session and when; a volunteer is assigned to a session that ended
  after his check;
- meetings: the meeting of the one who loses the race to insert is "deleted" by
  the id of the session, which names no meeting
  (`SessionMeetingService.ts:115`); a meeting whose row is inserted after the end
  is closed by nobody; two requests start two recordings of a meeting and one is
  remembered (`:279`);
- presence: the passive-timeout handler deletes the key of a client that has just
  come back (`PresenceService.ts:162`, against the comment at line 33); two
  activity events both write ACTIVE; a server that receives an expiry after
  another has finished handles it again;
- editors: a delta is appended to the Redis list of a session that ended after
  the socket's check, and stays there; a piece acknowledged after the job's read
  is deleted unread; the client of a refused `APPEND` is told that its
  `CONTINUATION` is saved, and the document has the one without the other
  (`whiteboard/index.ts:110`, `:211`);
- the jobs: an exclusive request stays exclusive for good when the first read of
  the unmatched job throws (`endUnmatchedSession.ts:16`); a session that has its
  volunteer stays open for good when no sweep comes in its two hours
  (`SessionService.ts:463`);
- and those named with `VolunteerAccount`, `NTHSGroups`, `SessionBroadcasts` and
  `TextVolunteers` above.

`SessionRecord` promises only what survives these: one opener, one claim that
sticks, closed for good, closed by somebody who takes part or by the system.

## Proofs

Every theorem is for all values of the constants that the named assumptions
allow: any sets of users, sessions, requests, workers, servers and chapters, any
number of faults. None of the properties is inductive as it stands; each module
says what has to be added, and why.

`SessionLifecycle_proofs`, from `DisjointUsers`, `DisjointProcs` and
`FaultBound`:

- `Invariance`: `Spec => []IInv`; then `TypeCorrect`, `NoEndIsForgotten`,
  `PostProcessingIsOnce`, `NoEntryIsOrphaned`, `ExclusiveIsNotTexted`,
  `ShadowBanHolds` and `OnlyParticipantsEnd`, one for each safety property;
- `Implements`: `Spec => ImplementsRecord`, the refinement of `SessionRecord`.

The properties speak of queue, hash and rows, and what keeps them true is what
the processes between two calls still know. `IInv` adds that. `Locals` says
which arguments a process has at each label. `Unborn`: nothing refers to a row
before its insert, and it does not age. `JobsInStep`: one process per active job and one start per
session. `EndsInStep`: past its check an end works on a session that nobody had
ended, or on one that has ended by now, so a job id freed by the cleaning is
re-used only when `lost` says so. `HsetIsOnce`: a breakout whose HDEL removed the
entry runs after the only HSET, so no entry can appear behind the texts it
queues. `EndersTakePart`: a participant checked stays one, because `student_id`
never changes and `volunteer_id` only from NULL. The step lemmas treat one
process at a time; `MoveFrame` and `LocalsFrame` say what a step leaves to the
others.

`SessionMeeting_proofs` proves, from `ConstantsOK`, `TypeCorrect`, `OneMeeting`
(`Together`), `OnlyOneIsAlone`, `EveryoneCanAttend` and `ClosedForGood`. Its
`IInv` says: past the row, a request holds the row's meeting; before it, one
that only it made and in which only its user is (`InHand`, `Distinct`); the
row's meeting always has an attendee (`OnRecord`), which is why nobody who is
added later is told he is alone; and every answer is the row's meeting
(`AnswersFit`). `Frame` collects what a step leaves in place, and the invariant
follows from `Frame` and the step's own effect.

`Presence_proofs` proves, from `ConstantsOK`, `TypeCorrect`, `SomethingTimesOut`
(`NobodyIsForgotten`) and `KeysTellTheLog` (`LogAgrees`). The first property
speaks of quiet states; its invariant `PresentIsWatched` of all: while the log
calls the client present and nothing excuses it, an active or passive key
exists, or a notification of one's expiry will start a handler (`Heard`), or a
process is between its first call and the one that sets a key or writes INACTIVE
(`Watching`). A countdown key alone does not watch, nor does a notification that
arrives while another server's handler is at its last DEL, since it is dropped;
both are why the invariant is finer than the property. `LogAgrees` needs, for
each label of the only process that is at work, which keys and which action it
has left behind so far.

`VolunteerAccount_proofs` proves, from `AccountConstants`, `TypeCorrect`,
`NoConnectionIsLost` (`PoolIsWhole`: what is not free is held by a running
transaction), `NobodyIsApprovedUnvetted`, `ApprovalsAreRecorded` and
`TheQualifiedAreOnboarded`. What a request has read of the background
information may be gone when it writes, but it is on the record (`Informed`). The
last theorem is the interesting one: no request is in a
transaction that sees the others, yet of those that add the last certifications
one has added its own before it reads, and finds them all. The invariant says
what each request has read or has still to read.

`SessionBroadcasts_proofs` proves, from `BroadcastConstants`, `TypeCorrect`,
`ExclusiveStaysHidden` (`ExclusiveIsHidden`) and `QuietListIsCurrent`
(`ListIsCurrent`). The second follows the order of the calls: a session is hidden
by one request, before it is exclusive (`HidOnce`); who makes a list is not about
an open session that is about to be hidden (`OnOpen`); so a list that was read
hides what is, or will be, exclusive, but for the window (`ListsHide`). The third
speaks of moments when nothing is under way, and its invariant (`CurrentInv`) of
all: as long as nothing stale was sent, each session the list gets wrong is the
business of a request that is going to broadcast (`Told`, `Promises`); a list in
the making that nobody has overtaken is what the tables say (`ReadsCurrent`); and
the end that `endSession` broadcasts before its COMMIT is one request's alone
(`EndsAlone`), known to whoever reads meanwhile (`Known`).

`TextVolunteers_proofs` proves, from `TextConstants`, `TypeCorrect`,
`NobodyIsPestered` (`OnceAMoment`), `ConfigIsEnough` (`OncePerSession`) and
`RoundsGoOn` (`SearchGoesOn`). `OnePromise` and `SendIsFree`: whoever is not
excused has one text under way at most, and was free when it began. `OneToken`:
a session that is not late has one round, waiting or running; `Logged`: whom it
has texted has a row no older than the rounds so far took. Only there
`JobConfig` (rounds times delay is less than the window) is used, so the test
that checks the configuration checks what the promise needs, and not more.

`NTHSGroups_proofs` proves, from `NTHSConstants`, `TypeCorrect`, `ChaptersAreOne`
(`OneChapter`), `GraduatesAreOut` (`GraduatesHaveLeft`), `ChaptersAreRun`
(`ChapterHasAdmin`), `FoundingGoesOn` (`FoundingIsPossible`) and `LeftForGood`
(`LeftIsLeft`, an action property). `Numbered`: the chapters are 1 to their
count, and nobody has counted more. `Alone` and `Reads`: of a user who is not
unsure one request is at work, so what it read still holds when it writes;
`RoleSoon`: his memberships are on the list, or about to be. `Tended`: in a
chapter whose requests did not overlap one request updates at a time, and while
it does there is an admin it does not take (`Keeps`).

`SessionEditors_proofs` proves, from `ConstantsOK`, `UpdatesOK` and
`BoardConstantsOK`, in four parts:

- *`QuillDoc`*: `QuillTypeCorrect`, `DeltasAreKept` (`NoDeltaLost`), `AllIsStored`
  (`StoredIsComplete`), `StoredNeverShrinks` (`StoredOnlyGrows`, an action
  property), from `QuillInvariance`. While nothing is `harmed`, who relies on the
  lock holds it (`Held`), the leaked lock of a missing document included, which is
  what makes `createDoc` safe: nobody else works on the document, and nobody has
  been sent one to edit (`Exists`). Every delta is then in the list or in the one
  document at hand (`Kept`, `InHand`). What the job has read holds all that was
  appended before the end, and what it has stored is no longer than what is still
  in the cache (`Stored`), so a second run stores no less.
- *`Whiteboard`*: a piece is in the hands of one handler until it is appended, and
  afterwards in nobody's that will append it (`InHands`, `PiecesOnce`); without
  this not even the types can be proved, since it is what bounds the document's
  length. `BoardKept`: the document is all that was appended until the upload;
  `AcksKept`, `HandsKept`: what is, or is about to be, acknowledged has been
  appended or was refused, and is in what the job holds and what it uploads unless
  it was refused.
- *`QuillUpdates`*: an edit from before the end is in the set until the job has
  stored one that has it (`InRedis`), or the set is deleted and a further run finds
  nothing to store in its place (`OnlyStored`). That needs to know that the job
  begins after the end and never returns to version 1 with a set in Redis
  (`BeforeEnd`, `JobParts`), and what cannot exist in a session of the other
  version (`SecondOnly`, `FirstOnly`).
- *Composition*: `EditorsInvariance`, then `EditorsTypeCorrect`, `NoEditIsLost`
  (`EditsAreStored`), `WhiteboardIsWhole` (`BoardIsWhole`), `AcksAreStored`
  (`AckedIsStored`), `PiecesAreAppendedOnce`. `QuillSteps` shows that a session of
  version 1 takes steps of `QuillDoc`, or faults that leave the document alone
  (`Aside`), until it is given updates; so the three version 1 properties hold of
  the whole editor, too (`DeltasAreKeptTogether`, `AllIsStoredTogether`,
  `StoredNeverShrinksTogether`).

Documents are sequences, but each step appends or moves one delta or piece, so a
few lemmas on sequences are enough and no induction over them is needed.

Every safety and action property that a run checks is stated by a theorem. Only
model-checked: the liveness properties, since fairness and ENABLED are outside the
prover's reach.

## Not modelled

`PROJECT.json` gives the reason per component. In short: outside services
(Chime, Twilio, classifiers, rosters, the verification codes) appear only as
their callers use them; CRUD over single rows, formatting, mail and analytics
have no state of interest here; logging is left out everywhere. The generated
queries (`pg.queries.ts`) and their wrappers, much the largest part of the source
by lines, are types and SQL strings: a statement appears where it is called.

Of the modelled components: transcription of meetings; reports and messages of a
session; the zwibserve sessions of the whiteboard, which live in an outside
service; the session-change, presence and typing events; titles, advisors,
school affiliations and statuses of chapters; references of volunteers; the
hourly cache of who may be texted (who is eligible is a constant); and the tasks
inside the post-session job other than the editors: they write to reports and
outside services, in sequence, and nothing reads them back in between.

Two hazards of `PROJECT.json` have no property: the two starts of one student
(nothing in the code prevents them), and the tasks of `processSessionEnded` that
follow one that throws. Others name a property that excuses exactly the race of the
hazard, recorded in a history variable: it shows that nothing else breaks the
promise, and its note says that the race itself stays.

## Plan

Done: the lifecycle with its abstract record, meetings, presence, both document
editors and the whiteboard with their composition, onboarding over a pool of
connections, chapters, broadcasts, texting; theorems for every component, each safety and action
property that a run checks.

Left, in this order:

- `PostSession`: the tasks of `processSessionEnded`, their failures and second
  runs, composed with the job of `SessionLifecycle`.
- Composition of `SessionLifecycle` with `TextVolunteers` and
  `SessionBroadcasts` by a shared record of the session, in place of the row that
  each of them has.
- Moderation strikes, assignments.
