--------------------------- MODULE TextVolunteers ---------------------------
(***************************************************************************)
(* The rounds of text messages that look for a volunteer for an open       *)
(* session, and the text to the one volunteer an exclusive session is for. *)
(*                                                                         *)
(* Code: src/server/worker/jobs/textVolunteers.ts, beginRegularNotifications*)
(* and notifyExclusiveVolunteer in services/NotifyVolunteerService.ts,     *)
(* queue.process in worker/jobs/index.ts.                                  *)
(*                                                                         *)
(* A round is a job that queues the next one.  A worker process has        *)
(* several at once, and each text is a promise of its own.  Time passes in *)
(* ticks: a job is due Delay ticks after it was queued, and a volunteer was*)
(* texted recently until Window ticks after his row in notifications.      *)
(* SessionLifecycle has the sessions themselves; here a row is what the    *)
(* rounds ask of it.                                                       *)
(*                                                                         *)
(* Left out: the wording, the hourly cache of textable volunteers (who is  *)
(* eligible does not change), students whose tutors are not notified.      *)
(***************************************************************************)
EXTENDS Naturals, FiniteSets

CONSTANTS
    Sessions, Volunteers, Nobody, NoJob,
    Workers,        \* jobs that may run at once
    Eligible, Favorites, Partners,  \* of the session: the three priority groups
    Askable,        \* of the session: whom the student may ask for
    Texts,          \* subjectToNumberOfTexts: texts per round
    MaxRounds,      \* JOB_CONFIG.maxNotificationRounds
    Delay,          \* JOB_CONFIG.roundDelay, in ticks
    Window,         \* JOB_CONFIG.lastTextedInMinutes, in ticks
    MaxFaults       \* bound on crashes and calls that throw

ASSUME TextConstants ==
    /\ IsFiniteSet(Volunteers) /\ Nobody \notin Volunteers
    /\ Volunteers \cap {"none", "open", "ended"} = {}
    /\ Eligible \in [Sessions -> SUBSET Volunteers]
    /\ \A s \in Sessions : Favorites[s] \cup Partners[s] \subseteq Eligible[s]
    /\ Askable \in [Sessions -> SUBSET Volunteers]
    /\ Texts \in Nat \ {0} /\ MaxRounds \in Nat \ {0}
    /\ Delay \in Nat \ {0} /\ Window \in Nat /\ MaxFaults \in Nat

\* What the test 'should be configured so volunteers will not be texted more than
\* once per session' says of JOB_CONFIG.
ASSUME JobConfig == MaxRounds * Delay < Window

VARIABLES
    row,        \* of a session: none, open, the volunteer who has joined, ended
    start,      \* the student's startSession, as far as the texts go
    asked,      \* the volunteer of an exclusive session, while he is texted
    queue,      \* rounds that wait in Bull
    age,        \* ticks since the last row of a volunteer in notifications
    pc, job,    \* the next step of every worker, and its round
    inSession,  \* getVolunteersInSessions, as it has read it
    texting,    \* the texts its round waits for
    loose,      \* texts of a round that has failed, which go on
    faults,
    \* history:
    late,       \* sessions with a round that took a tick, crashed or failed
    excused,    \* volunteers two of whose texts overlapped, or have no row
    texts,      \* volunteers texted by a round of the session, if it is not late
    twiceFor,   \* sessions, not late, one of whose volunteers was texted again
    twice,      \* volunteers, not excused, texted although they were texted recently
    stopped     \* open sessions whose rounds have come to an end, as they may

sessionVars == <<row, start, asked>>
worker      == <<pc, job, inSession, texting, loose>>
history     == <<texts, twiceFor, twice, excused, late, stopped>>
vars        == <<sessionVars, queue, age, worker, faults, history>>

Labels == {"idle", "sessions", "notified", "texting", "done"}

\* again: Bull has put it back after a stall.  chain tells apart the rounds that go
\* on after a stall, when the next one was queued before.
Jobs == [session : Sessions, round : 1..MaxRounds, due : 0..Delay,
         again : BOOLEAN, chain : 0..MaxFaults]
Promises == [session : Sessions, to : Volunteers, step : {"send", "log"}]

Init ==
    /\ row = [s \in Sessions |-> "none"] /\ start = [s \in Sessions |-> "none"]
    /\ asked = [s \in Sessions |-> Nobody]
    /\ queue = {} /\ age = [v \in Volunteers |-> Window]
    /\ pc = [w \in Workers |-> "idle"] /\ job = [w \in Workers |-> NoJob]
    /\ inSession = [w \in Workers |-> {}]
    /\ texting = [w \in Workers |-> {}] /\ loose = [w \in Workers |-> {}]
    /\ faults = 0
    /\ texts = [s \in Sessions |-> {}] /\ twiceFor = {}
    /\ twice = {} /\ excused = {} /\ late = {}
    /\ stopped = {}

Recent == {v \in Volunteers : age[v] < Window}

\* Texts to v that have not been logged yet.
Underway(v) ==
    \/ \E w \in Workers : \E p \in texting[w] \cup loose[w] : p.to = v
    \/ \E s \in Sessions : asked[s] = v

-----------------------------------------------------------------------------
\* startSession and handleSessionBreakout.

FirstRound(s) ==
    [session |-> s, round |-> 1, due |-> Delay, again |-> FALSE, chain |-> 0]

\* beginRegularNotifications
StartSession(s) ==
    /\ row[s] = "none"
    /\ row' = [row EXCEPT ![s] = "open"] /\ start' = [start EXCEPT ![s] = "out"]
    /\ queue' = queue \cup {FirstRound(s)}
    /\ UNCHANGED <<asked, age, worker, faults, history>>

\* notifyExclusiveVolunteer, who is asked whether he was texted recently or not.
StartExclusive(s, v) ==
    /\ row[s] = "none"
    /\ row' = [row EXCEPT ![s] = "open"] /\ start' = [start EXCEPT ![s] = "asked"]
    /\ asked' = [asked EXCEPT ![s] = v]
    /\ excused' = excused \cup IF Underway(v) THEN {v} ELSE {}
    /\ UNCHANGED <<queue, age, worker, faults, texts, twiceFor, twice, late, stopped>>

\* The row is written although the text may have failed; its own error is caught.
LogExclusive(s) ==
    /\ asked[s] # Nobody
    /\ asked' = [asked EXCEPT ![s] = Nobody]
    /\ \/ /\ age' = [age EXCEPT ![asked[s]] = 0]
          /\ UNCHANGED <<faults, excused>>
       \/ /\ faults < MaxFaults /\ faults' = faults + 1
          /\ excused' = excused \cup {asked[s]}
          /\ UNCHANGED age
    /\ UNCHANGED <<row, start, queue, worker, texts, twiceFor, twice, late, stopped>>

\* handleSessionBreakout, of which only the first begins the rounds.  The volunteer
\* may not have been texted yet.
Breakout(s) ==
    /\ start[s] = "asked" /\ row[s] = "open"
    /\ start' = [start EXCEPT ![s] = "out"]
    /\ queue' = queue \cup {FirstRound(s)}
    /\ UNCHANGED <<row, asked, age, worker, faults, history>>

JoinSession(s, v) ==
    /\ row[s] = "open" /\ row' = [row EXCEPT ![s] = v]
    /\ stopped' = stopped \ {s}
    /\ UNCHANGED <<start, asked, queue, age, worker, faults, late, excused, texts,
                   twiceFor, twice>>

EndSession(s) ==
    /\ row[s] \notin {"none", "ended"} /\ row' = [row EXCEPT ![s] = "ended"]
    /\ stopped' = stopped \ {s}
    /\ UNCHANGED <<start, asked, queue, age, worker, faults, late, excused, texts,
                   twiceFor, twice>>

-----------------------------------------------------------------------------
\* A round.

Goto(w, label) == pc' = [pc EXCEPT ![w] = label]

\* The worker takes the next job; texts that its round waited for go on.
Leave(w) ==
    /\ Goto(w, "idle") /\ job' = [job EXCEPT ![w] = NoJob]
    /\ inSession' = [inSession EXCEPT ![w] = {}]
    /\ texting' = [texting EXCEPT ![w] = {}]

Stop(s) == stopped' = stopped \cup IF row[s] = "open" THEN {s} ELSE {}

\* isSessionFulfilled
Take(w, j) ==
    /\ pc[w] = "idle" /\ j \in queue /\ j.due = 0
    /\ queue' = queue \ {j}
    /\ \/ /\ row[j.session] = "open"
          /\ Goto(w, "sessions") /\ job' = [job EXCEPT ![w] = j]
       \/ row[j.session] # "open" /\ UNCHANGED <<pc, job>>
    /\ UNCHANGED <<sessionVars, age, inSession, texting, loose, faults, history>>

\* getVolunteersInSessions
ReadSessions(w) ==
    /\ pc[w] = "sessions" /\ Goto(w, "notified")
    /\ inSession' = [inSession EXCEPT ![w] = {v \in Volunteers : \E s \in Sessions : row[s] = v}]
    /\ UNCHANGED <<sessionVars, queue, age, job, texting, loose, faults, history>>

\* sampleSize
Samples(S, n) ==
    {T \in SUBSET S : Cardinality(T) = IF Cardinality(S) < n THEN Cardinality(S) ELSE n}

\* Mutant of Selections: only the first group that has somebody.
SelectionsOfFavorites(s, free) == Samples(Favorites[s] \cap free, Texts)

\* selectVolunteersByPriority
Selections(s, free) ==
    UNION {UNION {{F \cup P \cup R :
              R \in Samples((Eligible[s] \cap free) \ (F \cup P), Texts - Cardinality(F \cup P))} :
              P \in Samples((Partners[s] \cap free) \ F, Texts - Cardinality(F))} :
              F \in Samples(Favorites[s] \cap free, Texts)}

\* Mutant of Free: who was texted recently is texted again.
FreeAnyTime(w) == Volunteers \ inSession[w]

\* filterEligibleVolunteersToText
Free(w) == Volunteers \ (inSession[w] \cup Recent)

\* getVolunteersTextedSinceXMinutesAgo, the selection, and the start of every text;
\* a round that finds nobody is the last one.
SelectVolunteers(w) ==
    LET s == job[w].session IN
    /\ pc[w] = "notified"
    /\ \E chosen \in Selections(s, Free(w)) :
          \/ /\ chosen # {}
             /\ Goto(w, "texting")
             /\ texting' = [texting EXCEPT ![w] =
                               [session : {s}, to : chosen, step : {"send"}]]
             /\ inSession' = [inSession EXCEPT ![w] = {}]
             /\ excused' = excused \cup {v \in chosen : Underway(v)}
             /\ UNCHANGED <<job, stopped>>
          \/ /\ chosen = {}
             /\ Leave(w)
             /\ IF Eligible[s] \cap Free(w) = {} THEN Stop(s) ELSE UNCHANGED stopped
             /\ UNCHANGED excused
    /\ UNCHANGED <<sessionVars, queue, age, loose, faults, texts, twiceFor, twice, late>>

\* sendTextMessage, which swallows the errors of Twilio.
Send(w, p) ==
    LET sent == [p EXCEPT !.step = "log"] IN
    /\ p.step = "send"
    /\ \/ /\ p \in texting[w]
          /\ texting' = [texting EXCEPT ![w] = (@ \ {p}) \cup {sent}]
          /\ UNCHANGED loose
       \/ /\ p \in loose[w]
          /\ loose' = [loose EXCEPT ![w] = (@ \ {p}) \cup {sent}]
          /\ UNCHANGED texting
    /\ texts' = IF p.session \in late THEN texts
                ELSE [texts EXCEPT ![p.session] = @ \cup {p.to}]
    /\ twiceFor' = twiceFor \cup IF p.to \in texts[p.session] THEN {p.session} ELSE {}
    /\ twice' = twice \cup IF p.to \in Recent \ excused THEN {p.to} ELSE {}
    /\ UNCHANGED <<sessionVars, queue, age, pc, job, inSession, faults, excused, late, stopped>>

\* Mutant of LogText: no row for a text that Twilio refused.
LogTextIfSent(w, p) ==
    /\ p.step = "log"
    /\ p \in texting[w] \cup loose[w]
    /\ texting' = [texting EXCEPT ![w] = @ \ {p}]
    /\ loose' = [loose EXCEPT ![w] = @ \ {p}]
    /\ age' = [age EXCEPT ![p.to] = 0] \/ age' = age
    /\ UNCHANGED <<sessionVars, queue, pc, job, inSession, faults, history>>

\* addSessionSmsNotification
LogText(w, p) ==
    /\ p.step = "log"
    /\ p \in texting[w] \cup loose[w]
    /\ texting' = [texting EXCEPT ![w] = @ \ {p}]
    /\ loose' = [loose EXCEPT ![w] = @ \ {p}]
    /\ age' = [age EXCEPT ![p.to] = 0]
    /\ UNCHANGED <<sessionVars, queue, pc, job, inSession, faults, history>>

\* Mutant of QueueNext: however many rounds there were.
QueueNextAlways(w) ==
    LET j == job[w] IN
    /\ pc[w] = "texting" /\ texting[w] = {}
    /\ Goto(w, "done")
    /\ queue' = queue \cup
          {[j EXCEPT !.round = @ + 1, !.due = Delay, !.again = FALSE]}
    /\ UNCHANGED <<sessionVars, age, job, inSession, texting, loose, faults, history>>

\* Promise.all is done: the next round, with no jobId.
QueueNext(w) ==
    LET j == job[w] IN
    /\ pc[w] = "texting" /\ texting[w] = {} /\ j.round < MaxRounds
    /\ Goto(w, "done")
    /\ queue' = queue \cup
          {[j EXCEPT !.round = @ + 1, !.due = Delay, !.again = FALSE]}
    /\ UNCHANGED <<sessionVars, age, job, inSession, texting, loose, faults, history>>

Complete(w) ==
    /\ \/ pc[w] = "done" /\ UNCHANGED stopped
       \/ /\ pc[w] = "texting" /\ texting[w] = {} /\ job[w].round = MaxRounds
          /\ Stop(job[w].session)
    /\ Leave(w)
    /\ UNCHANGED <<sessionVars, queue, age, loose, faults, texts, twiceFor, twice,
                   excused, late>>

-----------------------------------------------------------------------------
\* Faults, and time.

\* Of a late session nothing more is asked.
Late(S) ==
    /\ late' = late \cup S
    /\ texts' = [s \in Sessions |-> IF s \in S THEN {} ELSE texts[s]]

Fault == faults < MaxFaults /\ faults' = faults + 1

\* A call throws: the job has failed, and Bull does not try it again.
Throw(w) ==
    /\ Fault
    /\ \/ pc[w] \in {"sessions", "notified"}
       \/ pc[w] = "texting" /\ texting[w] = {}
    /\ Late({job[w].session}) /\ Stop(job[w].session)
    /\ Leave(w)
    /\ UNCHANGED <<sessionVars, queue, age, loose, twiceFor, twice, excused>>

\* A text throws, or the insert of its row: Promise.all fails, the others go on.
ThrowText(w, p) ==
    /\ Fault
    /\ excused' = excused \cup {p.to} /\ Late({p.session})
    /\ \/ /\ p \in texting[w]
          /\ loose' = [loose EXCEPT ![w] = @ \cup (texting[w] \ {p})]
          /\ Leave(w) /\ Stop(p.session)
       \/ /\ p \in loose[w]
          /\ loose' = [loose EXCEPT ![w] = @ \ {p}]
          /\ UNCHANGED <<pc, job, inSession, texting, stopped>>
    /\ UNCHANGED <<sessionVars, queue, age, twiceFor, twice>>

\* The worker dies with its texts.  Bull puts a stalled job back, once.
Crash(w) ==
    /\ Fault
    /\ pc[w] # "idle"
    /\ LET j == job[w] IN
       /\ Late({j.session})
       /\ \/ ~j.again /\ UNCHANGED stopped
             /\ queue' = queue \cup {[j EXCEPT !.again = TRUE, !.chain = faults']}
          \/ j.again /\ UNCHANGED queue
             /\ IF pc[w] = "done" THEN UNCHANGED stopped ELSE Stop(j.session)
    /\ excused' = excused \cup {p.to : p \in texting[w] \cup loose[w]}
    /\ loose' = [loose EXCEPT ![w] = {}]
    /\ Leave(w)
    /\ UNCHANGED <<sessionVars, age, twiceFor, twice>>

\* A round that is due, or under way, at a tick is late.
Tick ==
    /\ age' = [v \in Volunteers |-> IF age[v] < Window THEN age[v] + 1 ELSE Window]
    /\ queue' = {[j EXCEPT !.due = IF @ = 0 THEN 0 ELSE @ - 1] : j \in queue}
    /\ Late({j.session : j \in {i \in queue : i.due = 0}}
              \cup {job[w].session : w \in {x \in Workers : pc[x] # "idle"}})
    /\ UNCHANGED <<sessionVars, worker, faults, twiceFor, twice, excused, stopped>>

Client ==
    \E s \in Sessions :
        \/ StartSession(s) \/ LogExclusive(s) \/ Breakout(s)
        \/ EndSession(s)
        \/ \E v \in Askable[s] : StartExclusive(s, v)
        \/ \E v \in Volunteers : JoinSession(s, v)

Work(w) ==
    \/ \E j \in queue : Take(w, j)
    \/ ReadSessions(w) \/ SelectVolunteers(w) \/ QueueNext(w) \/ Complete(w)
    \/ Throw(w) \/ Crash(w)
    \/ \E p \in texting[w] \cup loose[w] : Send(w, p) \/ LogText(w, p) \/ ThrowText(w, p)

Next == Client \/ Tick \/ \E w \in Workers : Work(w)

Spec == Init /\ [][Next]_vars

-----------------------------------------------------------------------------
\* Properties.

TypeOK ==
    /\ row \in [Sessions -> {"none", "open", "ended"} \cup Volunteers]
    /\ start \in [Sessions -> {"none", "asked", "out"}]
    /\ asked \in [Sessions -> Volunteers \cup {Nobody}]
    /\ queue \subseteq Jobs /\ age \in [Volunteers -> 0..Window]
    /\ pc \in [Workers -> Labels] /\ job \in [Workers -> Jobs \cup {NoJob}]
    /\ inSession \in [Workers -> SUBSET Volunteers]
    /\ texting \in [Workers -> SUBSET Promises] /\ loose \in [Workers -> SUBSET Promises]
    /\ faults \in 0..MaxFaults
    /\ texts \in [Sessions -> SUBSET Volunteers] /\ twiceFor \subseteq Sessions
    /\ twice \subseteq Volunteers /\ excused \subseteq Volunteers
    /\ late \subseteq Sessions
    /\ stopped \subseteq Sessions

\* "configured so volunteers will not be texted more than once per session": no round
\* of a session texts whom an earlier one has texted, unless one of its rounds took
\* its time, crashed or failed.
OncePerSession == twiceFor = {}

\* However the rounds of several sessions overlap, a volunteer is texted while a text
\* of the last minutes is on record only if the two texts were under way at once, or
\* one could not be recorded.
OnceAMoment == twice = {}

\* The search for a volunteer never just stops: while the session is open a round
\* waits or runs, unless all of them have, the last one found nobody who was
\* eligible and free, or a call threw.
SearchGoesOn ==
    \A s \in Sessions :
        start[s] = "out" /\ row[s] = "open" /\ s \notin stopped =>
            \/ \E j \in queue : j.session = s
            \/ \E w \in Workers : pc[w] # "idle" /\ job[w].session = s
=============================================================================
