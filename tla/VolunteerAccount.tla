-------------------------- MODULE VolunteerAccount --------------------------
(***************************************************************************)
(* How one volunteer becomes onboarded and approved: quizzes, schedule,    *)
(* background information and the review of the photo ID, by requests that *)
(* run at once, over PostgreSQL connections from one pool.                 *)
(*                                                                         *)
(* Code: getQuizScore in src/server/controllers/TrainingCtrl.ts,           *)
(* updateSchedule in controllers/CalendarCtrl.ts, onboardVolunteer,        *)
(* updatePendingVolunteerStatus and submitVolunteerBackgroundInfo in       *)
(* services/VolunteerService.ts, addPhotoId in services/UserService.ts,    *)
(* and runInTransaction in db.ts.                                          *)
(*                                                                         *)
(* getQuizScore calls runInTransaction with the pool itself as its client, *)
(* so there is no transaction: each of its statements commits at once.     *)
(* updateSchedule and submitVolunteerBackgroundInfo have a real one, and   *)
(* hold a connection from BEGIN to the release.                            *)
(*                                                                         *)
(* Left out: certificate and rejection mails, UNLOCKED_SUBJECT actions,    *)
(* availability rows (nothing decides on them), row locks (they delay an   *)
(* UPDATE, and the columns that matter are written by one).                *)
(***************************************************************************)
EXTENDS Integers, FiniteSets

CONSTANTS
    Requests,       \* requests about the volunteer that may run at once
    TrainingCerts,  \* the certifications of the training
    SubjectCerts,   \* the certifications that unlock a subject
    Grants,         \* quiz_certification_grants: quiz -> certifications
    Legacy,         \* the quiz of the legacy training, upchieve101
    MaxClients,     \* connections in the pool (500 in the code)
    MaxFaults       \* bound on calls that throw

Certs   == TrainingCerts \cup SubjectCerts
Quizzes == DOMAIN Grants

ASSUME AccountConstants ==
    /\ Grants \in [Quizzes -> SUBSET Certs] /\ Legacy \in Quizzes
    /\ TrainingCerts \cap SubjectCerts = {}
    /\ IsFiniteSet(Requests)
    /\ MaxClients \in Nat \ {0} /\ MaxFaults \in Nat

VARIABLES
    partner,    \* volunteer_profiles.volunteer_partner_org_id IS NOT NULL
    legacy,     \* users_quizzes.passed of the legacy quiz
    certs,      \* users_certifications
    onboarded, approved,    \* of volunteer_profiles
    photo,      \* volunteer_profiles.photo_id_status is APPROVED
    background, \* he has occupations, and a country that is not empty
    actions,    \* the account actions written
    free,       \* connections left in the pool
    pc,         \* the next statement of every request
    tx,         \* it is in a transaction, and holds a connection
    todo,       \* getQuizScore: the certifications still to add
    subjects,   \* the subjects the request has read
    before,     \* the profile it has read: volunteer, volunteerBeforeUpdate
    faults,     \* calls that threw
    failed,     \* history: a request that was onboarding, or logging, threw
    vetted      \* history: what has spoken for a volunteer without a partner organization

profile == <<partner, legacy, certs, onboarded, approved, photo, background, actions>>
locals  == <<pc, tx, todo, subjects, before>>
vars    == <<profile, free, locals, faults, failed, vetted>>

Labels == {"idle", "subjects", "unlock", "onboard", "legacy", "training", "update",
           "log", "commit", "pending", "log_approved", "background", "submit"}
Nothing == [approved |-> FALSE, background |-> FALSE]

Init ==
    /\ partner \in BOOLEAN /\ legacy = FALSE /\ certs = {}
    /\ onboarded = FALSE /\ approved = FALSE
    /\ photo = FALSE /\ background = FALSE /\ actions = {}
    /\ free = MaxClients
    /\ pc = [r \in Requests |-> "idle"] /\ tx = [r \in Requests |-> FALSE]
    /\ todo = [r \in Requests |-> {}] /\ subjects = [r \in Requests |-> {}]
    /\ before = [r \in Requests |-> Nothing]
    /\ faults = 0 /\ failed = {} /\ vetted = {}

Goto(r, label)    == pc' = [pc EXCEPT ![r] = label]
Step(r, from, to) == pc[r] = from /\ Goto(r, to)

\* A statement on the pool takes a free connection and gives it back; one of a
\* transaction uses the connection it holds.
Pooled    == free > 0
Client(r) == tx[r] \/ Pooled

-----------------------------------------------------------------------------
\* runInTransaction.

Begin(r) ==
    /\ Pooled
    /\ free' = free - 1
    /\ tx' = [tx EXCEPT ![r] = TRUE]

\* The variables of a request are gone when it is over.
Forget(r) ==
    /\ tx' = [tx EXCEPT ![r] = FALSE]
    /\ todo' = [todo EXCEPT ![r] = {}] /\ subjects' = [subjects EXCEPT ![r] = {}]
    /\ before' = [before EXCEPT ![r] = Nothing]

\* Mutant of Finish: an early return or a throw does not release the connection.
FinishLeaks(r) ==
    /\ Goto(r, "idle") /\ Forget(r)
    /\ free' = IF tx[r] /\ pc[r] \in {"log", "submit"} THEN free + 1 ELSE free

\* Mutant of Finish: a request on the pool releases a connection, too.
FinishReleasesAlways(r) == Goto(r, "idle") /\ Forget(r) /\ free' = free + 1

\* The request is over, by its last statement or by a throw: a transaction
\* releases its connection, after COMMIT or ROLLBACK.
Finish(r) ==
    /\ Goto(r, "idle") /\ Forget(r)
    /\ free' = IF tx[r] THEN free + 1 ELSE free

-----------------------------------------------------------------------------
\* getQuizScore.

\* updateVolunteerQuiz keeps the result of the last attempt only.
QuizSubmitted(r, q) ==
    /\ Pooled
    /\ \/ /\ Step(r, "idle", "subjects")
          /\ legacy' = (legacy \/ q = Legacy)
          /\ todo' = [todo EXCEPT ![r] = Grants[q]]
       \/ /\ Step(r, "idle", "idle")
          /\ legacy' = (legacy /\ q # Legacy)
          /\ UNCHANGED todo
    /\ UNCHANGED <<partner, certs, onboarded, approved, photo, background, actions,
                   free, tx, subjects, before, faults, failed, vetted>>

\* What is left to unlock; then onboardVolunteer is called.
Unlock(r, from, left) ==
    /\ Step(r, from, IF left = {} THEN "onboard" ELSE "unlock")
    /\ todo' = [todo EXCEPT ![r] = left]

\* getSubjectsForVolunteer: no subject is unlocked twice.  The training never is
\* among them: its certifications are inserted again, which does nothing.
ReadSubjects(r) ==
    /\ Pooled
    /\ Unlock(r, "subjects", todo[r] \ (certs \cap SubjectCerts))
    /\ subjects' = [subjects EXCEPT ![r] = certs \cap SubjectCerts]
    /\ UNCHANGED <<profile, free, tx, before, faults, failed, vetted>>

\* addVolunteerCertification
AddCertification(r) ==
    /\ Pooled
    /\ \E c \in todo[r] :
          /\ certs' = certs \cup {c}
          /\ Unlock(r, "unlock", todo[r] \ {c})
    /\ UNCHANGED <<partner, legacy, onboarded, approved, photo, background, actions,
                   free, tx, subjects, before, faults, failed, vetted>>

\* updateSchedule: all of it before onboardVolunteer.
ScheduleSubmitted(r) ==
    /\ Step(r, "idle", "onboard")
    /\ Begin(r)
    /\ UNCHANGED <<profile, todo, subjects, before, faults, failed, vetted>>

-----------------------------------------------------------------------------
\* onboardVolunteer.

\* Mutant of OnboardRead: the subjects read before the new one was unlocked.
OnboardReadReuses(r) ==
    /\ Client(r)
    /\ \/ /\ pc[r] = "onboard" /\ onboarded
          /\ Finish(r)
       \/ /\ ~onboarded
          /\ Step(r, "onboard", "legacy")
          /\ UNCHANGED <<free, tx, todo, subjects, before>>
    /\ UNCHANGED <<profile, faults, failed, vetted>>

\* getVolunteerForOnboardingById: no row comes back for an onboarded volunteer.
OnboardRead(r) ==
    /\ Client(r)
    /\ \/ /\ pc[r] = "onboard" /\ onboarded
          /\ Finish(r)
       \/ /\ ~onboarded
          /\ Step(r, "onboard", "legacy")
          /\ subjects' = [subjects EXCEPT ![r] = certs \cap SubjectCerts]
          /\ UNCHANGED <<free, tx, todo, before>>
    /\ UNCHANGED <<profile, faults, failed, vetted>>

\* isReadyToOnboard
Ready(r, hasCompletedUpchieve101) ==
    \/ /\ hasCompletedUpchieve101 /\ subjects[r] # {}
       /\ Goto(r, "update")
       /\ UNCHANGED <<free, tx, todo, subjects, before>>
    \/ /\ ~hasCompletedUpchieve101 \/ subjects[r] = {}
       /\ Finish(r)

\* hasCompletedVolunteerTraining is not given the client: its two statements
\* need a free connection also inside a transaction, which holds one already.
ReadLegacy(r) ==
    /\ Pooled
    /\ \/ /\ pc[r] = "legacy" /\ legacy
          /\ Ready(r, TRUE)
       \/ /\ ~legacy
          /\ Step(r, "legacy", "training")
          /\ UNCHANGED <<free, tx, todo, subjects, before>>
    /\ UNCHANGED <<profile, faults, failed, vetted>>

ReadTraining(r) ==
    /\ Pooled
    /\ pc[r] = "training"
    /\ Ready(r, TrainingCerts \subseteq certs)
    /\ UNCHANGED <<profile, faults, failed, vetted>>

\* updateVolunteerOnboarded: in a transaction nobody sees it before COMMIT.
UpdateOnboarded(r) ==
    /\ Client(r)
    /\ Step(r, "update", "log")
    /\ onboarded' = (onboarded \/ ~tx[r])
    /\ UNCHANGED <<partner, legacy, certs, approved, photo, background, actions, free,
                   tx, todo, subjects, before, faults, failed, vetted>>

\* queueOnboardingEventEmails, createAccountAction ONBOARDED, and COMMIT.
LogOnboarded(r) ==
    /\ pc[r] = "log" /\ Client(r)
    /\ actions' = actions \cup {"ONBOARDED"}
    /\ onboarded' = TRUE
    /\ Finish(r)
    /\ UNCHANGED <<partner, legacy, certs, approved, photo, background, faults, failed,
                   vetted>>

-----------------------------------------------------------------------------
\* updatePendingVolunteerStatus.

\* getVolunteerForPendingStatus, and hasCompletedBackgroundInfo.
ReviewRead(r) ==
    /\ Pooled
    /\ Step(r, "idle", "pending")
    /\ before' = [before EXCEPT ![r] = [approved |-> approved, background |-> background]]
    /\ UNCHANGED <<profile, free, tx, todo, subjects, faults, failed, vetted>>

\* A photo that was approved, or complete background information, goes on the record.
Vetted(had, what) == IF had /\ ~partner THEN vetted \cup {what} ELSE vetted

\* Mutant of IsApproved: the background information is not asked for.
IsApprovedByPhoto(r, decision) == decision = "approved"

IsApproved(r, decision) == decision = "approved" /\ before[r].background

\* Mutant of IsNewlyApproved: an approved photo counts as an approval before.
IsNewlyApprovedSince(r, decision) == IsApproved(r, decision) /\ ~photo

IsNewlyApproved(r, decision) == IsApproved(r, decision) /\ ~before[r].approved

\* photoIdStatus comes with the request; it is first looked at here.
ReviewUpdate(r) ==
    /\ pc[r] = "pending" /\ Pooled
    /\ \E decision \in {"approved", "rejected"} :
          /\ approved' = IsApproved(r, decision) /\ photo' = (decision = "approved")
          /\ vetted' = Vetted(photo', "photo")
          /\ \/ /\ IsNewlyApproved(r, decision)
                /\ Goto(r, "log_approved")
                /\ UNCHANGED <<free, tx, todo, subjects, before>>
             \/ ~IsNewlyApproved(r, decision) /\ Finish(r)
    /\ UNCHANGED <<partner, legacy, certs, onboarded, background, actions, faults, failed>>

LogApproved(r) ==
    /\ pc[r] = "log_approved" /\ Pooled
    /\ actions' = actions \cup {"APPROVED"}
    /\ Finish(r)
    /\ UNCHANGED <<partner, legacy, certs, onboarded, approved, photo, background,
                   faults, failed, vetted>>

\* addPhotoId
PhotoAdded(r) ==
    /\ Pooled
    /\ Step(r, "idle", "idle")
    /\ photo' = FALSE
    /\ UNCHANGED <<partner, legacy, certs, onboarded, approved, background, actions,
                   free, tx, todo, subjects, before, faults, failed, vetted>>

-----------------------------------------------------------------------------
\* submitVolunteerBackgroundInfo: the profile is read before BEGIN, and what is
\* written is seen after COMMIT.

BackgroundRead(r) ==
    /\ Pooled
    /\ Step(r, "idle", "background")
    /\ before' = [before EXCEPT ![r].approved = approved]
    /\ UNCHANGED <<profile, free, tx, todo, subjects, faults, failed, vetted>>

BackgroundBegin(r) ==
    /\ Step(r, "background", "submit")
    /\ Begin(r)
    /\ UNCHANGED <<profile, todo, subjects, before, faults, failed, vetted>>

\* Any update is taken.  Occupations are replaced when the field is there, by none when
\* the list is empty; COALESCE keeps the country unless one is given, and an empty string
\* is one: so the information may be complete or not afterwards, whatever it was before.
\* A volunteer of a partner organization is approved all the same.
BackgroundCommit(r) ==
    /\ pc[r] = "submit"
    /\ background' \in BOOLEAN
    /\ vetted' = Vetted(background', "background")
    /\ IF partner /\ ~before[r].approved
       THEN approved' = TRUE /\ actions' = actions \cup {"APPROVED"}
       ELSE UNCHANGED <<approved, actions>>
    /\ Finish(r)
    /\ UNCHANGED <<partner, legacy, certs, onboarded, photo, faults, failed>>

-----------------------------------------------------------------------------
\* The request will yet look whether the volunteer can be onboarded, or has.
WillOnboard(r) == pc[r] \in {"unlock", "onboard", "legacy", "training", "update", "log"}

\* A call to PostgreSQL or Redis throws, and the request with it.
Throw(r) ==
    /\ pc[r] # "idle"
    /\ faults < MaxFaults /\ faults' = faults + 1
    /\ failed' = failed \cup IF WillOnboard(r) THEN {"onboarding"}
                             ELSE {pc[r]} \cap {"log_approved"}
    /\ Finish(r)
    /\ UNCHANGED <<profile, vetted>>

Serve(r) ==
    \/ ReadSubjects(r) \/ AddCertification(r)
    \/ OnboardRead(r) \/ ReadLegacy(r) \/ ReadTraining(r)
    \/ UpdateOnboarded(r) \/ LogOnboarded(r)
    \/ ReviewUpdate(r) \/ LogApproved(r)
    \/ BackgroundBegin(r) \/ BackgroundCommit(r)

Submit(r) ==
    \/ \E q \in Quizzes : QuizSubmitted(r, q)
    \/ ScheduleSubmitted(r) \/ ReviewRead(r) \/ PhotoAdded(r) \/ BackgroundRead(r)

Next == \E r \in Requests : Submit(r) \/ Serve(r) \/ Throw(r)

Spec == Init /\ [][Next]_vars

\* A request goes on with the statements it has started.  One that waits for a
\* connection is served in its turn when others take and release theirs in
\* between (the pool keeps a queue), hence SF.
FairSpec == Spec /\ \A r \in Requests : SF_vars(Serve(r))

-----------------------------------------------------------------------------
\* Properties.

TypeOK ==
    /\ partner \in BOOLEAN /\ legacy \in BOOLEAN /\ certs \subseteq Certs
    /\ onboarded \in BOOLEAN /\ approved \in BOOLEAN
    /\ photo \in BOOLEAN /\ background \in BOOLEAN
    /\ actions \subseteq {"ONBOARDED", "APPROVED"}
    /\ free \in 0..MaxClients
    /\ pc \in [Requests -> Labels] /\ tx \in [Requests -> BOOLEAN]
    /\ todo \in [Requests -> SUBSET Certs]
    /\ subjects \in [Requests -> SUBSET SubjectCerts]
    /\ before \in [Requests -> [approved : BOOLEAN, background : BOOLEAN]]
    /\ faults \in 0..MaxFaults /\ failed \subseteq {"onboarding", "log_approved"}
    /\ vetted \subseteq {"photo", "background"}

Qualified == TrainingCerts \subseteq certs /\ certs \cap SubjectCerts # {}

\* "Onboard the volunteer if they were not previously onboarded, but they have now
\* met the requirements": of the requests that earn him the last certifications at
\* once, one sees them all, although none is in a transaction and each looks at
\* different times.  Except when one of them threw before it had done.
QualifiedIsOnboarded ==
    Qualified /\ "onboarding" \notin failed /\ (\A r \in Requests : ~WillOnboard(r)) => onboarded

\* Nobody is approved for whom no partner organization vouches, unless a reviewer has
\* approved a photo of him and his background information was complete at some time,
\* although reviews and submissions act on profiles they have read before, and a later
\* submission may empty what an earlier one gave.
ApprovedIsVetted == approved => partner \/ vetted = {"photo", "background"}

\* An approval is recorded, although two reviews, or a review and a submission,
\* may each think that the other has done it.
ApprovalIsRecorded ==
    approved /\ "log_approved" \notin failed =>
        "APPROVED" \in actions \/ \E r \in Requests : pc[r] = "log_approved"

\* Every connection is in the pool or held by a transaction that is running.
PoolIsWhole == free + Cardinality({r \in Requests : tx[r]}) = MaxClients

\* All connections are held by transactions that wait for another one.
Starved ==
    Cardinality({r \in Requests : tx[r] /\ pc[r] \in {"legacy", "training"}}) = MaxClients

\* A request is answered, unless the transactions of updateSchedule, which need a
\* second connection each, have taken all there are: then none of them is, ever.
RequestsAreAnswered ==
    \A r \in Requests : pc[r] # "idle" ~> (pc[r] = "idle" \/ Starved)
=============================================================================
