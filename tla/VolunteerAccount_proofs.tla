---------------------- MODULE VolunteerAccount_proofs ----------------------
(***************************************************************************)
(* Proofs about VolunteerAccount, for every number of requests, quizzes    *)
(* and certifications, every size of the pool and any number of throws.    *)
(*                                                                         *)
(* Three parts build on each other: the pool (with the types), what the    *)
(* requests that approve rely on, and what the requests that onboard rely  *)
(* on.                                                                     *)
(***************************************************************************)
EXTENDS VolunteerAccount, FiniteSetTheorems, TLAPS

Holders == {r \in Requests : tx[r]}

\* Where a request can be that holds a connection.
TxPhase ==
    \A r \in Requests :
        tx[r] => pc[r] \in {"onboard", "legacy", "training", "update", "log", "submit"}

PoolInv == TypeOK /\ PoolIsWhole /\ TxPhase

-----------------------------------------------------------------------------
\* The pool.

LEMMA HoldersFinite == IsFiniteSet(Holders) /\ Cardinality(Holders) \in Nat
BY AccountConstants, FS_Subset, FS_CardinalityType DEF AccountConstants, Holders

\* A request that holds none takes a connection.
LEMMA BeginKeepsPool ==
    ASSUME PoolInv, NEW r \in Requests, Begin(r), ~tx[r]
    PROVE  PoolIsWhole' /\ free' \in 0..MaxClients /\ tx' \in [Requests -> BOOLEAN]
<1>1. tx \in [Requests -> BOOLEAN] /\ free \in 0..MaxClients /\ MaxClients \in Nat
  BY AccountConstants DEF PoolInv, TypeOK, AccountConstants
<1>2. Holders' = Holders \cup {r} /\ r \notin Holders
  BY <1>1 DEF Begin, Holders
<1>3. Cardinality(Holders') = Cardinality(Holders) + 1
  BY <1>2, HoldersFinite, FS_AddElement
<1>4. free + Cardinality(Holders) = MaxClients /\ free' = free - 1 /\ free > 0
  BY DEF PoolInv, PoolIsWhole, Holders, Begin, Pooled
<1>5. free' + Cardinality(Holders') = MaxClients
  BY <1>1, <1>3, <1>4, HoldersFinite
<1>6. QED
  BY <1>1, <1>4, <1>5 DEF PoolIsWhole, Holders, Begin

\* A request that is over gives back the one it holds.
LEMMA FinishKeepsPool ==
    ASSUME PoolInv, NEW r \in Requests, Finish(r)
    PROVE  PoolIsWhole' /\ free' \in 0..MaxClients /\ tx' \in [Requests -> BOOLEAN]
<1>1. tx \in [Requests -> BOOLEAN] /\ free \in 0..MaxClients /\ MaxClients \in Nat
  BY AccountConstants DEF PoolInv, TypeOK, AccountConstants
<1>2. free + Cardinality(Holders) = MaxClients
  BY DEF PoolInv, PoolIsWhole, Holders
<1>3. Holders' = Holders \ {r}
  BY <1>1 DEF Finish, Forget, Holders
<1>4. CASE tx[r]
  <2>1. r \in Holders
    BY <1>4 DEF Holders
  <2>2. Cardinality(Holders') = Cardinality(Holders) - 1
    BY <1>3, <2>1, HoldersFinite, FS_RemoveElement
  <2>3. Cardinality(Holders') \in Nat
    BY <1>3, HoldersFinite, FS_RemoveElement, FS_CardinalityType
  <2>4. free' = free + 1
    BY <1>4 DEF Finish
  <2>5. free' + Cardinality(Holders') = MaxClients /\ free' \in 0..MaxClients
    BY <1>1, <1>2, <2>2, <2>3, <2>4, HoldersFinite
  <2>6. QED
    BY <1>1, <2>5 DEF PoolIsWhole, Holders, Finish, Forget
<1>5. CASE ~tx[r]
  <2>1. Holders' = Holders
    BY <1>3, <1>5 DEF Holders
  <2>2. free' = free
    BY <1>5 DEF Finish
  <2>3. QED
    BY <1>1, <1>2, <2>1, <2>2 DEF PoolIsWhole, Holders, Finish, Forget
<1>6. QED
  BY <1>4, <1>5

\* The locals of a request keep their types and its phase when it is over, and when
\* it goes on without touching the pool.
LEMMA FinishTyped ==
    ASSUME PoolInv, NEW r \in Requests, Finish(r)
    PROVE  /\ pc' \in [Requests -> Labels] /\ todo' \in [Requests -> SUBSET Certs]
           /\ subjects' \in [Requests -> SUBSET SubjectCerts]
           /\ before' \in [Requests -> [approved : BOOLEAN, background : BOOLEAN]]
           /\ TxPhase'
<1>1. /\ pc \in [Requests -> Labels] /\ todo \in [Requests -> SUBSET Certs]
      /\ subjects \in [Requests -> SUBSET SubjectCerts] /\ tx \in [Requests -> BOOLEAN]
      /\ before \in [Requests -> [approved : BOOLEAN, background : BOOLEAN]]
  BY DEF PoolInv, TypeOK
<1>2. Nothing \in [approved : BOOLEAN, background : BOOLEAN] /\ "idle" \in Labels
  BY DEF Nothing, Labels
<1>3. TxPhase'
  BY <1>1 DEF PoolInv, TxPhase, Finish, Goto, Forget
<1>4. QED
  BY <1>1, <1>2, <1>3 DEF Finish, Goto, Forget


\* A request that goes on, with the connection it has or without one.
LEMMA GoesOn ==
    ASSUME PoolInv, NEW r \in Requests, NEW label \in Labels, Goto(r, label),
           UNCHANGED <<free, tx>>,
           tx[r] => label \in {"onboard", "legacy", "training", "update", "log", "submit"}
    PROVE  PoolIsWhole' /\ TxPhase' /\ pc' \in [Requests -> Labels]
<1>1. pc \in [Requests -> Labels] /\ tx \in [Requests -> BOOLEAN]
  BY DEF PoolInv, TypeOK
<1>2. PoolIsWhole'
  BY DEF PoolInv, PoolIsWhole
<1>3. TxPhase'
  BY <1>1 DEF PoolInv, TxPhase, Goto
<1>4. QED
  BY <1>1, <1>2, <1>3 DEF Goto

\* A request that begins a transaction has none.
LEMMA Begins ==
    ASSUME PoolInv, NEW r \in Requests, NEW label \in Labels, Goto(r, label), Begin(r),
           pc[r] \in {"idle", "background"}, label \in {"onboard", "submit"}
    PROVE  /\ PoolIsWhole' /\ TxPhase' /\ pc' \in [Requests -> Labels]
           /\ free' \in 0..MaxClients /\ tx' \in [Requests -> BOOLEAN]
<1>1. pc \in [Requests -> Labels] /\ tx \in [Requests -> BOOLEAN]
  BY DEF PoolInv, TypeOK
<1>2. ~tx[r]
  BY DEF PoolInv, TxPhase
<1>3. TxPhase'
  BY <1>1 DEF PoolInv, TxPhase, Goto, Begin
<1>4. QED
  BY <1>1, <1>2, <1>3, BeginKeepsPool DEF Goto

\* What the requests of a quiz do.
LEMMA QuizKeepsPool ==
    ASSUME PoolInv, NEW r \in Requests,
           \/ \E q \in Quizzes : QuizSubmitted(r, q)
           \/ ReadSubjects(r) \/ AddCertification(r)
    PROVE  PoolInv'
<1> USE DEF PoolInv
<1>1. CASE \E q \in Quizzes : QuizSubmitted(r, q)
  <2>1. PICK q \in Quizzes : QuizSubmitted(r, q)
    BY <1>1
  <2>2. Grants[q] \in SUBSET Certs
    BY AccountConstants DEF AccountConstants
  <2>3. PICK label \in {"subjects", "idle"} : Goto(r, label)
    BY <2>1 DEF QuizSubmitted, Step
  <2>4. ~tx[r] /\ label \in Labels /\ UNCHANGED <<free, tx>>
    BY <2>1, <2>3 DEF QuizSubmitted, Step, TxPhase, Labels
  <2>5. PoolIsWhole' /\ TxPhase' /\ pc' \in [Requests -> Labels]
    BY <2>3, <2>4, GoesOn
  <2>6. TypeOK'
    BY <2>1, <2>2, <2>5 DEF TypeOK, QuizSubmitted
  <2>7. QED
    BY <2>5, <2>6
<1>2. CASE ReadSubjects(r)
  <2>1. PICK label \in {"onboard", "unlock"} : Goto(r, label)
    BY <1>2 DEF ReadSubjects, Unlock, Step
  <2>2. ~tx[r] /\ label \in Labels /\ UNCHANGED <<free, tx>>
    BY <1>2, <2>1 DEF ReadSubjects, Unlock, Step, TxPhase, Labels
  <2>3. PoolIsWhole' /\ TxPhase' /\ pc' \in [Requests -> Labels]
    BY <2>1, <2>2, GoesOn
  <2>4. TypeOK'
    BY <1>2, <2>3 DEF TypeOK, ReadSubjects, Unlock, profile
  <2>5. QED
    BY <2>3, <2>4
<1>3. CASE AddCertification(r)
  <2>1. PICK label \in {"onboard", "unlock"} : Goto(r, label)
    BY <1>3 DEF AddCertification, Unlock, Step
  <2>2. ~tx[r] /\ label \in Labels /\ UNCHANGED <<free, tx>>
    BY <1>3, <2>1 DEF AddCertification, Unlock, Step, TxPhase, Labels
  <2>3. PoolIsWhole' /\ TxPhase' /\ pc' \in [Requests -> Labels]
    BY <2>1, <2>2, GoesOn
  <2>4. PICK c \in todo[r] : certs' = certs \cup {c} /\ todo' = [todo EXCEPT ![r] = todo[r] \ {c}]
    BY <1>3 DEF AddCertification, Unlock
  <2>5. certs' \subseteq Certs /\ todo' \in [Requests -> SUBSET Certs]
    BY <2>4 DEF TypeOK
  <2>6. TypeOK'
    BY <1>3, <2>3, <2>5 DEF TypeOK, AddCertification
  <2>7. QED
    BY <2>3, <2>6
<1>4. QED
  BY <1>1, <1>2, <1>3

\* What onboardVolunteer does, on the pool or in the transaction of updateSchedule.
LEMMA OnboardKeepsPool ==
    ASSUME PoolInv, NEW r \in Requests,
           \/ ScheduleSubmitted(r) \/ OnboardRead(r) \/ ReadLegacy(r) \/ ReadTraining(r)
           \/ UpdateOnboarded(r) \/ LogOnboarded(r)
    PROVE  PoolInv'
<1> USE DEF PoolInv
<1>a. ASSUME Finish(r), UNCHANGED <<partner, legacy, certs, approved, photo, background,
                                    faults, failed, vetted>>,
             onboarded' \in BOOLEAN, actions' \subseteq {"ONBOARDED", "APPROVED"}
      PROVE  PoolInv'
  BY <1>a, FinishKeepsPool, FinishTyped DEF TypeOK
<1>b. ASSUME NEW label \in {"legacy", "training", "update", "log"}, Goto(r, label),
             UNCHANGED <<partner, legacy, certs, approved, photo, background, actions,
                         faults, failed, vetted, free, tx, todo, before>>,
             onboarded' \in BOOLEAN, subjects' \in [Requests -> SUBSET SubjectCerts]
      PROVE  PoolInv'
  <2>1. label \in Labels
    BY DEF Labels
  <2>2. PoolIsWhole' /\ TxPhase' /\ pc' \in [Requests -> Labels]
    BY <1>b, <2>1, GoesOn
  <2>3. QED
    BY <1>b, <2>2 DEF TypeOK
<1>1. CASE ScheduleSubmitted(r)
  <2>1. "onboard" \in Labels
    BY DEF Labels
  <2>2. /\ PoolIsWhole' /\ TxPhase' /\ pc' \in [Requests -> Labels]
        /\ free' \in 0..MaxClients /\ tx' \in [Requests -> BOOLEAN]
    BY <1>1, <2>1, Begins DEF ScheduleSubmitted, Step
  <2>3. QED
    BY <1>1, <2>2 DEF TypeOK, ScheduleSubmitted, profile
<1>2. CASE OnboardRead(r)
  <2>1. CASE Finish(r)
    BY <1>2, <2>1, <1>a DEF OnboardRead, profile, TypeOK
  <2>2. CASE Goto(r, "legacy") /\ subjects' = [subjects EXCEPT ![r] = certs \cap SubjectCerts]
             /\ UNCHANGED <<free, tx, todo, before>>
    <3>1. subjects' \in [Requests -> SUBSET SubjectCerts]
      BY <2>2 DEF TypeOK
    <3>2. QED
      BY <1>2, <2>2, <3>1, <1>b DEF OnboardRead, profile, TypeOK
  <2>3. QED
    BY <1>2, <2>1, <2>2 DEF OnboardRead, Step
<1>3. CASE ReadLegacy(r)
  <2>1. CASE Finish(r)
    BY <1>3, <2>1, <1>a DEF ReadLegacy, profile, TypeOK
  <2>2. CASE UNCHANGED <<free, tx, todo, subjects, before>>
             /\ (Goto(r, "training") \/ Goto(r, "update"))
    BY <1>3, <2>2, <1>b DEF ReadLegacy, profile, TypeOK
  <2>3. QED
    BY <1>3, <2>1, <2>2 DEF ReadLegacy, Ready, Step
<1>4. CASE ReadTraining(r)
  <2>1. CASE Finish(r)
    BY <1>4, <2>1, <1>a DEF ReadTraining, profile, TypeOK
  <2>2. CASE UNCHANGED <<free, tx, todo, subjects, before>> /\ Goto(r, "update")
    BY <1>4, <2>2, <1>b DEF ReadTraining, profile, TypeOK
  <2>3. QED
    BY <1>4, <2>1, <2>2 DEF ReadTraining, Ready
<1>5. CASE UpdateOnboarded(r)
  BY <1>5, <1>b DEF UpdateOnboarded, Step, TypeOK
<1>6. CASE LogOnboarded(r)
  BY <1>6, <1>a DEF LogOnboarded, TypeOK
<1>7. QED
  BY <1>1, <1>2, <1>3, <1>4, <1>5, <1>6

\* A request that has read the profile knows whether the volunteer is approved, and
\* thinks that his background information is complete only if it is.
LEMMA ReadsProfile ==
    ASSUME PoolInv, NEW r \in Requests, ReviewRead(r) \/ BackgroundRead(r)
    PROVE  \E given \in [approved : BOOLEAN, background : BOOLEAN] :
              /\ before' = [before EXCEPT ![r] = given]
              /\ given.approved = approved
              /\ given.background => background \/ before[r].background
<1>1. CASE ReviewRead(r)
  <2>1. [approved |-> approved, background |-> background]
            \in [approved : BOOLEAN, background : BOOLEAN]
    BY DEF PoolInv, TypeOK
  <2>2. QED
    BY <1>1, <2>1 DEF ReviewRead
<1>2. CASE BackgroundRead(r)
  <2>1. [before[r] EXCEPT !.approved = approved] \in [approved : BOOLEAN, background : BOOLEAN]
    BY DEF PoolInv, TypeOK
  <2>2. before' = [before EXCEPT ![r] = [before[r] EXCEPT !.approved = approved]]
    BY <1>2 DEF BackgroundRead
  <2>3. before[r] \in [approved : BOOLEAN, background : BOOLEAN]
    BY DEF PoolInv, TypeOK
  <2>4. QED
    BY <2>1, <2>2, <2>3
<1>3. QED
  BY <1>1, <1>2

\* What the review of the photo and the background information do.
LEMMA ReviewKeepsPool ==
    ASSUME PoolInv, NEW r \in Requests,
           \/ ReviewRead(r) \/ PhotoAdded(r) \/ BackgroundRead(r) \/ ReviewUpdate(r)
           \/ LogApproved(r) \/ BackgroundBegin(r) \/ BackgroundCommit(r)
    PROVE  PoolInv'
<1> USE DEF PoolInv
<1>1. CASE ReviewRead(r) \/ BackgroundRead(r)
  <2>1. PICK label \in {"pending", "background"} : Goto(r, label)
    BY <1>1 DEF ReviewRead, BackgroundRead, Step
  <2>2. ~tx[r] /\ label \in Labels /\ UNCHANGED <<free, tx>>
    BY <1>1 DEF ReviewRead, BackgroundRead, Step, TxPhase, Labels
  <2>3. PoolIsWhole' /\ TxPhase' /\ pc' \in [Requests -> Labels]
    BY <2>1, <2>2, GoesOn
  <2>4. PICK given \in [approved : BOOLEAN, background : BOOLEAN] :
            before' = [before EXCEPT ![r] = given]
    BY <1>1, ReadsProfile
  <2>6. before' \in [Requests -> [approved : BOOLEAN, background : BOOLEAN]]
    BY <2>4 DEF TypeOK
  <2>7. UNCHANGED <<profile, free, tx, todo, subjects, faults, failed, vetted>>
    BY <1>1 DEF ReviewRead, BackgroundRead
  <2>8. QED
    BY <2>3, <2>6, <2>7 DEF TypeOK, profile
<1>2. CASE PhotoAdded(r)
  <2>1. ~tx[r] /\ "idle" \in Labels
    BY <1>2 DEF PhotoAdded, Step, TxPhase, Labels
  <2>2. PoolIsWhole' /\ TxPhase' /\ pc' \in [Requests -> Labels]
    BY <1>2, <2>1, GoesOn DEF PhotoAdded, Step
  <2>3. QED
    BY <1>2, <2>2 DEF TypeOK, PhotoAdded
<1>3. CASE ReviewUpdate(r)
  <2>a. approved' \in BOOLEAN /\ photo' \in BOOLEAN
    BY <1>3 DEF ReviewUpdate, IsApproved
  <2>b. vetted' \subseteq {"photo", "background"}
    BY <1>3 DEF ReviewUpdate, Vetted, TypeOK
  <2>c. UNCHANGED <<partner, legacy, certs, onboarded, background, actions, faults, failed>>
    BY <1>3 DEF ReviewUpdate
  <2>1. CASE Finish(r)
    BY <2>a, <2>b, <2>c, <2>1, FinishKeepsPool, FinishTyped DEF TypeOK
  <2>2. CASE Goto(r, "log_approved") /\ UNCHANGED <<free, tx, todo, subjects, before>>
    <3>1. ~tx[r] /\ "log_approved" \in Labels
      BY <1>3 DEF ReviewUpdate, TxPhase, Labels
    <3>2. PoolIsWhole' /\ TxPhase' /\ pc' \in [Requests -> Labels]
      BY <2>2, <3>1, GoesOn
    <3>3. TypeOK'
      BY <2>a, <2>b, <2>c, <2>2, <3>2 DEF TypeOK
    <3>4. QED
      BY <3>2, <3>3
  <2>3. QED
    BY <1>3, <2>1, <2>2 DEF ReviewUpdate
<1>4. CASE LogApproved(r)
  BY <1>4, FinishKeepsPool, FinishTyped DEF LogApproved, TypeOK
<1>5. CASE BackgroundBegin(r)
  <2>1. "submit" \in Labels
    BY DEF Labels
  <2>2. /\ PoolIsWhole' /\ TxPhase' /\ pc' \in [Requests -> Labels]
        /\ free' \in 0..MaxClients /\ tx' \in [Requests -> BOOLEAN]
    BY <1>5, <2>1, Begins DEF BackgroundBegin, Step
  <2>3. QED
    BY <1>5, <2>2 DEF TypeOK, BackgroundBegin, profile
<1>6. CASE BackgroundCommit(r)
  <2>1. vetted' \subseteq {"photo", "background"}
    BY <1>6 DEF BackgroundCommit, Vetted, TypeOK
  <2>2. QED
    BY <1>6, <2>1, FinishKeepsPool, FinishTyped DEF BackgroundCommit, TypeOK
<1>7. QED
  BY <1>1, <1>2, <1>3, <1>4, <1>5, <1>6

LEMMA ThrowKeepsPool ==
    ASSUME PoolInv, NEW r \in Requests, Throw(r)
    PROVE  PoolInv'
<1>1. faults' \in 0..MaxFaults
  BY AccountConstants DEF PoolInv, TypeOK, Throw, AccountConstants
<1>2. failed' \subseteq {"onboarding", "log_approved"}
  BY DEF PoolInv, TypeOK, Throw
<1>3. QED
  BY <1>1, <1>2, FinishKeepsPool, FinishTyped DEF PoolInv, TypeOK, Throw, profile

LEMMA InitPool == Init => PoolInv
<1> SUFFICES ASSUME Init PROVE PoolInv
  OBVIOUS
<1>1. Holders = {}
  BY DEF Init, Holders
<1>2. PoolIsWhole
  BY <1>1, FS_EmptySet, AccountConstants DEF Init, PoolIsWhole, Holders, AccountConstants
<1>3. TypeOK
  <2>1. pc \in [Requests -> Labels] /\ tx \in [Requests -> BOOLEAN]
    BY DEF Init, Labels
  <2>2. before \in [Requests -> [approved : BOOLEAN, background : BOOLEAN]]
    BY DEF Init, Nothing
  <2>3. todo \in [Requests -> SUBSET Certs] /\ subjects \in [Requests -> SUBSET SubjectCerts]
    BY DEF Init
  <2>4. free \in 0..MaxClients /\ faults \in 0..MaxFaults
    BY AccountConstants DEF Init, AccountConstants
  <2>5. QED
    BY <2>1, <2>2, <2>3, <2>4 DEF Init, TypeOK
<1>4. QED
  BY <1>2, <1>3 DEF Init, PoolInv, TxPhase

LEMMA StepPool == PoolInv /\ [Next]_vars => PoolInv'
<1> SUFFICES ASSUME PoolInv, [Next]_vars PROVE PoolInv'
  OBVIOUS
<1>1. CASE UNCHANGED vars
  BY <1>1 DEF vars, profile, locals, PoolInv, TypeOK, PoolIsWhole, TxPhase
<1>2. CASE Next
  <2>1. PICK r \in Requests : Submit(r) \/ Serve(r) \/ Throw(r)
    BY <1>2 DEF Next
  <2>2. CASE Submit(r)
    BY <2>2, QuizKeepsPool, OnboardKeepsPool, ReviewKeepsPool DEF Submit
  <2>3. CASE Serve(r)
    BY <2>3, QuizKeepsPool, OnboardKeepsPool, ReviewKeepsPool DEF Serve
  <2>4. QED
    BY <2>1, <2>2, <2>3, ThrowKeepsPool
<1>3. QED
  BY <1>1, <1>2

LEMMA PoolInvariant == Spec => []PoolInv
BY InitPool, StepPool, PTL DEF Spec

\* Every variable keeps its type.
THEOREM TypeCorrect == Spec => []TypeOK
<1>1. PoolInv => TypeOK
  BY DEF PoolInv
<1>2. QED
  BY <1>1, PoolInvariant, PTL

\* runInTransaction gives every connection back, after COMMIT, ROLLBACK and early
\* returns alike, and only those that it holds.
THEOREM NoConnectionIsLost == Spec => []PoolIsWhole
<1>1. PoolInv => PoolIsWhole
  BY DEF PoolInv
<1>2. QED
  BY <1>1, PoolInvariant, PTL

-----------------------------------------------------------------------------
\* Approval.

\* An approval is recorded, or will be, or the request that would have failed.
Recorded ==
    \/ "APPROVED" \in actions \/ "log_approved" \in failed
    \/ \E r \in Requests : pc[r] = "log_approved"

\* Background information that was complete once is on the record, or a partner
\* organization makes it needless.
Informed == partner \/ "background" \in vetted

\* What a request has read of the profile may be gone, but it is on the record.
ReadsHold ==
    \A r \in Requests :
        /\ before[r].background => Informed
        /\ before[r].approved => Recorded

ApprovalInv ==
    ReadsHold /\ ApprovedIsVetted /\ (background => Informed) /\ (approved => Recorded)

\* The only steps that write what approval depends on.
Approving(r) ==
    \/ ReviewRead(r) \/ BackgroundRead(r) \/ ReviewUpdate(r) \/ LogApproved(r)
    \/ BackgroundCommit(r) \/ Throw(r)

\* The other steps leave it alone, and forget at most what they have read.
LEMMA OthersKeepApproval ==
    ASSUME PoolInv, NEW r \in Requests, Submit(r) \/ Serve(r), ~Approving(r)
    PROVE  /\ UNCHANGED <<partner, approved, background, failed, vetted>>
           /\ "APPROVED" \in actions => "APPROVED" \in actions'
           /\ before' \in {before, [before EXCEPT ![r] = Nothing]}
           /\ \A q \in Requests : pc[q] = "log_approved" => pc'[q] = "log_approved"
<1> USE DEF PoolInv, TypeOK, profile, Step, Goto, Finish, Forget
<1>1. CASE \E q \in Quizzes : QuizSubmitted(r, q)
  BY <1>1 DEF QuizSubmitted
<1>2. CASE ScheduleSubmitted(r) \/ PhotoAdded(r) \/ BackgroundBegin(r)
  BY <1>2 DEF ScheduleSubmitted, PhotoAdded, BackgroundBegin, Begin
<1>3. CASE ReadSubjects(r) \/ AddCertification(r)
  BY <1>3 DEF ReadSubjects, AddCertification, Unlock
<1>4. CASE OnboardRead(r)
  BY <1>4 DEF OnboardRead
<1>5. CASE ReadLegacy(r) \/ ReadTraining(r)
  BY <1>5 DEF ReadLegacy, ReadTraining, Ready
<1>6. CASE UpdateOnboarded(r) \/ LogOnboarded(r)
  BY <1>6 DEF UpdateOnboarded, LogOnboarded
<1>7. QED
  BY <1>1, <1>2, <1>3, <1>4, <1>5, <1>6 DEF Submit, Serve, Approving

LEMMA ApprovalKept ==
    ASSUME PoolInv, ApprovalInv, NEW r \in Requests,
           UNCHANGED <<partner, approved, background, failed, vetted>>,
           "APPROVED" \in actions => "APPROVED" \in actions',
           before' \in {before, [before EXCEPT ![r] = Nothing]},
           \A q \in Requests : pc[q] = "log_approved" => pc'[q] = "log_approved"
    PROVE  ApprovalInv'
<1>1. Recorded => Recorded'
  BY DEF Recorded
<1>2. \A q \in Requests : before'[q] = before[q] \/ before'[q] = Nothing
  BY DEF PoolInv, TypeOK
<1>3. ReadsHold'
  BY <1>1, <1>2 DEF ApprovalInv, ReadsHold, Informed, Nothing
<1>4. ApprovedIsVetted'
  BY DEF ApprovalInv, ApprovedIsVetted
<1>5. QED
  BY <1>1, <1>3, <1>4 DEF ApprovalInv, Informed

\* A request that is over has forgotten what it read.
LEMMA FinishForgets ==
    ASSUME PoolInv, NEW r \in Requests, Finish(r)
    PROVE  /\ \A q \in Requests : before'[q] = before[q] \/ before'[q] = Nothing
           /\ \A q \in Requests \ {r} : pc'[q] = pc[q]
BY DEF PoolInv, TypeOK, Finish, Forget, Goto

LEMMA ApprovingKeeps ==
    ASSUME PoolInv, ApprovalInv, NEW r \in Requests, Approving(r)
    PROVE  ApprovalInv'
<1>1. CASE ReviewRead(r) \/ BackgroundRead(r)
  <2>1. UNCHANGED <<partner, approved, background, failed, vetted, actions>>
    BY <1>1 DEF ReviewRead, BackgroundRead, profile
  <2>0. PICK given \in [approved : BOOLEAN, background : BOOLEAN] :
            /\ before' = [before EXCEPT ![r] = given]
            /\ given.approved = approved
            /\ given.background => background \/ before[r].background
    BY <1>1, ReadsProfile
  <2>2. \A q \in Requests : pc[q] = "log_approved" => pc'[q] = "log_approved"
    BY <1>1 DEF ReviewRead, BackgroundRead, Step, Goto, PoolInv, TypeOK
  <2>3. Recorded => Recorded'
    BY <2>1, <2>2 DEF Recorded
  <2>4. ReadsHold'
    BY <2>0, <2>1, <2>3 DEF ApprovalInv, ReadsHold, Informed, PoolInv, TypeOK
  <2>5. QED
    BY <2>1, <2>3, <2>4 DEF ApprovalInv, ApprovedIsVetted, Informed
<1>2. CASE ReviewUpdate(r)
  <2>1. PICK decision \in {"approved", "rejected"} :
          /\ approved' = IsApproved(r, decision)
          /\ photo' = (decision = "approved") /\ vetted' = Vetted(photo', "photo")
          /\ \/ IsNewlyApproved(r, decision) /\ Goto(r, "log_approved") /\ UNCHANGED before
             \/ ~IsNewlyApproved(r, decision) /\ Finish(r)
    BY <1>2 DEF ReviewUpdate
  <2>2. UNCHANGED <<partner, background, actions, failed>> /\ pc[r] = "pending"
    BY <1>2 DEF ReviewUpdate
  <2>3. \A q \in Requests : /\ before'[q] = before[q] \/ before'[q] = Nothing
                            /\ pc[q] = "log_approved" => pc'[q] = "log_approved"
    BY <2>1, <2>2, FinishForgets DEF Goto, PoolInv, TypeOK
  <2>4. Recorded => Recorded'
    BY <2>2, <2>3 DEF Recorded
  <2>5. approved' => Recorded'
    <3>1. CASE IsNewlyApproved(r, decision)
      BY <2>1, <3>1 DEF Goto, PoolInv, TypeOK, Recorded, IsNewlyApproved
    <3>2. CASE ~IsNewlyApproved(r, decision)
      BY <2>1, <2>4, <3>2 DEF IsNewlyApproved, ApprovalInv, ReadsHold
    <3>3. QED
      BY <3>1, <3>2
  <2>i. Informed => Informed'
    BY <2>1, <2>2 DEF Informed, Vetted
  <2>6. ApprovedIsVetted'
    <3>1. SUFFICES ASSUME approved', ~partner PROVE vetted' = {"photo", "background"}
      BY <2>2 DEF ApprovedIsVetted
    <3>2. "background" \in vetted /\ photo'
      BY <2>1, <3>1 DEF IsApproved, ApprovalInv, ReadsHold, Informed
    <3>3. vetted' = vetted \cup {"photo"}
      BY <2>1, <3>1, <3>2 DEF Vetted
    <3>4. QED
      BY <3>2, <3>3 DEF PoolInv, TypeOK
  <2>7. ReadsHold'
    BY <2>i, <2>3, <2>4 DEF ApprovalInv, ReadsHold, Nothing
  <2>8. QED
    BY <2>2, <2>i, <2>5, <2>6, <2>7 DEF ApprovalInv
<1>3. CASE LogApproved(r)
  <2>1. "APPROVED" \in actions' /\ Finish(r)
    BY <1>3 DEF LogApproved
  <2>2. Recorded'
    BY <2>1 DEF Recorded
  <2>3. ReadsHold'
    BY <1>3, <2>1, <2>2, FinishForgets DEF LogApproved, ApprovalInv, ReadsHold, Informed, Nothing
  <2>4. QED
    BY <1>3, <2>2, <2>3 DEF LogApproved, ApprovalInv, ApprovedIsVetted, Informed
<1>4. CASE BackgroundCommit(r)
  <2>1. /\ vetted' = Vetted(background', "background") /\ Finish(r) /\ pc[r] = "submit"
        /\ UNCHANGED <<partner, failed>>
        /\ \/ partner /\ approved' = TRUE /\ actions' = actions \cup {"APPROVED"}
           \/ UNCHANGED <<approved, actions>>
    BY <1>4 DEF BackgroundCommit
  <2>2. \A q \in Requests : /\ before'[q] = before[q] \/ before'[q] = Nothing
                            /\ pc[q] = "log_approved" => pc'[q] = "log_approved"
    BY <2>1, FinishForgets
  <2>3. Recorded => Recorded'
    BY <2>1, <2>2 DEF Recorded
  <2>4. approved' => Recorded'
    BY <2>1, <2>3 DEF ApprovalInv, Recorded
  <2>i. (Informed => Informed') /\ (background' => Informed')
    BY <2>1 DEF Informed, Vetted
  <2>5. ReadsHold'
    BY <2>i, <2>2, <2>3 DEF ApprovalInv, ReadsHold, Nothing
  <2>v. vetted = {"photo", "background"} => vetted' = {"photo", "background"}
    BY <2>1 DEF Vetted
  <2>6. ApprovedIsVetted'
    BY <2>1, <2>v DEF ApprovalInv, ApprovedIsVetted
  <2>7. QED
    BY <2>i, <2>4, <2>5, <2>6 DEF ApprovalInv
<1>5. CASE Throw(r)
  <2>1. UNCHANGED <<partner, approved, background, vetted, actions>> /\ Finish(r)
    BY <1>5 DEF Throw, profile
  <2>2. failed \subseteq failed' /\ (pc[r] = "log_approved" => "log_approved" \in failed')
    BY <1>5 DEF Throw, WillOnboard
  <2>3. \A q \in Requests \ {r} : pc'[q] = pc[q]
    BY <2>1, FinishForgets
  <2>4. Recorded => Recorded'
    BY <2>1, <2>2, <2>3 DEF Recorded
  <2>5. ReadsHold'
    BY <2>1, <2>4, FinishForgets DEF ApprovalInv, ReadsHold, Informed, Nothing
  <2>6. QED
    BY <2>1, <2>4, <2>5 DEF ApprovalInv, ApprovedIsVetted, Informed
<1>6. QED
  BY <1>1, <1>2, <1>3, <1>4, <1>5 DEF Approving

LEMMA InitApproval == Init => ApprovalInv
BY DEF Init, ApprovalInv, ReadsHold, Informed, ApprovedIsVetted, Nothing

LEMMA StepApproval == PoolInv /\ ApprovalInv /\ [Next]_vars => ApprovalInv'
<1> SUFFICES ASSUME PoolInv, ApprovalInv, [Next]_vars PROVE ApprovalInv'
  OBVIOUS
<1>1. CASE UNCHANGED vars
  BY <1>1 DEF vars, profile, locals, ApprovalInv, ReadsHold, Informed, ApprovedIsVetted, Recorded
<1>2. CASE Next
  <2>1. PICK r \in Requests : Submit(r) \/ Serve(r) \/ Throw(r)
    BY <1>2 DEF Next
  <2>2. CASE Approving(r)
    BY <2>2, ApprovingKeeps
  <2>3. CASE ~Approving(r)
    BY <2>1, <2>3, OthersKeepApproval, ApprovalKept DEF Approving
  <2>4. QED
    BY <2>2, <2>3
<1>3. QED
  BY <1>1, <1>2

LEMMA ApprovalInvariant == Spec => []ApprovalInv
<1>1. Spec => []PoolInv
  BY PoolInvariant
<1>2. PoolInv /\ ApprovalInv /\ [Next]_vars => ApprovalInv'
  BY StepApproval
<1>3. QED
  BY <1>1, <1>2, InitApproval, PTL DEF Spec

\* Nobody is approved without a partner organization who had not a photo approved and,
\* at some time, complete background information, although reviews and submissions
\* write from what they read before.
THEOREM NobodyIsApprovedUnvetted == Spec => []ApprovedIsVetted
<1>1. ApprovalInv => ApprovedIsVetted
  BY DEF ApprovalInv
<1>2. QED
  BY <1>1, ApprovalInvariant, PTL

\* An approval has its account action, or a request about to write it.
THEOREM ApprovalsAreRecorded == Spec => []ApprovalIsRecorded
<1>1. ApprovalInv => ApprovalIsRecorded
  BY DEF ApprovalInv, ApprovalIsRecorded, Recorded
<1>2. QED
  BY <1>1, ApprovalInvariant, PTL

-----------------------------------------------------------------------------
\* Onboarding.

\* A request that will find, in what it has read and what it will yet read, that a
\* qualified volunteer can be onboarded.
WillSee(r) ==
    \/ pc[r] \in {"unlock", "onboard", "update", "log"}
    \/ pc[r] \in {"legacy", "training"} /\ subjects[r] # {}

OnboardInv ==
    Qualified /\ "onboarding" \notin failed /\ ~onboarded => \E r \in Requests : WillSee(r)

\* A step of one request neither blinds another one nor takes anything back.
LEMMA OthersStillSee ==
    ASSUME PoolInv, NEW r \in Requests, Submit(r) \/ Serve(r) \/ Throw(r)
    PROVE  /\ certs \subseteq certs' /\ (onboarded => onboarded') /\ failed \subseteq failed'
           /\ \A q \in Requests \ {r} : WillSee(q) => WillSee(q)'
<1> USE DEF PoolInv, TypeOK, profile, Step, Goto, Finish, Forget, WillSee
<1>1. CASE \E q \in Quizzes : QuizSubmitted(r, q)
  BY <1>1 DEF QuizSubmitted
<1>2. CASE ScheduleSubmitted(r) \/ PhotoAdded(r) \/ BackgroundBegin(r)
  BY <1>2 DEF ScheduleSubmitted, PhotoAdded, BackgroundBegin, Begin
<1>3. CASE ReadSubjects(r) \/ AddCertification(r)
  BY <1>3 DEF ReadSubjects, AddCertification, Unlock
<1>4. CASE OnboardRead(r)
  BY <1>4 DEF OnboardRead
<1>5. CASE ReadLegacy(r) \/ ReadTraining(r)
  BY <1>5 DEF ReadLegacy, ReadTraining, Ready
<1>6. CASE UpdateOnboarded(r) \/ LogOnboarded(r)
  BY <1>6 DEF UpdateOnboarded, LogOnboarded
<1>7. CASE ReviewRead(r) \/ BackgroundRead(r)
  BY <1>7 DEF ReviewRead, BackgroundRead
<1>8. CASE ReviewUpdate(r) \/ LogApproved(r)
  BY <1>8 DEF ReviewUpdate, LogApproved
<1>9. CASE BackgroundCommit(r) \/ Throw(r)
  BY <1>9 DEF BackgroundCommit, Throw
<1>10. QED
  BY <1>1, <1>2, <1>3, <1>4, <1>5, <1>6, <1>7, <1>8, <1>9 DEF Submit, Serve

\* The request that earns the volunteer what was missing sees it.
LEMMA EarningSees ==
    ASSUME PoolInv, NEW r \in Requests, Submit(r) \/ Serve(r) \/ Throw(r), certs' # certs
    PROVE  WillSee(r)'
<1>1. AddCertification(r)
  BY DEF Submit, Serve, profile, QuizSubmitted, ScheduleSubmitted, ReviewRead, PhotoAdded,
         BackgroundRead, ReadSubjects, OnboardRead, ReadLegacy, ReadTraining,
         UpdateOnboarded, LogOnboarded, ReviewUpdate, LogApproved, BackgroundBegin,
         BackgroundCommit, Throw
<1>2. QED
  BY <1>1 DEF AddCertification, Unlock, Step, Goto, WillSee, PoolInv, TypeOK

\* A request that sees a qualified volunteer goes on until it has onboarded him.
LEMMA SeeingGoesOn ==
    ASSUME PoolInv, NEW r \in Requests, Submit(r) \/ Serve(r) \/ Throw(r),
           WillSee(r), Qualified, ~onboarded
    PROVE  WillSee(r)' \/ onboarded' \/ "onboarding" \in failed'
<1> USE DEF PoolInv, TypeOK, Step, Goto, WillSee
<1>1. CASE AddCertification(r)
  BY <1>1 DEF AddCertification, Unlock
<1>2. CASE OnboardRead(r)
  BY <1>2 DEF OnboardRead, Qualified
<1>3. CASE ReadLegacy(r) \/ ReadTraining(r)
  BY <1>3 DEF ReadLegacy, ReadTraining, Ready, Qualified
<1>4. CASE UpdateOnboarded(r) \/ LogOnboarded(r)
  BY <1>4 DEF UpdateOnboarded, LogOnboarded
<1>5. CASE Throw(r)
  BY <1>5 DEF Throw, WillOnboard
<1>6. ASSUME Submit(r) PROVE pc[r] = "idle"
  BY <1>6 DEF Submit, QuizSubmitted, ScheduleSubmitted, ReviewRead, PhotoAdded, BackgroundRead
<1>7. ASSUME ReadSubjects(r) \/ ReviewUpdate(r) \/ LogApproved(r) \/ BackgroundBegin(r)
                 \/ BackgroundCommit(r)
      PROVE  pc[r] \in {"subjects", "pending", "log_approved", "background", "submit"}
  BY <1>7 DEF ReadSubjects, Unlock, ReviewUpdate, LogApproved, BackgroundBegin, BackgroundCommit
<1>8. pc[r] \in {"unlock", "onboard", "update", "log", "legacy", "training"}
  OBVIOUS
<1>9. QED
  BY <1>1, <1>2, <1>3, <1>4, <1>5, <1>6, <1>7, <1>8 DEF Serve

LEMMA StepOnboard == PoolInv /\ OnboardInv /\ [Next]_vars => OnboardInv'
<1> SUFFICES ASSUME PoolInv, OnboardInv, [Next]_vars PROVE OnboardInv'
  OBVIOUS
<1>1. CASE UNCHANGED vars
  BY <1>1 DEF vars, profile, locals, OnboardInv, Qualified, WillSee
<1>2. CASE Next
  <2>1. PICK r \in Requests : Submit(r) \/ Serve(r) \/ Throw(r)
    BY <1>2 DEF Next
  <2>2. SUFFICES ASSUME Qualified', "onboarding" \notin failed', ~onboarded'
                 PROVE  \E q \in Requests : WillSee(q)'
    BY DEF OnboardInv
  <2>3. CASE certs' # certs
    BY <2>1, <2>3, EarningSees
  <2>4. CASE certs' = certs
    <3>1. Qualified /\ "onboarding" \notin failed /\ ~onboarded
      BY <2>1, <2>2, <2>4, OthersStillSee DEF Qualified
    <3>2. PICK q \in Requests : WillSee(q)
      BY <3>1 DEF OnboardInv
    <3>3. WillSee(q)' \/ (q = r /\ WillSee(r))
      BY <2>1, <3>2, OthersStillSee
    <3>4. QED
      BY <2>1, <2>2, <3>1, <3>3, SeeingGoesOn
  <2>5. QED
    BY <2>3, <2>4
<1>3. QED
  BY <1>1, <1>2

\* Whatever requests earn the last certifications at once, one of them onboards the
\* volunteer, unless one threw on the way.
THEOREM TheQualifiedAreOnboarded == Spec => []QualifiedIsOnboarded
<1>1. Init => OnboardInv
  BY AccountConstants DEF Init, OnboardInv, Qualified
<1>2. PoolInv /\ OnboardInv /\ [Next]_vars => OnboardInv'
  BY StepOnboard
<1>3. OnboardInv => QualifiedIsOnboarded
  BY DEF OnboardInv, QualifiedIsOnboarded, WillSee, WillOnboard
<1>4. QED
  BY <1>1, <1>2, <1>3, PoolInvariant, PTL DEF Spec
=============================================================================
