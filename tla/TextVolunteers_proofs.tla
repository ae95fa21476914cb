----------------------- MODULE TextVolunteers_proofs -----------------------
(***************************************************************************)
(* Proofs about TextVolunteers, for every number of sessions, volunteers,  *)
(* workers and rounds, and any number of crashes and calls that throw.     *)
(*                                                                         *)
(* That nobody is texted twice rests on what a round relies on between its *)
(* reads and its texts (OnePromise, SendIsFree), and for one session on    *)
(* its single token, the round that waits or runs: who was texted before   *)
(* it has a row no older than the rounds so far took (Logged), which       *)
(* JobConfig keeps within the window.                                      *)
(***************************************************************************)
EXTENDS TextVolunteers, TLAPS, FiniteSetTheorems

\* A worker is busy with a job.
HasJob == \A w \in Workers : pc[w] # "idle" => job[w] \in Jobs

Typed == TypeOK /\ HasJob

Promised(w) == texting[w] \cup loose[w]

\* One text at a time to whoever is not excused.
OnePromise ==
    /\ \A w1, w2 \in Workers : \A p1 \in Promised(w1), p2 \in Promised(w2) :
          p1.to = p2.to /\ p1.to \notin excused => w1 = w2 /\ p1 = p2
    /\ \A w \in Workers : \A p \in texting[w] \cap loose[w] : p.to \in excused
    /\ \A w \in Workers : \A p \in Promised(w), s \in Sessions :
          p.to = asked[s] => p.to \in excused

\* Whom a text is about to reach was not texted recently.
SendIsFree ==
    \A w \in Workers : \A p \in Promised(w) :
        p.step = "send" /\ p.to \notin excused => age[p.to] = Window

Moment == OnePromise /\ SendIsFree /\ OnceAMoment

\* The worker has the round of the session, and has not queued the next one.
Runs(w, s) == pc[w] \in {"sessions", "notified", "texting"} /\ job[w].session = s

\* One round at a time of a session that is not late.
OneToken ==
    /\ \A j, k \in queue : j.session = k.session /\ j.session \notin late => j = k
    /\ \A j \in queue, w \in Workers : Runs(w, j.session) => j.session \in late
    /\ \A w1, w2 \in Workers, s \in Sessions :
          Runs(w1, s) /\ Runs(w2, s) /\ s \notin late => w1 = w2

\* There are no rounds, and no texts, before they begin.
Begun ==
    /\ \A j \in queue : start[j.session] = "out"
    /\ \A w \in Workers : pc[w] # "idle" => start[job[w].session] = "out"
    /\ \A s \in Sessions : row[s] = "none" => start[s] = "none"
    /\ \A s \in Sessions : start[s] # "out" \/ s \in late => texts[s] = {}

\* Texts are those of the round at work, or of a failed one.
OwnTexts ==
    /\ \A w \in Workers : \A p \in texting[w] : pc[w] = "texting" /\ p.session = job[w].session
    /\ \A w \in Workers : \A p \in loose[w] : p.session \in late

\* Who was texted has a row as old as the rounds that are over, or is about to have one.
Logged ==
    \A s \in Sessions \ late : \A v \in texts[s] :
        /\ \A j \in queue : j.session = s => age[v] + j.due <= (j.round - 1) * Delay
        /\ \A w \in Workers : Runs(w, s) =>
              \/ age[v] <= (job[w].round - 1) * Delay
              \/ [session |-> s, to |-> v, step |-> "log"] \in texting[w]

\* No text is under way to who was texted before.
NewSends ==
    \A w \in Workers : \A p \in texting[w] :
        p.step = "send" /\ p.session \notin late => p.to \notin texts[p.session]

Once == OneToken /\ Begun /\ OwnTexts /\ Logged /\ NewSends /\ OncePerSession

\* The search of a session that is open goes on.
Searching ==
    \A s \in Sessions :
        start[s] = "out" /\ row[s] = "open" /\ s \notin stopped =>
            (\E j \in queue : j.session = s) \/ (\E w \in Workers : Runs(w, s))

-----------------------------------------------------------------------------
\* Typing.

LEMMA SelectionsAreFree ==
    ASSUME NEW s, NEW free, NEW T \in Selections(s, free)
    PROVE  T \subseteq free
<1>1. PICK F \in Samples(Favorites[s] \cap free, Texts) :
        T \in UNION {{F \cup P \cup R :
              R \in Samples((Eligible[s] \cap free) \ (F \cup P), Texts - Cardinality(F \cup P))} :
              P \in Samples((Partners[s] \cap free) \ F, Texts - Cardinality(F))}
  BY DEF Selections
<1>2. PICK P \in Samples((Partners[s] \cap free) \ F, Texts - Cardinality(F)) :
        T \in {F \cup P \cup R :
           R \in Samples((Eligible[s] \cap free) \ (F \cup P), Texts - Cardinality(F \cup P))}
  BY <1>1
<1>3. PICK R \in Samples((Eligible[s] \cap free) \ (F \cup P), Texts - Cardinality(F \cup P)) :
        T = F \cup P \cup R
  BY <1>2
<1>4. F \subseteq free /\ P \subseteq free /\ R \subseteq free
  BY DEF Samples
<1>5. QED
  BY <1>3, <1>4

LEMMA FirstRoundTyped ==
    ASSUME NEW s \in Sessions
    PROVE  FirstRound(s) \in Jobs
BY TextConstants DEF FirstRound, Jobs

LEMMA NextRoundTyped ==
    ASSUME NEW j \in Jobs, j.round < MaxRounds
    PROVE  [j EXCEPT !.round = @ + 1, !.due = Delay, !.again = FALSE] \in Jobs
<1>1. j.round \in 1..MaxRounds /\ j.round + 1 \in 1..MaxRounds /\ Delay \in 0..Delay
  BY TextConstants DEF Jobs
<1>2. QED
  BY <1>1 DEF Jobs

LEMMA SoonerTyped ==
    ASSUME NEW j \in Jobs
    PROVE  [j EXCEPT !.due = IF @ = 0 THEN 0 ELSE @ - 1] \in Jobs
BY TextConstants DEF Jobs

LEMMA LeaveTyped ==
    ASSUME Typed, NEW w \in Workers, Leave(w)
    PROVE  /\ pc' \in [Workers -> Labels] /\ job' \in [Workers -> Jobs \cup {NoJob}]
           /\ inSession' \in [Workers -> SUBSET Volunteers]
           /\ texting' \in [Workers -> SUBSET Promises]
           /\ HasJob'
<1>1. "idle" \in Labels
  BY DEF Labels
<1>2. QED
  BY <1>1 DEF Typed, TypeOK, HasJob, Leave, Goto

LEMMA LateTyped ==
    ASSUME TypeOK, NEW S \in SUBSET Sessions, Late(S)
    PROVE  late' \subseteq Sessions /\ texts' \in [Sessions -> SUBSET Volunteers]
BY DEF TypeOK, Late

LEMMA StopTyped ==
    ASSUME TypeOK, NEW s \in Sessions, Stop(s) \/ UNCHANGED stopped
    PROVE  stopped' \subseteq Sessions
BY DEF TypeOK, Stop

LEMMA FaultTyped ==
    ASSUME TypeOK, Fault
    PROVE  faults' \in 0..MaxFaults
BY TextConstants DEF TypeOK, Fault

LEMMA ClientTyped ==
    ASSUME Typed, NEW s \in Sessions,
           \/ StartSession(s) \/ LogExclusive(s) \/ Breakout(s) \/ EndSession(s)
           \/ \E v \in Askable[s] : StartExclusive(s, v)
           \/ \E v \in Volunteers : JoinSession(s, v)
    PROVE  Typed'
<1> USE DEF Typed
<1>0. HasJob' /\ Askable[s] \subseteq Volunteers
  BY TextConstants DEF HasJob, StartSession, LogExclusive, Breakout, EndSession, StartExclusive,
     JoinSession, worker
<1>1. CASE StartSession(s)
  BY <1>0, <1>1, FirstRoundTyped DEF StartSession, TypeOK, worker, history
<1>2. CASE LogExclusive(s)
  <2>1. asked[s] \in Volunteers /\ 0 \in 0..Window
    BY <1>2, TextConstants DEF LogExclusive, TypeOK
  <2>2. age' \in [Volunteers -> 0..Window]
    BY <1>2, <2>1 DEF LogExclusive, TypeOK
  <2>3. faults' \in 0..MaxFaults
    BY <1>2, TextConstants DEF LogExclusive, TypeOK
  <2>4. excused' \subseteq Volunteers
    BY <1>2, <2>1 DEF LogExclusive, TypeOK
  <2>5. QED
    BY <1>0, <1>2, <2>2, <2>3, <2>4 DEF LogExclusive, TypeOK, worker
<1>3. CASE Breakout(s)
  BY <1>0, <1>3, FirstRoundTyped DEF Breakout, TypeOK, worker, history
<1>4. CASE EndSession(s)
  BY <1>0, <1>4 DEF EndSession, TypeOK, worker
<1>5. ASSUME NEW v \in Askable[s], StartExclusive(s, v) PROVE Typed'
  BY <1>0, <1>5 DEF StartExclusive, TypeOK, worker
<1>6. ASSUME NEW v \in Volunteers, JoinSession(s, v) PROVE Typed'
  BY <1>0, <1>6 DEF JoinSession, TypeOK, worker
<1>7. QED
  BY <1>1, <1>2, <1>3, <1>4, <1>5, <1>6

LEMMA RoundTyped ==
    ASSUME Typed, NEW w \in Workers,
           \/ \E j \in queue : Take(w, j)
           \/ ReadSessions(w) \/ SelectVolunteers(w) \/ QueueNext(w) \/ Complete(w)
    PROVE  Typed'
<1> USE DEF Typed
<1>a. {"sessions", "notified", "texting", "done"} \subseteq Labels
  BY DEF Labels
<1>1. ASSUME NEW j \in queue, Take(w, j) PROVE Typed'
  <2>1. j \in Jobs /\ queue' \subseteq Jobs
    BY <1>1 DEF Take, TypeOK
  <2>2. pc' \in [Workers -> Labels] /\ job' \in [Workers -> Jobs \cup {NoJob}]
    BY <1>1, <1>a, <2>1 DEF Take, Goto, TypeOK
  <2>3. HasJob'
    BY <1>1, <2>1 DEF Take, Goto, TypeOK, HasJob
  <2>4. QED
    BY <1>1, <2>1, <2>2, <2>3 DEF Take, TypeOK, sessionVars, history
<1>2. CASE ReadSessions(w)
  BY <1>2, <1>a DEF ReadSessions, Goto, TypeOK, HasJob, sessionVars, history
<1>3. CASE SelectVolunteers(w)
  <2>1. PICK chosen \in Selections(job[w].session, Free(w)) :
          \/ /\ chosen # {}
             /\ Goto(w, "texting")
             /\ texting' = [texting EXCEPT ![w] =
                               [session : {job[w].session}, to : chosen, step : {"send"}]]
             /\ inSession' = [inSession EXCEPT ![w] = {}]
             /\ excused' = excused \cup {v \in chosen : Underway(v)}
             /\ UNCHANGED <<job, stopped>>
          \/ /\ chosen = {}
             /\ Leave(w)
             /\ IF Eligible[job[w].session] \cap Free(w) = {} THEN Stop(job[w].session) ELSE UNCHANGED stopped
             /\ UNCHANGED excused
    BY <1>3 DEF SelectVolunteers
  <2>2. chosen \subseteq Volunteers
    BY SelectionsAreFree DEF Free
  <2>3. job[w] \in Jobs /\ job[w].session \in Sessions
    BY <1>3 DEF SelectVolunteers, HasJob, Jobs
  <2>4. CASE chosen # {}
    <3>1. [session : {job[w].session}, to : chosen, step : {"send"}] \subseteq Promises
      BY <2>2, <2>3 DEF Promises
    <3>2. texting' \in [Workers -> SUBSET Promises]
      BY <2>1, <2>4, <3>1 DEF TypeOK
    <3>3. pc' \in [Workers -> Labels] /\ HasJob'
      BY <1>3, <2>1, <2>4, <1>a DEF TypeOK, Goto, HasJob, SelectVolunteers
    <3>4. QED
      BY <1>3, <2>1, <2>2, <2>4, <3>2, <3>3 DEF SelectVolunteers, TypeOK, sessionVars
  <2>5. CASE chosen = {}
    <3>1. stopped' \subseteq Sessions
      BY <2>1, <2>3, <2>5, StopTyped
    <3>2. QED
      BY <1>3, <2>1, <2>5, <3>1, LeaveTyped DEF SelectVolunteers, TypeOK, sessionVars
  <2>6. QED
    BY <2>4, <2>5
<1>4. CASE QueueNext(w)
  <2>1. job[w] \in Jobs
    BY <1>4 DEF QueueNext, HasJob
  <2>2. queue' \subseteq Jobs
    BY <1>4, <2>1, NextRoundTyped DEF QueueNext, TypeOK
  <2>3. pc' \in [Workers -> Labels] /\ HasJob'
    BY <1>4, <1>a DEF QueueNext, Goto, TypeOK, HasJob
  <2>4. QED
    BY <1>4, <2>2, <2>3 DEF QueueNext, TypeOK, sessionVars, history
<1>5. CASE Complete(w)
  <2>1. job[w].session \in Sessions
    BY <1>5 DEF Complete, HasJob, Jobs
  <2>2. stopped' \subseteq Sessions
    BY <1>5, <2>1, StopTyped DEF Complete
  <2>3. QED
    BY <1>5, <2>2, LeaveTyped DEF Complete, TypeOK, sessionVars
<1>6. QED
  BY <1>1, <1>2, <1>3, <1>4, <1>5

LEMMA TextTyped ==
    ASSUME Typed, NEW w \in Workers, NEW p \in Promised(w),
           Send(w, p) \/ LogText(w, p) \/ ThrowText(w, p)
    PROVE  Typed'
<1> USE DEF Typed
<1>a. p \in Promises /\ p.to \in Volunteers /\ p.session \in Sessions /\ 0 \in 0..Window
  BY TextConstants DEF Promised, TypeOK, Promises
<1>1. CASE Send(w, p)
  <2>1. [p EXCEPT !.step = "log"] \in Promises
    BY <1>a DEF Promises
  <2>2. texting' \in [Workers -> SUBSET Promises] /\ loose' \in [Workers -> SUBSET Promises]
    BY <1>1, <2>1 DEF Send, TypeOK
  <2>3. texts' \in [Sessions -> SUBSET Volunteers]
    BY <1>1, <1>a DEF Send, TypeOK
  <2>4. twiceFor' \subseteq Sessions /\ twice' \subseteq Volunteers
    BY <1>1, <1>a DEF Send, TypeOK
  <2>5. QED
    BY <1>1, <2>2, <2>3, <2>4 DEF Send, TypeOK, HasJob, sessionVars
<1>2. CASE LogText(w, p)
  <2>1. texting' \in [Workers -> SUBSET Promises] /\ loose' \in [Workers -> SUBSET Promises]
    BY <1>2 DEF LogText, TypeOK
  <2>2. age' \in [Volunteers -> 0..Window]
    BY <1>2, <1>a DEF LogText, TypeOK
  <2>3. QED
    BY <1>2, <2>1, <2>2 DEF LogText, TypeOK, HasJob, sessionVars, history
<1>3. CASE ThrowText(w, p)
  <2>1. late' \subseteq Sessions /\ texts' \in [Sessions -> SUBSET Volunteers]
    BY <1>3, <1>a, LateTyped DEF ThrowText
  <2>2. loose' \in [Workers -> SUBSET Promises]
    BY <1>3 DEF ThrowText, TypeOK
  <2>3. /\ pc' \in [Workers -> Labels] /\ job' \in [Workers -> Jobs \cup {NoJob}]
        /\ inSession' \in [Workers -> SUBSET Volunteers]
        /\ texting' \in [Workers -> SUBSET Promises] /\ HasJob'
    BY <1>3, LeaveTyped DEF ThrowText, TypeOK, HasJob
  <2>4. stopped' \subseteq Sessions /\ faults' \in 0..MaxFaults
    BY <1>3, <1>a, StopTyped, FaultTyped DEF ThrowText
  <2>5. QED
    BY <1>3, <1>a, <2>1, <2>2, <2>3, <2>4 DEF ThrowText, TypeOK, sessionVars
<1>4. QED
  BY <1>1, <1>2, <1>3

LEMMA FaultyTyped ==
    ASSUME Typed, NEW w \in Workers, Throw(w) \/ Crash(w)
    PROVE  Typed'
<1> USE DEF Typed
<1>a. job[w] \in Jobs /\ job[w].session \in Sessions
  BY DEF Throw, Crash, HasJob, Jobs
<1>b. /\ late' \subseteq Sessions /\ texts' \in [Sessions -> SUBSET Volunteers]
      /\ faults' \in 0..MaxFaults /\ HasJob'
      /\ pc' \in [Workers -> Labels] /\ job' \in [Workers -> Jobs \cup {NoJob}]
      /\ inSession' \in [Workers -> SUBSET Volunteers]
      /\ texting' \in [Workers -> SUBSET Promises]
  BY <1>a, LateTyped, FaultTyped, LeaveTyped DEF Throw, Crash
<1>c. stopped' \subseteq Sessions
  BY <1>a, StopTyped DEF Throw, Crash
<1>1. CASE Throw(w)
  BY <1>1, <1>b, <1>c DEF Throw, TypeOK, sessionVars
<1>2. CASE Crash(w)
  <2>1. [job[w] EXCEPT !.again = TRUE, !.chain = faults'] \in Jobs
    BY <1>a, <1>b DEF Jobs
  <2>2. queue' \subseteq Jobs
    BY <1>2, <2>1 DEF Crash, TypeOK
  <2>3. excused' \subseteq Volunteers
    BY <1>2 DEF Crash, TypeOK, Promises
  <2>4. loose' \in [Workers -> SUBSET Promises]
    BY <1>2 DEF Crash, TypeOK
  <2>5. QED
    BY <1>2, <1>b, <1>c, <2>2, <2>3, <2>4 DEF Crash, TypeOK, sessionVars
<1>3. QED
  BY <1>1, <1>2

LEMMA TickTyped ==
    ASSUME Typed, Tick
    PROVE  Typed'
<1> USE DEF Typed
<1>1. age' \in [Volunteers -> 0..Window]
  BY TextConstants DEF Tick, TypeOK
<1>2. queue' \subseteq Jobs
  BY SoonerTyped DEF Tick, TypeOK
<1>3. {j.session : j \in {i \in queue : i.due = 0}}
         \cup {job[w].session : w \in {x \in Workers : pc[x] # "idle"}} \subseteq Sessions
  BY DEF TypeOK, HasJob, Jobs
<1>4. late' \subseteq Sessions /\ texts' \in [Sessions -> SUBSET Volunteers]
  BY <1>3, LateTyped DEF Tick
<1>5. QED
  BY <1>1, <1>2, <1>4 DEF Tick, TypeOK, HasJob, sessionVars, worker

LEMMA InitTyped == Init => Typed
BY TextConstants DEF Init, Typed, TypeOK, HasJob, Labels

LEMMA NextTyped ==
    ASSUME Typed, [Next]_vars
    PROVE  Typed'
<1>1. CASE UNCHANGED vars
  BY <1>1 DEF vars, sessionVars, worker, history, Typed, TypeOK, HasJob
<1>2. CASE Client
  BY <1>2, ClientTyped DEF Client
<1>3. CASE Tick
  BY <1>3, TickTyped
<1>4. ASSUME NEW w \in Workers, Work(w) PROVE Typed'
  BY <1>4, RoundTyped, TextTyped, FaultyTyped DEF Work, Promised
<1>5. QED
  BY <1>1, <1>2, <1>3, <1>4 DEF Next

-----------------------------------------------------------------------------
\* A volunteer is texted once at a moment.

LEMMA FewerPromises ==
    ASSUME OnePromise,
           \A w \in Workers : texting'[w] \cup loose'[w] \subseteq Promised(w),
           \A w \in Workers : texting'[w] \cap loose'[w] \subseteq texting[w] \cap loose[w],
           asked' = asked, excused \subseteq excused'
    PROVE  OnePromise'
BY DEF OnePromise, Promised

LEMMA SameFree ==
    ASSUME SendIsFree, OnceAMoment,
           \A w \in Workers : texting'[w] \cup loose'[w] \subseteq Promised(w),
           excused \subseteq excused', age' = age, twice' = twice
    PROVE  SendIsFree' /\ OnceAMoment'
BY DEF SendIsFree, OnceAMoment, Promised

LEMMA LeavePromises ==
    ASSUME Typed, NEW w \in Workers, Leave(w), loose' = loose
    PROVE  /\ \A x \in Workers : texting'[x] \cup loose'[x] \subseteq Promised(x)
           /\ \A x \in Workers : texting'[x] \cap loose'[x] \subseteq texting[x] \cap loose[x]
BY DEF Typed, TypeOK, Leave, Promised

LEMMA ClientMoment ==
    ASSUME Typed, Moment, NEW s \in Sessions,
           \/ StartSession(s) \/ LogExclusive(s) \/ Breakout(s) \/ EndSession(s)
           \/ \E v \in Askable[s] : StartExclusive(s, v)
           \/ \E v \in Volunteers : JoinSession(s, v)
    PROVE  Moment'
<1> USE DEF Moment
<1>a. texting' = texting /\ loose' = loose
  BY DEF StartSession, LogExclusive, Breakout, EndSession, StartExclusive, JoinSession, worker
<1>1. CASE StartSession(s)
  BY <1>1, <1>a, FewerPromises, SameFree DEF StartSession, Promised, history
<1>2. CASE LogExclusive(s)
  <2>1. twice' = twice /\ excused \subseteq excused'
    BY <1>2 DEF LogExclusive
  <2>2. ASSUME NEW x \in Workers, NEW p \in Promised(x)
        PROVE  p.to \in Volunteers /\ Promised(x)' = Promised(x)
    BY <1>a DEF Typed, TypeOK, Promised, Promises
  <2>3. \A t \in Sessions : asked'[t] = asked[t] \/ asked'[t] = Nobody
    BY <1>2 DEF LogExclusive, Typed, TypeOK
  <2>4. OnePromise'
    BY <2>1, <2>2, <2>3, <1>a, TextConstants DEF OnePromise, Promised
  <2>5. ASSUME NEW x \in Workers, NEW p \in Promised(x), p.step = "send", p.to \notin excused'
        PROVE  age'[p.to] = Window
    <3>1. p.to # asked[s] /\ age[p.to] = Window
      BY <2>1, <2>5 DEF OnePromise, SendIsFree
    <3>2. QED
      BY <1>2, <2>2, <2>5, <3>1 DEF LogExclusive, Typed, TypeOK
  <2>6. QED
    BY <1>a, <2>1, <2>4, <2>5 DEF SendIsFree, OnceAMoment, Promised
<1>3. CASE Breakout(s)
  BY <1>3, <1>a, FewerPromises, SameFree DEF Breakout, Promised, history
<1>4. CASE EndSession(s)
  BY <1>4, <1>a, FewerPromises, SameFree DEF EndSession, Promised
<1>5. ASSUME NEW v \in Askable[s], StartExclusive(s, v) PROVE Moment'
  <2>1. excused \subseteq excused' /\ age' = age /\ twice' = twice
    BY <1>5 DEF StartExclusive
  <2>2. SendIsFree' /\ OnceAMoment'
    BY <1>a, <2>1, SameFree DEF Promised
  <2>3. ASSUME NEW x \in Workers, NEW p \in Promised(x), NEW t \in Sessions, p.to = asked'[t]
        PROVE  p.to \in excused'
    <3>1. CASE t = s
      <4>1. p.to = v
        BY <1>5, <2>3, <3>1 DEF StartExclusive, Typed, TypeOK
      <4>2. Underway(v)
        BY <4>1 DEF Underway, Promised
      <4>3. QED
        BY <1>5, <4>1, <4>2 DEF StartExclusive
    <3>2. CASE t # s
      BY <1>5, <2>1, <2>3, <3>2 DEF StartExclusive, Typed, TypeOK, OnePromise
    <3>3. QED
      BY <3>1, <3>2
  <2>4. OnePromise'
    BY <1>a, <2>1, <2>3 DEF OnePromise, Promised
  <2>5. QED
    BY <2>2, <2>4
<1>6. ASSUME NEW v \in Volunteers, JoinSession(s, v) PROVE Moment'
  BY <1>6, <1>a, FewerPromises, SameFree DEF JoinSession, Promised
<1>7. QED
  BY <1>1, <1>2, <1>3, <1>4, <1>5, <1>6

LEMMA SelectMoment ==
    ASSUME Typed, Moment, NEW w \in Workers, SelectVolunteers(w)
    PROVE  Moment'
<1> USE DEF Moment
<1>1. PICK chosen \in Selections(job[w].session, Free(w)) :
        \/ /\ chosen # {}
           /\ texting' = [texting EXCEPT ![w] =
                             [session : {job[w].session}, to : chosen, step : {"send"}]]
           /\ excused' = excused \cup {v \in chosen : Underway(v)}
        \/ Leave(w) /\ UNCHANGED excused
  BY DEF SelectVolunteers
<1>2. asked' = asked /\ loose' = loose /\ age' = age /\ twice' = twice
  BY DEF SelectVolunteers, sessionVars
<1>3. CASE Leave(w) /\ UNCHANGED excused
  BY <1>2, <1>3, LeavePromises, FewerPromises, SameFree
<1>4. ASSUME texting' = [texting EXCEPT ![w] =
                            [session : {job[w].session}, to : chosen, step : {"send"}]],
             excused' = excused \cup {v \in chosen : Underway(v)}
      PROVE  Moment'
  <2> DEFINE fresh == [session : {job[w].session}, to : chosen, step : {"send"}]
  <2>1. \A v \in chosen : v \in Volunteers /\ age[v] = Window
    <3>1. chosen \subseteq Free(w)
      BY SelectionsAreFree
    <3>2. QED
      BY <3>1, TextConstants DEF Free, Recent, Typed, TypeOK
  <2>2. texting'[w] = fresh /\ \A x \in Workers \ {w} : texting'[x] = texting[x]
    BY <1>4 DEF Typed, TypeOK
  <2>3. \A p \in fresh : p.to \in chosen /\ p.step = "send" /\ p.session = job[w].session
    OBVIOUS
  <2>4. \A p, q \in fresh : p.to = q.to => p = q
    OBVIOUS
  <2>5. ASSUME NEW x \in Workers, NEW p \in Promised(x), p.to \in chosen
        PROVE  p.to \in excused'
    BY <1>4, <2>5 DEF Underway, Promised
  <2>6. \A t \in Sessions : asked[t] \in chosen => asked[t] \in excused'
    BY <1>4 DEF Underway
  <2>7. ASSUME NEW x \in Workers, NEW p \in texting'[x] \cup loose'[x]
        PROVE  (x = w /\ p \in fresh) \/ p \in Promised(x)
    BY <1>2, <2>2 DEF Promised
  <2>8. SendIsFree'
    BY <1>2, <1>4, <2>1, <2>3, <2>7 DEF SendIsFree, Promised
  <2>9. ASSUME NEW x1 \in Workers, NEW x2 \in Workers,
               NEW p1 \in texting'[x1] \cup loose'[x1], NEW p2 \in texting'[x2] \cup loose'[x2],
               p1.to = p2.to, p1.to \notin excused'
        PROVE  x1 = x2 /\ p1 = p2
    <3>1. CASE p1 \in Promised(x1) /\ p2 \in Promised(x2)
      BY <1>4, <2>9, <3>1 DEF OnePromise
    <3>2. CASE x1 = w /\ p1 \in fresh /\ p2 \in Promised(x2)
      BY <2>3, <2>5, <2>9, <3>2
    <3>3. CASE x2 = w /\ p2 \in fresh /\ p1 \in Promised(x1)
      BY <2>3, <2>5, <2>9, <3>3
    <3>4. CASE x1 = w /\ p1 \in fresh /\ x2 = w /\ p2 \in fresh
      BY <2>4, <2>9, <3>4
    <3>5. QED
      BY <2>7, <3>1, <3>2, <3>3, <3>4
  <2>10. ASSUME NEW x \in Workers, NEW p \in texting'[x] \cap loose'[x]
         PROVE  p.to \in excused'
    <3>1. p \in Promised(x) /\ (p \in texting[x] \cap loose[x] \/ p \in fresh)
      BY <1>2, <2>2 DEF Promised
    <3>2. QED
      BY <1>4, <2>3, <2>5, <3>1 DEF OnePromise
  <2>11. ASSUME NEW x \in Workers, NEW p \in texting'[x] \cup loose'[x],
                NEW t \in Sessions, p.to = asked'[t]
         PROVE  p.to \in excused'
    BY <1>2, <1>4, <2>3, <2>6, <2>7, <2>11 DEF OnePromise
  <2>12. OnePromise'
    BY <2>9, <2>10, <2>11 DEF OnePromise, Promised
  <2>13. QED
    BY <1>2, <2>8, <2>12 DEF OnceAMoment
<1>5. QED
  BY <1>1, <1>3, <1>4

LEMMA SendMoment ==
    ASSUME Typed, Moment, NEW w \in Workers, NEW p \in Promised(w), Send(w, p)
    PROVE  Moment'
<1> USE DEF Moment
<1> DEFINE sent == [p EXCEPT !.step = "log"]
<1>1. p \in Promises /\ sent.to = p.to /\ sent.step = "log" /\ p.to \in Volunteers /\ p.step = "send"
  BY DEF Promised, Typed, TypeOK, Promises, Send
<1>2. asked' = asked /\ age' = age /\ excused' = excused
  BY DEF Send, sessionVars
<1>3. \/ /\ p \in texting[w] /\ loose' = loose
         /\ texting' = [texting EXCEPT ![w] = (@ \ {p}) \cup {sent}]
      \/ /\ p \in loose[w] /\ texting' = texting
         /\ loose' = [loose EXCEPT ![w] = (@ \ {p}) \cup {sent}]
  BY DEF Send
<1>4. ASSUME NEW x \in Workers, NEW q \in texting'[x] \cup loose'[x]
      PROVE  \/ x = w /\ q = sent
             \/ q \in Promised(x) /\ (x = w /\ q = p => p \in texting[w] \cap loose[w])
  <2>1. CASE x = w
    BY <1>3, <2>1 DEF Promised, Typed, TypeOK
  <2>2. CASE x # w
    BY <1>3, <2>2 DEF Promised, Typed, TypeOK
  <2>3. QED
    BY <2>1, <2>2
<1>5. SendIsFree'
  BY <1>1, <1>2, <1>4 DEF SendIsFree, Promised
<1>6. OnceAMoment'
  BY <1>1, TextConstants DEF OnceAMoment, Send, SendIsFree, Recent
<1>7. p.to \notin excused => p \notin texting[w] \cap loose[w]
  BY DEF OnePromise
<1>8. ASSUME NEW x1 \in Workers, NEW x2 \in Workers,
             NEW p1 \in texting'[x1] \cup loose'[x1], NEW p2 \in texting'[x2] \cup loose'[x2],
             p1.to = p2.to, p1.to \notin excused
      PROVE  x1 = x2 /\ p1 = p2
  <2>1. CASE p1 \in Promised(x1) /\ p2 \in Promised(x2)
    BY <1>8, <2>1 DEF OnePromise
  <2>2. CASE x1 = w /\ p1 = sent /\ x2 = w /\ p2 = sent
    BY <2>2
  <2>3. ASSUME NEW x \in Workers, NEW q \in Promised(x), q.to = p.to, p.to \notin excused
        PROVE  x = w /\ q = p
    BY <2>3 DEF OnePromise
  <2>4. QED
    BY <1>1, <1>4, <1>7, <1>8, <2>1, <2>2, <2>3
<1>9. ASSUME NEW x \in Workers, NEW q \in texting'[x] \cap loose'[x]
      PROVE  q.to \in excused
  <2>1. CASE q \in texting[x] \cap loose[x]
    BY <2>1 DEF OnePromise
  <2>2. CASE ~(q \in texting[x] \cap loose[x])
    <3>1. x = w /\ q = sent /\ sent \in Promised(w)
      BY <1>3, <1>9, <2>2 DEF Promised, Typed, TypeOK
    <3>2. p # sent
      BY <1>1
    <3>3. QED
      BY <1>1, <3>1, <3>2 DEF OnePromise
  <2>3. QED
    BY <2>1, <2>2
<1>10. ASSUME NEW x \in Workers, NEW q \in texting'[x] \cup loose'[x],
              NEW t \in Sessions, q.to = asked[t]
       PROVE  q.to \in excused
  BY <1>1, <1>4, <1>10 DEF OnePromise
<1>11. OnePromise'
  BY <1>2, <1>8, <1>9, <1>10 DEF OnePromise, Promised
<1>12. QED
  BY <1>5, <1>6, <1>11

LEMMA LogMoment ==
    ASSUME Typed, Moment, NEW w \in Workers, NEW p \in Promised(w), LogText(w, p)
    PROVE  Moment'
<1> USE DEF Moment
<1>1. asked' = asked /\ excused' = excused /\ twice' = twice
  BY DEF LogText, sessionVars, history
<1>2. ASSUME NEW x \in Workers
      PROVE  /\ texting'[x] \cup loose'[x] \subseteq Promised(x)
             /\ texting'[x] \cap loose'[x] \subseteq texting[x] \cap loose[x]
             /\ x = w => p \notin texting'[x] \cup loose'[x]
  BY DEF LogText, Promised, Typed, TypeOK
<1>3. OnePromise'
  BY <1>1, <1>2, FewerPromises
<1>4. ASSUME NEW x \in Workers, NEW q \in texting'[x] \cup loose'[x],
             q.step = "send", q.to \notin excused
      PROVE  age'[q.to] = Window
  <2>1. q \in Promised(x) /\ ~(x = w /\ q = p)
    BY <1>2, <1>4
  <2>2. q.to # p.to
    BY <1>4, <2>1 DEF OnePromise
  <2>3. q.to \in Volunteers
    BY <2>1 DEF Promised, Typed, TypeOK, Promises
  <2>4. QED
    BY <1>4, <2>1, <2>2, <2>3 DEF SendIsFree, LogText, Typed, TypeOK
<1>5. QED
  BY <1>1, <1>3, <1>4 DEF SendIsFree, OnceAMoment, Promised

LEMMA ThrowTextMoment ==
    ASSUME Typed, Moment, NEW w \in Workers, NEW p \in Promised(w), ThrowText(w, p)
    PROVE  Moment'
<1> USE DEF Moment
<1>1. asked' = asked /\ excused \subseteq excused' /\ twice' = twice /\ age' = age
  BY DEF ThrowText, sessionVars
<1>2. ASSUME NEW x \in Workers
      PROVE  /\ texting'[x] \cup loose'[x] \subseteq Promised(x)
             /\ texting'[x] \cap loose'[x] \subseteq texting[x] \cap loose[x]
  BY DEF ThrowText, Leave, Promised, Typed, TypeOK
<1>3. QED
  BY <1>1, <1>2, FewerPromises, SameFree

LEMMA NextMoment ==
    ASSUME Typed, Moment, [Next]_vars
    PROVE  Moment'
<1> USE DEF Moment
<1>1. CASE UNCHANGED vars
  BY <1>1, FewerPromises, SameFree DEF vars, sessionVars, worker, history, Promised
<1>2. CASE Client
  BY <1>2, ClientMoment DEF Client
<1>3. CASE Tick
  <2>1. /\ texting' = texting /\ loose' = loose /\ asked' = asked /\ excused' = excused
        /\ twice' = twice
    BY <1>3 DEF Tick, sessionVars, worker
  <2>2. OnePromise'
    BY <2>1, FewerPromises DEF Promised
  <2>3. ASSUME NEW v \in Volunteers, age[v] = Window
        PROVE  age'[v] = Window
    BY <1>3, <2>3, TextConstants DEF Tick, Typed, TypeOK
  <2>4. \A x \in Workers : \A p \in Promised(x) : p.to \in Volunteers
    BY DEF Promised, Typed, TypeOK, Promises
  <2>5. QED
    BY <2>1, <2>2, <2>3, <2>4 DEF SendIsFree, OnceAMoment, Promised
<1>4. ASSUME NEW w \in Workers, Work(w) PROVE Moment'
  <2>1. ASSUME NEW j \in queue, Take(w, j) PROVE Moment'
    BY <2>1, FewerPromises, SameFree DEF Take, sessionVars, history, Promised
  <2>2. CASE ReadSessions(w)
    BY <2>2, FewerPromises, SameFree DEF ReadSessions, sessionVars, history, Promised
  <2>3. CASE SelectVolunteers(w)
    BY <2>3, SelectMoment
  <2>4. CASE QueueNext(w)
    BY <2>4, FewerPromises, SameFree DEF QueueNext, sessionVars, history, Promised
  <2>5. CASE Complete(w)
    BY <2>5, LeavePromises, FewerPromises, SameFree DEF Complete, sessionVars
  <2>6. CASE Throw(w)
    BY <2>6, LeavePromises, FewerPromises, SameFree DEF Throw, sessionVars
  <2>7. CASE Crash(w)
    <3>1. ASSUME NEW x \in Workers
          PROVE  /\ texting'[x] \cup loose'[x] \subseteq Promised(x)
                 /\ texting'[x] \cap loose'[x] \subseteq texting[x] \cap loose[x]
      BY <2>7 DEF Crash, Leave, Promised, Typed, TypeOK
    <3>2. asked' = asked /\ excused \subseteq excused' /\ twice' = twice /\ age' = age
      BY <2>7 DEF Crash, sessionVars
    <3>3. QED
      BY <3>1, <3>2, FewerPromises, SameFree
  <2>8. ASSUME NEW p \in Promised(w), Send(w, p) \/ LogText(w, p) \/ ThrowText(w, p)
        PROVE  Moment'
    BY <2>8, SendMoment, LogMoment, ThrowTextMoment
  <2>9. QED
    BY <1>4, <2>1, <2>2, <2>3, <2>4, <2>5, <2>6, <2>7, <2>8 DEF Work, Promised
<1>5. QED
  BY <1>1, <1>2, <1>3, <1>4 DEF Next

LEMMA InitMoment == Init => Moment
BY DEF Init, Moment, OnePromise, SendIsFree, OnceAMoment, Promised

-----------------------------------------------------------------------------
\* A session texts a volunteer once.

LEMMA Rounds ==
    ASSUME NEW n \in 1..MaxRounds
    PROVE  /\ (n - 1) * Delay \in Nat /\ (n - 1) * Delay < Window
           /\ n * Delay = (n - 1) * Delay + Delay
<1>1. n \in Nat /\ n - 1 \in Nat /\ MaxRounds - n \in Nat /\ MaxRounds \in Nat /\ Delay \in Nat /\ Window \in Nat
  BY TextConstants
<1>2. (n - 1) * Delay \in Nat /\ (MaxRounds - n) * Delay \in Nat
  BY <1>1
<1>3. n * Delay = (n - 1) * Delay + Delay
  BY <1>1
<1>4. MaxRounds * Delay = (MaxRounds - n) * Delay + n * Delay
  BY <1>1
<1>5. QED
  BY <1>1, <1>2, <1>3, <1>4, JobConfig

LEMMA BeginOnce ==
    ASSUME Typed, Once, NEW s \in Sessions, start[s] # "out",
           start' = [start EXCEPT ![s] = "out"], queue' = queue \cup {FirstRound(s)},
           \A t \in Sessions : row'[t] = "none" => t # s /\ row[t] = "none",
           UNCHANGED <<age, worker, late, texts, twiceFor>>
    PROVE  Once'
<1> USE DEF Once
<1>1. FirstRound(s).session = s
  BY DEF FirstRound
<1>2. /\ \A j \in queue : j.session # s
      /\ \A w \in Workers : ~Runs(w, s)
      /\ texts[s] = {}
  BY DEF Begun, Runs
<1>3. /\ pc' = pc /\ job' = job /\ texting' = texting /\ loose' = loose /\ texts' = texts
      /\ late' = late /\ age' = age /\ twiceFor' = twiceFor
      /\ \A w \in Workers : \A t : Runs(w, t)' <=> Runs(w, t)
  BY DEF worker, Runs
<1>4. OneToken'
  BY <1>1, <1>2, <1>3 DEF OneToken
<1>5. Begun'
  BY <1>1, <1>2, <1>3 DEF Begun, Typed, TypeOK, HasJob, Jobs
<1>6. OwnTexts' /\ NewSends' /\ OncePerSession'
  BY <1>3 DEF OwnTexts, NewSends, OncePerSession
<1>7. Logged'
  BY <1>1, <1>2, <1>3 DEF Logged
<1>8. QED
  BY <1>4, <1>5, <1>6, <1>7

LEMMA SameOnce ==
    ASSUME Typed, Once,
           \A t \in Sessions : start[t] = "out" <=> start'[t] = "out",
           \A t \in Sessions : row'[t] = "none" => start'[t] = "none",
           \A v \in Volunteers : age'[v] \in Nat /\ age'[v] <= age[v],
           queue' = queue, pc' = pc, job' = job, texting' = texting, loose' = loose,
           late' = late, texts' = texts, twiceFor' = twiceFor
    PROVE  Once'
<1> USE DEF Once
<1>1. \A w \in Workers : \A t : Runs(w, t)' <=> Runs(w, t)
  BY DEF Runs
<1>2. OneToken' /\ OwnTexts' /\ NewSends' /\ OncePerSession'
  BY <1>1 DEF OneToken, OwnTexts, NewSends, OncePerSession
<1>3. Begun'
  <2>1. \A j \in queue : j.session \in Sessions
    BY DEF Typed, TypeOK, Jobs
  <2>2. \A w \in Workers : pc[w] # "idle" => job[w].session \in Sessions
    BY DEF Typed, HasJob, Jobs
  <2>3. QED
    BY <2>1, <2>2 DEF Begun
<1>4. ASSUME NEW t \in Sessions \ late, NEW v \in texts[t], NEW j \in queue, j.session = t
      PROVE  age'[v] + j.due <= (j.round - 1) * Delay
  <2>1. age[v] + j.due <= (j.round - 1) * Delay
    BY <1>4 DEF Logged
  <2>2. v \in Volunteers /\ age'[v] <= age[v] /\ age'[v] \in Nat /\ age[v] \in Nat /\ j.due \in Nat /\ j.round \in 1..MaxRounds
    BY <1>4, TextConstants DEF Typed, TypeOK, Jobs
  <2>3. (j.round - 1) * Delay \in Nat
    BY <2>2, Rounds
  <2>4. QED
    BY <2>1, <2>2, <2>3
<1>5. ASSUME NEW t \in Sessions \ late, NEW v \in texts[t], NEW w \in Workers, Runs(w, t)
      PROVE  \/ age'[v] <= (job[w].round - 1) * Delay
             \/ [session |-> t, to |-> v, step |-> "log"] \in texting[w]
  <2>1. \/ age[v] <= (job[w].round - 1) * Delay
        \/ [session |-> t, to |-> v, step |-> "log"] \in texting[w]
    BY <1>5 DEF Logged
  <2>2. v \in Volunteers /\ age'[v] <= age[v] /\ age'[v] \in Nat /\ age[v] \in Nat /\ job[w].round \in 1..MaxRounds
    BY <1>5, TextConstants DEF Typed, TypeOK, HasJob, Jobs, Runs
  <2>3. (job[w].round - 1) * Delay \in Nat
    BY <2>2, Rounds
  <2>4. QED
    BY <2>1, <2>2, <2>3
<1>6. Logged'
  BY <1>1, <1>4, <1>5 DEF Logged
<1>7. QED
  BY <1>2, <1>3, <1>6

LEMMA ClientOnce ==
    ASSUME Typed, Once, NEW s \in Sessions,
           \/ StartSession(s) \/ LogExclusive(s) \/ Breakout(s) \/ EndSession(s)
           \/ \E v \in Askable[s] : StartExclusive(s, v)
           \/ \E v \in Volunteers : JoinSession(s, v)
    PROVE  Once'
<1>a. \A v \in Volunteers : age[v] \in Nat
  BY TextConstants DEF Typed, TypeOK
<1>b. /\ \A t \in Sessions : row[t] = "none" => start[t] = "none"
      /\ row \in [Sessions -> {"none", "open", "ended"} \cup Volunteers]
      /\ start \in [Sessions -> {"none", "asked", "out"}]
  BY DEF Once, Begun, Typed, TypeOK
<1>1. CASE StartSession(s)
  BY <1>1, <1>b, BeginOnce DEF StartSession, history
<1>2. CASE LogExclusive(s)
  <2>1. \A v \in Volunteers : age'[v] \in Nat /\ age'[v] <= age[v]
    BY <1>2, <1>a DEF LogExclusive, Typed, TypeOK
  <2>2. QED
    BY <1>2, <1>b, <2>1, SameOnce DEF LogExclusive, worker
<1>3. CASE Breakout(s)
  BY <1>3, <1>b, BeginOnce DEF Breakout, history
<1>4. CASE EndSession(s)
  BY <1>4, <1>a, <1>b, SameOnce DEF EndSession, worker
<1>5. ASSUME NEW v \in Askable[s], StartExclusive(s, v) PROVE Once'
  BY <1>5, <1>a, <1>b, SameOnce DEF StartExclusive, worker
<1>6. ASSUME NEW v \in Volunteers, JoinSession(s, v) PROVE Once'
  <2>1. \A t \in Sessions : row'[t] = "none" => row[t] = "none"
    BY <1>6, <1>b, TextConstants DEF JoinSession
  <2>2. QED
    BY <1>6, <1>a, <1>b, <2>1, SameOnce DEF JoinSession, worker
<1>7. QED
  BY <1>1, <1>2, <1>3, <1>4, <1>5, <1>6

\* What every step of a round or a text leaves alone.
LEMMA OnceFacts ==
    ASSUME Typed, Once
    PROVE  /\ \A j \in queue : j \in Jobs /\ j.session \in Sessions
           /\ \A w \in Workers : pc[w] # "idle" => job[w] \in Jobs /\ job[w].session \in Sessions
           /\ \A w \in Workers : \A p \in Promised(w) :
                 p \in Promises /\ p.session \in Sessions /\ p.to \in Volunteers
           /\ \A w \in Workers : \A p \in texting[w] : Runs(w, p.session)
           /\ \A w \in Workers : pc[w] # "texting" => texting[w] = {}
BY DEF Typed, TypeOK, HasJob, Jobs, Promised, Promises, Once, OwnTexts, Runs

LEMMA TakeOnce ==
    ASSUME Typed, Once, NEW w \in Workers, NEW j \in queue, Take(w, j)
    PROVE  Once'
<1> USE DEF Once
<1>0. /\ queue' = queue \ {j} /\ j.due = 0 /\ pc[w] = "idle" /\ texting[w] = {}
      /\ texting' = texting /\ loose' = loose /\ texts' = texts /\ late' = late
      /\ age' = age /\ twiceFor' = twiceFor /\ start' = start /\ row' = row
      /\ j \in Jobs /\ j.session \in Sessions
  BY OnceFacts DEF Take, sessionVars, history
<1>1. CASE UNCHANGED <<pc, job>>
  <2>1. pc' = pc /\ job' = job
    BY <1>1
  <2>2. \A x \in Workers : \A t : Runs(x, t)' <=> Runs(x, t)
    BY <2>1 DEF Runs
  <2>3. QED
    BY <1>0, <2>1, <2>2 DEF OneToken, Begun, OwnTexts, Logged, NewSends, OncePerSession
<1>2. CASE Goto(w, "sessions") /\ job' = [job EXCEPT ![w] = j]
  <2>1. /\ pc'[w] = "sessions" /\ job'[w] = j
        /\ \A x \in Workers \ {w} : pc'[x] = pc[x] /\ job'[x] = job[x]
    BY <1>2 DEF Goto, Typed, TypeOK
  <2>2. \A x \in Workers : \A t : Runs(x, t)' <=> (IF x = w THEN t = j.session ELSE Runs(x, t))
    BY <2>1 DEF Runs
  <2>3. OneToken'
    BY <1>0, <2>2 DEF OneToken
  <2>4. Begun' /\ OwnTexts'
    BY <1>0, <2>1 DEF Begun, OwnTexts
  <2>5. NewSends' /\ OncePerSession'
    BY <1>0 DEF NewSends, OncePerSession
  <2>6. ASSUME NEW t \in Sessions \ late, NEW v \in texts[t], t = j.session
        PROVE  age[v] <= (j.round - 1) * Delay
    <3>1. age[v] + j.due <= (j.round - 1) * Delay
      BY <2>6 DEF Logged
    <3>2. age[v] \in Nat
      BY <2>6, TextConstants DEF Typed, TypeOK
    <3>3. QED
      BY <1>0, <3>1, <3>2
  <2>7. Logged'
    BY <1>0, <2>1, <2>2, <2>6 DEF Logged
  <2>8. QED
    BY <2>3, <2>4, <2>5, <2>7
<1>3. QED
  BY <1>1, <1>2 DEF Take

\* A worker that is done with its round, which nothing is left of.
LEMMA LeaveOnce ==
    ASSUME Typed, Once, NEW w \in Workers, Leave(w),
           \A j \in queue' : j \in queue \/ (j.session \in late' /\ start[j.session] = "out"),
           start' = start, row' = row, age' = age, twiceFor' = twiceFor,
           late \subseteq late',
           \A t \in Sessions : texts'[t] = IF t \in late' THEN {} ELSE texts[t],
           \A x \in Workers : \A p \in loose'[x] : p \in loose[x] \/ p.session \in late'
    PROVE  Once'
<1> USE DEF Once
<1>1. /\ pc'[w] = "idle" /\ texting'[w] = {}
      /\ \A x \in Workers \ {w} : pc'[x] = pc[x] /\ job'[x] = job[x] /\ texting'[x] = texting[x]
  BY DEF Leave, Goto, Typed, TypeOK
<1>2. \A x \in Workers : \A t : Runs(x, t)' => x # w /\ Runs(x, t)
  BY <1>1 DEF Runs
<1>3. OneToken'
  BY <1>2 DEF OneToken
<1>4. Begun'
  BY <1>1 DEF Begun
<1>5. OwnTexts'
  BY <1>1 DEF OwnTexts
<1>6. NewSends' /\ OncePerSession'
  BY <1>1, OnceFacts DEF NewSends, OncePerSession, Promised
<1>7. Logged'
  BY <1>1, <1>2 DEF Logged
<1>8. QED
  BY <1>3, <1>4, <1>5, <1>6, <1>7

LEMMA SelectOnce ==
    ASSUME Typed, Once, NEW w \in Workers, SelectVolunteers(w)
    PROVE  Once'
<1> USE DEF Once
<1>0. /\ queue' = queue /\ loose' = loose /\ texts' = texts /\ late' = late /\ pc[w] = "notified"
      /\ age' = age /\ twiceFor' = twiceFor /\ start' = start /\ row' = row
  BY DEF SelectVolunteers, sessionVars
<1>1. PICK chosen \in Selections(job[w].session, Free(w)) :
        \/ /\ Goto(w, "texting") /\ UNCHANGED job
           /\ texting' = [texting EXCEPT ![w] =
                             [session : {job[w].session}, to : chosen, step : {"send"}]]
        \/ Leave(w)
  BY DEF SelectVolunteers
<1>2. CASE Leave(w)
  <2>1. \A t \in Sessions : texts'[t] = IF t \in late' THEN {} ELSE texts[t]
    BY <1>0 DEF Begun
  <2>2. QED
    BY <1>0, <1>2, <2>1, LeaveOnce
<1>3. CASE /\ Goto(w, "texting") /\ UNCHANGED job
           /\ texting' = [texting EXCEPT ![w] =
                             [session : {job[w].session}, to : chosen, step : {"send"}]]
  <2>1. /\ pc'[w] = "texting" /\ job' = job
        /\ texting'[w] = [session : {job[w].session}, to : chosen, step : {"send"}]
        /\ \A x \in Workers \ {w} : pc'[x] = pc[x] /\ texting'[x] = texting[x]
    BY <1>3 DEF Goto, Typed, TypeOK
  <2>2. \A x \in Workers : \A t : Runs(x, t)' <=> Runs(x, t)
    BY <1>0, <2>1 DEF Runs
  <2>3. texting[w] = {} /\ job[w] \in Jobs /\ job[w].session \in Sessions /\ Runs(w, job[w].session)
    BY <1>0, OnceFacts DEF Runs
  <2>4. OneToken' /\ Begun' /\ OncePerSession'
    BY <1>0, <2>1, <2>2 DEF OneToken, Begun, OncePerSession
  <2>5. ASSUME NEW x \in Workers, NEW p \in texting'[x]
        PROVE  pc'[x] = "texting" /\ p.session = job[x].session
    <3>0. \A q \in [session : {job[w].session}, to : chosen, step : {"send"}] :
            q.session = job[w].session
      OBVIOUS
    <3>1. CASE x = w
      BY <2>1, <2>5, <3>0, <3>1
    <3>2. CASE x # w
      BY <2>1, <2>5, <3>2 DEF OwnTexts
    <3>3. QED
      BY <3>1, <3>2
  <2>6. OwnTexts'
    BY <1>0, <2>1, <2>5 DEF OwnTexts
  <2>7. ASSUME NEW v \in chosen, job[w].session \notin late
        PROVE  v \notin texts[job[w].session]
    <3>1. v \in Volunteers /\ age[v] = Window
      BY SelectionsAreFree, TextConstants DEF Free, Recent, Typed, TypeOK
    <3>2. v \in texts[job[w].session] => age[v] <= (job[w].round - 1) * Delay
      BY <2>3, <2>7 DEF Logged
    <3>3. (job[w].round - 1) * Delay < Window /\ (job[w].round - 1) * Delay \in Nat
      BY <2>3, Rounds DEF Jobs
    <3>4. QED
      BY <3>1, <3>2, <3>3, TextConstants
  <2>8. NewSends'
    <3>1. ASSUME NEW x \in Workers, NEW p \in texting'[x], p.step = "send", p.session \notin late
          PROVE  p.to \notin texts[p.session]
      <4>1. CASE x = w
        <5>0. \A q \in [session : {job[w].session}, to : chosen, step : {"send"}] :
                q.session = job[w].session /\ q.to \in chosen
          OBVIOUS
        <5>1. p.session = job[w].session /\ p.to \in chosen
          BY <2>1, <3>1, <4>1, <5>0
        <5>2. QED
          BY <2>7, <3>1, <5>1
      <4>2. CASE x # w
        BY <2>1, <3>1, <4>2 DEF NewSends
      <4>3. QED
        BY <4>1, <4>2
    <3>2. QED
      BY <1>0, <3>1 DEF NewSends
  <2>9. Logged'
    BY <1>0, <2>1, <2>2, <2>3 DEF Logged
  <2>10. QED
    BY <2>4, <2>6, <2>8, <2>9
<1>4. QED
  BY <1>1, <1>2, <1>3

LEMMA QueueNextOnce ==
    ASSUME Typed, Once, NEW w \in Workers, QueueNext(w)
    PROVE  Once'
<1> USE DEF Once
<1> DEFINE next == [job[w] EXCEPT !.round = @ + 1, !.due = Delay, !.again = FALSE]
<1>0. /\ queue' = queue \cup {next} /\ texting' = texting /\ loose' = loose /\ job' = job
      /\ texts' = texts /\ late' = late /\ age' = age /\ twiceFor' = twiceFor
      /\ start' = start /\ row' = row /\ texting[w] = {} /\ pc[w] = "texting"
      /\ job[w] \in Jobs /\ job[w].session \in Sessions /\ Runs(w, job[w].session)
  BY OnceFacts DEF QueueNext, sessionVars, history, Runs
<1>1. next.session = job[w].session /\ next.round = job[w].round + 1 /\ next.due = Delay
  BY <1>0 DEF Jobs
<1>2. pc'[w] = "done" /\ \A x \in Workers \ {w} : pc'[x] = pc[x]
  BY DEF QueueNext, Goto, Typed, TypeOK
<1>3. \A x \in Workers : \A t : Runs(x, t)' => x # w /\ Runs(x, t)
  BY <1>0, <1>2 DEF Runs
<1>4. OneToken'
  BY <1>0, <1>1, <1>3 DEF OneToken
<1> HIDE DEF next
<1>5. Begun' /\ OwnTexts' /\ NewSends' /\ OncePerSession'
  <2>1. Begun'
    BY <1>0, <1>1, <1>2 DEF Begun, Runs
  <2>2. OwnTexts'
    BY <1>0, <1>2 DEF OwnTexts
  <2>3. NewSends' /\ OncePerSession'
    BY <1>0 DEF NewSends, OncePerSession
  <2>4. QED
    BY <2>1, <2>2, <2>3
<1>6. ASSUME NEW t \in Sessions \ late, NEW v \in texts[t], t = job[w].session
      PROVE  age[v] + next.due <= (next.round - 1) * Delay
  <2>1. age[v] <= (job[w].round - 1) * Delay
    BY <1>0, <1>6 DEF Logged
  <2>2. job[w].round \in 1..MaxRounds /\ age[v] \in Nat /\ Delay \in Nat
    BY <1>0, <1>6, TextConstants DEF Jobs, Typed, TypeOK
  <2>3. (job[w].round - 1) * Delay \in Nat /\ job[w].round * Delay = (job[w].round - 1) * Delay + Delay
    BY <2>2, Rounds
  <2>4. (next.round - 1) * Delay = job[w].round * Delay
    BY <1>1, <2>2
  <2>5. QED
    BY <1>1, <2>1, <2>2, <2>3, <2>4
<1>7. Logged'
  BY <1>0, <1>1, <1>3, <1>6 DEF Logged
<1>8. QED
  BY <1>4, <1>5, <1>7

LEMMA SendOnce ==
    ASSUME Typed, Once, NEW w \in Workers, NEW p \in Promised(w), Send(w, p)
    PROVE  Once'
<1> USE DEF Once
<1> DEFINE sent == [p EXCEPT !.step = "log"]
<1>0. /\ queue' = queue /\ pc' = pc /\ job' = job /\ late' = late /\ age' = age
      /\ start' = start /\ row' = row /\ p.step = "send"
      /\ texts' = IF p.session \in late THEN texts
                  ELSE [texts EXCEPT ![p.session] = @ \cup {p.to}]
      /\ twiceFor' = twiceFor \cup IF p.to \in texts[p.session] THEN {p.session} ELSE {}
  BY DEF Send, sessionVars
<1>1. /\ p \in Promises /\ p.session \in Sessions /\ p.to \in Volunteers
      /\ sent = [session |-> p.session, to |-> p.to, step |-> "log"]
  BY OnceFacts DEF Promises
<1>2. \A x \in Workers : \A t : Runs(x, t)' <=> Runs(x, t)
  BY <1>0 DEF Runs
<1>3. OneToken'
  BY <1>0, <1>2 DEF OneToken
<1>4. CASE p \in loose[w] /\ texting' = texting /\ loose' = [loose EXCEPT ![w] = (@ \ {p}) \cup {sent}]
  <2>1. p.session \in late /\ texts' = texts /\ texts[p.session] = {}
    BY <1>0, <1>1, <1>4 DEF OwnTexts, Begun
  <2>2. \A x \in Workers : \A q \in loose'[x] : q.session \in late
    BY <1>1, <1>4, <2>1 DEF OwnTexts, Typed, TypeOK
  <2>3. Begun' /\ OwnTexts' /\ NewSends' /\ OncePerSession' /\ Logged'
    BY <1>0, <1>2, <1>4, <2>1, <2>2 DEF Begun, OwnTexts, NewSends, OncePerSession, Logged
  <2>4. QED
    BY <1>3, <2>3
<1>5. CASE p \in texting[w] /\ loose' = loose /\ texting' = [texting EXCEPT ![w] = (@ \ {p}) \cup {sent}]
  <2>1. /\ texting'[w] = (texting[w] \ {p}) \cup {sent}
        /\ \A x \in Workers \ {w} : texting'[x] = texting[x]
    BY <1>5 DEF Typed, TypeOK
  <2>2. Runs(w, p.session) /\ pc[w] = "texting" /\ p.session = job[w].session
    BY <1>5, OnceFacts DEF OwnTexts
  <2>3. OwnTexts'
    BY <1>0, <1>1, <1>5, <2>1, <2>2 DEF OwnTexts
  <2>4. start[p.session] = "out"
    BY <2>2 DEF Begun
  <2>5. Begun'
    BY <1>0, <1>1, <2>4 DEF Begun, Typed, TypeOK
  <2>6. OncePerSession'
    <3>1. p.session \notin late => p.to \notin texts[p.session]
      BY <1>0, <1>5 DEF NewSends
    <3>2. p.session \in late => texts[p.session] = {}
      BY <1>1 DEF Begun
    <3>3. QED
      BY <1>0, <3>1, <3>2 DEF OncePerSession
  <2>7. ASSUME NEW x \in Workers, NEW q \in texting'[x], q.step = "send", q.session \notin late
        PROVE  q.to \notin texts'[q.session]
    <3>1. q \in texting[x] /\ (x = w => q # p)
      BY <1>1, <2>1, <2>7
    <3>2. q.to \notin texts[q.session]
      BY <2>7, <3>1 DEF NewSends
    <3>3. CASE q.session = p.session
      <4>1. x = w
        BY <1>1, <2>2, <2>7, <3>1, <3>3, OnceFacts DEF OneToken
      <4>2. q \in Promises
        BY <3>1, OnceFacts DEF Promised
      <4>3. q.to # p.to
        BY <1>0, <1>1, <2>7, <3>1, <3>3, <4>1, <4>2 DEF Promises
      <4>4. QED
        BY <1>0, <1>1, <3>2, <3>3, <4>3 DEF Typed, TypeOK
    <3>4. CASE q.session # p.session
      BY <1>0, <3>2, <3>4, <1>1 DEF Typed, TypeOK
    <3>5. QED
      BY <3>3, <3>4
  <2>8. NewSends'
    BY <1>0, <2>7 DEF NewSends
  <2>9. ASSUME NEW t \in Sessions \ late, NEW v \in texts'[t]
        PROVE  v \in texts[t] \/ (t = p.session /\ v = p.to)
    BY <1>0, <1>1, <2>9 DEF Typed, TypeOK
  <2>10. ASSUME NEW t \in Sessions \ late, NEW v \in texts'[t], NEW j \in queue, j.session = t
         PROVE  age[v] + j.due <= (j.round - 1) * Delay
    <3>1. t # p.session
      BY <2>2, <2>10 DEF OneToken
    <3>2. QED
      BY <2>9, <2>10, <3>1 DEF Logged
  <2>11. ASSUME NEW t \in Sessions \ late, NEW v \in texts'[t], NEW x \in Workers, Runs(x, t)
         PROVE  \/ age[v] <= (job[x].round - 1) * Delay
                \/ [session |-> t, to |-> v, step |-> "log"] \in texting'[x]
    <3>1. CASE v \in texts[t]
      <4>1. \/ age[v] <= (job[x].round - 1) * Delay
            \/ [session |-> t, to |-> v, step |-> "log"] \in texting[x]
        BY <2>11, <3>1 DEF Logged
      <4>2. [session |-> t, to |-> v, step |-> "log"] # p
        BY <1>0
      <4>3. QED
        BY <2>1, <4>1, <4>2
    <3>2. CASE t = p.session /\ v = p.to
      <4>1. x = w
        BY <2>2, <2>11, <3>2 DEF OneToken
      <4>2. QED
        BY <1>1, <2>1, <3>2, <4>1
    <3>3. QED
      BY <2>9, <3>1, <3>2
  <2>12. Logged'
    BY <1>0, <1>2, <2>10, <2>11 DEF Logged
  <2>13. QED
    BY <1>3, <2>3, <2>5, <2>6, <2>8, <2>12
<1>6. QED
  BY <1>4, <1>5 DEF Send

LEMMA LogOnce ==
    ASSUME Typed, Once, NEW w \in Workers, NEW p \in Promised(w), LogText(w, p)
    PROVE  Once'
<1> USE DEF Once
<1>0. /\ queue' = queue /\ pc' = pc /\ job' = job /\ late' = late /\ texts' = texts
      /\ start' = start /\ row' = row /\ twiceFor' = twiceFor
      /\ age' = [age EXCEPT ![p.to] = 0]
  BY DEF LogText, sessionVars, history
<1>1. p.to \in Volunteers /\ p \in Promises
  BY OnceFacts
<1>2. \A x \in Workers : \A t : Runs(x, t)' <=> Runs(x, t)
  BY <1>0 DEF Runs
<1>3. ASSUME NEW x \in Workers
      PROVE  texting'[x] \subseteq texting[x] /\ loose'[x] \subseteq loose[x]
             /\ (\A q \in texting[x] : q \in texting'[x] \/ q = p)
  BY DEF LogText, Typed, TypeOK
<1>4. OneToken' /\ Begun' /\ OwnTexts' /\ NewSends' /\ OncePerSession'
  BY <1>0, <1>2, <1>3 DEF OneToken, Begun, OwnTexts, NewSends, OncePerSession
<1>5. ASSUME NEW v \in Volunteers
      PROVE  age'[v] \in Nat /\ age[v] \in Nat /\ age'[v] <= age[v] /\ (v = p.to => age'[v] = 0)
  BY <1>0, <1>1, TextConstants DEF Typed, TypeOK
<1>6. ASSUME NEW t \in Sessions \ late, NEW v \in texts[t], NEW j \in queue, j.session = t
      PROVE  age'[v] + j.due <= (j.round - 1) * Delay
  <2>1. age[v] + j.due <= (j.round - 1) * Delay
    BY <1>6 DEF Logged
  <2>2. v \in Volunteers /\ j.due \in Nat /\ j.round \in 1..MaxRounds
    BY <1>6, TextConstants DEF Typed, TypeOK, Jobs
  <2>3. (j.round - 1) * Delay \in Nat
    BY <2>2, Rounds
  <2>4. QED
    BY <1>5, <2>1, <2>2, <2>3
<1>7. ASSUME NEW t \in Sessions \ late, NEW v \in texts[t], NEW x \in Workers, Runs(x, t)
      PROVE  \/ age'[v] <= (job[x].round - 1) * Delay
             \/ [session |-> t, to |-> v, step |-> "log"] \in texting'[x]
  <2>1. \/ age[v] <= (job[x].round - 1) * Delay
        \/ [session |-> t, to |-> v, step |-> "log"] \in texting[x]
    BY <1>7 DEF Logged
  <2>2. v \in Volunteers /\ job[x].round \in 1..MaxRounds
    BY <1>7 DEF Typed, TypeOK, HasJob, Jobs, Runs
  <2>3. (job[x].round - 1) * Delay \in Nat
    BY <2>2, Rounds
  <2>4. CASE [session |-> t, to |-> v, step |-> "log"] = p
    <3>1. age'[v] = 0
      BY <1>5, <2>2, <2>4
    <3>2. QED
      BY <2>3, <3>1
  <2>5. CASE [session |-> t, to |-> v, step |-> "log"] # p
    BY <1>3, <1>5, <2>1, <2>2, <2>3, <2>5
  <2>6. QED
    BY <2>4, <2>5
<1>8. Logged'
  BY <1>0, <1>2, <1>6, <1>7 DEF Logged
<1>9. QED
  BY <1>4, <1>8

LEMMA LateTexts ==
    ASSUME Typed, Once, NEW S \in SUBSET Sessions, Late(S)
    PROVE  /\ late \subseteq late' /\ S \subseteq late'
           /\ \A t \in Sessions : texts'[t] = IF t \in late' THEN {} ELSE texts[t]
BY DEF Late, Once, Begun

LEMMA ThrowTextOnce ==
    ASSUME Typed, Once, NEW w \in Workers, NEW p \in Promised(w), ThrowText(w, p)
    PROVE  Once'
<1>0. /\ queue' = queue /\ start' = start /\ row' = row /\ age' = age /\ twiceFor' = twiceFor
      /\ p.session \in Sessions
  BY OnceFacts DEF ThrowText, sessionVars
<1>1. /\ late \subseteq late' /\ p.session \in late'
      /\ \A t \in Sessions : texts'[t] = IF t \in late' THEN {} ELSE texts[t]
  BY <1>0, LateTexts DEF ThrowText
<1>2. CASE p \in texting[w] /\ loose' = [loose EXCEPT ![w] = @ \cup (texting[w] \ {p})] /\ Leave(w)
  <2>1. \A q \in texting[w] : q.session = p.session
    BY <1>2 DEF Once, OwnTexts
  <2>2. \A x \in Workers : \A q \in loose'[x] : q \in loose[x] \/ q.session \in late'
    BY <1>1, <1>2, <2>1 DEF Typed, TypeOK
  <2>3. QED
    BY <1>0, <1>1, <1>2, <2>2, LeaveOnce
<1>3. CASE loose' = [loose EXCEPT ![w] = @ \ {p}] /\ UNCHANGED <<pc, job, inSession, texting, stopped>>
  <2>1. pc' = pc /\ job' = job /\ texting' = texting /\ \A x \in Workers : loose'[x] \subseteq loose[x]
    BY <1>3 DEF Typed, TypeOK
  <2>2. \A x \in Workers : \A t : Runs(x, t)' <=> Runs(x, t)
    BY <2>1 DEF Runs
  <2>3. OneToken' /\ OwnTexts'
    BY <1>0, <1>1, <2>1, <2>2 DEF Once, OneToken, OwnTexts
  <2>4. Begun'
    BY <1>0, <1>1, <2>1 DEF Once, Begun
  <2>5. NewSends' /\ OncePerSession'
    BY <1>0, <1>1, <2>1, OnceFacts DEF Once, NewSends, OncePerSession, Promised
  <2>6. Logged'
    BY <1>0, <1>1, <2>1, <2>2 DEF Once, Logged
  <2>7. QED
    BY <2>3, <2>4, <2>5, <2>6 DEF Once
<1>4. QED
  BY <1>2, <1>3 DEF ThrowText

LEMMA FaultyOnce ==
    ASSUME Typed, Once, NEW w \in Workers, Throw(w) \/ Crash(w)
    PROVE  Once'
<1>0. /\ start' = start /\ row' = row /\ age' = age /\ twiceFor' = twiceFor /\ Leave(w)
      /\ job[w] \in Jobs /\ job[w].session \in Sessions /\ start[job[w].session] = "out"
      /\ Late({job[w].session})
  BY OnceFacts DEF Throw, Crash, sessionVars, Once, Begun
<1>1. /\ late \subseteq late' /\ job[w].session \in late'
      /\ \A t \in Sessions : texts'[t] = IF t \in late' THEN {} ELSE texts[t]
  BY <1>0, LateTexts
<1>2. \A j \in queue' : j \in queue \/ (j.session \in late' /\ start[j.session] = "out")
  <2>1. [job[w] EXCEPT !.again = TRUE, !.chain = faults'].session = job[w].session
    BY <1>0 DEF Jobs
  <2>2. \A j \in queue' : j \in queue \/ j = [job[w] EXCEPT !.again = TRUE, !.chain = faults']
    BY DEF Throw, Crash
  <2>3. QED
    BY <1>0, <1>1, <2>1, <2>2
<1>3. \A x \in Workers : \A p \in loose'[x] : p \in loose[x]
  BY DEF Throw, Crash, Typed, TypeOK
<1>4. QED
  BY <1>0, <1>1, <1>2, <1>3, LeaveOnce

LEMMA TickOnce ==
    ASSUME Typed, Once, Tick
    PROVE  Once'
<1> USE DEF Once
<1> DEFINE S == {j.session : j \in {i \in queue : i.due = 0}}
                   \cup {job[w].session : w \in {x \in Workers : pc[x] # "idle"}}
           sooner(j) == [j EXCEPT !.due = IF @ = 0 THEN 0 ELSE @ - 1]
<1>0. /\ start' = start /\ row' = row /\ twiceFor' = twiceFor /\ pc' = pc /\ job' = job
      /\ texting' = texting /\ loose' = loose /\ queue' = {sooner(j) : j \in queue}
  BY DEF Tick, sessionVars, worker
<1>1. S \subseteq Sessions
  BY OnceFacts
<1>2. Late(S)
  BY DEF Tick
<1>3. /\ late \subseteq late' /\ S \subseteq late'
      /\ \A t \in Sessions : texts'[t] = IF t \in late' THEN {} ELSE texts[t]
  BY <1>1, <1>2, LateTexts
<1>4. \A j \in queue : /\ sooner(j).session = j.session /\ sooner(j).round = j.round
                       /\ j.session \notin late' => j.due # 0 /\ sooner(j).due = j.due - 1
  BY <1>3, OnceFacts DEF Jobs
<1> HIDE DEF sooner
<1>5. \A x \in Workers : \A t : Runs(x, t)' => t \in late'
  BY <1>0, <1>3 DEF Runs
<1>6. OneToken'
  BY <1>0, <1>3, <1>4, <1>5 DEF OneToken
<1>7. Begun'
  BY <1>0, <1>3, <1>4 DEF Begun
<1>8. OwnTexts' /\ OncePerSession'
  BY <1>0, <1>3 DEF OwnTexts, OncePerSession
<1>9. NewSends'
  BY <1>0, <1>3, OnceFacts DEF NewSends, Promised
<1>10. ASSUME NEW t \in Sessions \ late', NEW v \in texts[t], NEW j \in queue, j.session = t
       PROVE  age'[v] + sooner(j).due <= (j.round - 1) * Delay
  <2>1. age[v] + j.due <= (j.round - 1) * Delay
    BY <1>3, <1>10 DEF Logged
  <2>2. v \in Volunteers /\ j.due \in Nat /\ j.due # 0 /\ sooner(j).due = j.due - 1 /\ j.round \in 1..MaxRounds
    BY <1>4, <1>10, TextConstants DEF Typed, TypeOK, Jobs
  <2>3. age[v] \in Nat /\ age'[v] \in Nat /\ age'[v] <= age[v] + 1
    BY <2>2, TextConstants DEF Tick, Typed, TypeOK
  <2>4. (j.round - 1) * Delay \in Nat
    BY <2>2, Rounds
  <2>5. QED
    BY <2>1, <2>2, <2>3, <2>4
<1>11. Logged'
  BY <1>0, <1>3, <1>4, <1>5, <1>10 DEF Logged
<1>12. QED
  BY <1>6, <1>7, <1>8, <1>9, <1>11

LEMMA NextOnce ==
    ASSUME Typed, Once, [Next]_vars
    PROVE  Once'
<1>1. CASE UNCHANGED vars
  BY <1>1 DEF vars, sessionVars, worker, history, Once, OneToken, Begun, OwnTexts, Logged, NewSends,
     OncePerSession, Runs
<1>2. CASE Client
  BY <1>2, ClientOnce DEF Client
<1>3. CASE Tick
  BY <1>3, TickOnce
<1>4. ASSUME NEW w \in Workers, Work(w) PROVE Once'
  <2>1. CASE ReadSessions(w)
    <3>1. /\ queue' = queue /\ job' = job /\ texting' = texting /\ loose' = loose /\ late' = late
          /\ texts' = texts /\ twiceFor' = twiceFor /\ age' = age /\ start' = start /\ row' = row
          /\ pc' = [pc EXCEPT ![w] = "notified"] /\ pc[w] = "sessions"
      BY <2>1 DEF ReadSessions, Goto, sessionVars, history
    <3>2. \A x \in Workers : \A t : Runs(x, t)' <=> Runs(x, t)
      BY <3>1 DEF Runs, Typed, TypeOK
    <3>3. /\ \A x \in Workers : pc'[x] # "idle" => pc[x] # "idle"
          /\ \A x \in Workers : \A p \in texting[x] : pc'[x] = "texting"
      BY <3>1 DEF Typed, TypeOK, Once, OwnTexts
    <3>4. QED
      BY <3>1, <3>2, <3>3 DEF Once, OneToken, Begun, OwnTexts, Logged, NewSends, OncePerSession
  <2>2. CASE Complete(w)
    <3>1. /\ start' = start /\ row' = row /\ age' = age /\ twiceFor' = twiceFor /\ Leave(w)
          /\ queue' = queue /\ late' = late /\ texts' = texts /\ loose' = loose
      BY <2>2 DEF Complete, sessionVars
    <3>2. \A t \in Sessions : texts'[t] = IF t \in late' THEN {} ELSE texts[t]
      BY <3>1 DEF Once, Begun
    <3>3. QED
      BY <3>1, <3>2, LeaveOnce
  <2>3. QED
    BY <1>4, <2>1, <2>2, TakeOnce, SelectOnce, QueueNextOnce, FaultyOnce, SendOnce, LogOnce,
       ThrowTextOnce DEF Work, Promised
<1>5. QED
  BY <1>1, <1>2, <1>3, <1>4 DEF Next

LEMMA InitOnce == Init => Once
BY DEF Init, Once, OneToken, Begun, OwnTexts, Logged, NewSends, OncePerSession, Runs

-----------------------------------------------------------------------------
\* The search goes on.

LEMMA SelectionsFind ==
    ASSUME NEW s \in Sessions, NEW free, Eligible[s] \cap free # {},
           NEW T \in Selections(s, free)
    PROVE  T # {}
<1>1. PICK F \in Samples(Favorites[s] \cap free, Texts) :
        T \in UNION {{F \cup P \cup R :
              R \in Samples((Eligible[s] \cap free) \ (F \cup P), Texts - Cardinality(F \cup P))} :
              P \in Samples((Partners[s] \cap free) \ F, Texts - Cardinality(F))}
  BY DEF Selections
<1>2. PICK P \in Samples((Partners[s] \cap free) \ F, Texts - Cardinality(F)) :
        T \in {F \cup P \cup R :
           R \in Samples((Eligible[s] \cap free) \ (F \cup P), Texts - Cardinality(F \cup P))}
  BY <1>1
<1>3. PICK R \in Samples((Eligible[s] \cap free) \ (F \cup P), Texts - Cardinality(F \cup P)) :
        T = F \cup P \cup R
  BY <1>2
<1>4. SUFFICES ASSUME F = {}, P = {}, R = {} PROVE FALSE
  BY <1>3
<1> DEFINE E == Eligible[s] \cap free
<1>5. IsFiniteSet(E) /\ Cardinality(E) \in Nat /\ Cardinality(E) # 0
  <2>1. E \in SUBSET Volunteers /\ IsFiniteSet(Volunteers)
    BY TextConstants
  <2>2. IsFiniteSet(E)
    BY <2>1, FS_Subset
  <2>3. QED
    BY <2>2, FS_EmptySet, FS_CardinalityType
<1>6. (F \cup P) = {} /\ E \ (F \cup P) = E /\ Cardinality(F \cup P) = 0 /\ Cardinality(R) = 0
  BY <1>4, FS_EmptySet
<1>7. R \in Samples(E, Texts - 0)
  BY <1>6
<1>8. Cardinality(R) = IF Cardinality(E) < Texts - 0 THEN Cardinality(E) ELSE Texts - 0
  BY <1>7 DEF Samples
<1>9. QED
  BY <1>5, <1>6, <1>8, TextConstants

\* Nothing but the last round of a session, or one that fails, leaves it alone.
LEMMA KeptSearch ==
    ASSUME Searching, UNCHANGED sessionVars,
           stopped \subseteq stopped',
           \A s \in Sessions \ stopped' : row[s] = "open" /\ start[s] = "out" =>
              /\ \A j \in queue : j.session = s =>
                    \/ \E k \in queue' : k.session = s
                    \/ \E w \in Workers : Runs(w, s)'
              /\ \A w \in Workers : Runs(w, s) =>
                    \/ \E k \in queue' : k.session = s
                    \/ \E x \in Workers : Runs(x, s)'
    PROVE  Searching'
<1>1. row' = row /\ start' = start
  BY DEF sessionVars
<1>2. QED
  BY <1>1 DEF Searching

LEMMA ClientSearch ==
    ASSUME Typed, Searching, NEW s \in Sessions,
           \/ StartSession(s) \/ LogExclusive(s) \/ Breakout(s) \/ EndSession(s)
           \/ \E v \in Askable[s] : StartExclusive(s, v)
           \/ \E v \in Volunteers : JoinSession(s, v)
    PROVE  Searching'
<1>a. /\ pc' = pc /\ job' = job /\ queue \subseteq queue'
      /\ row \in [Sessions -> {"none", "open", "ended"} \cup Volunteers]
      /\ start \in [Sessions -> {"none", "asked", "out"}]
  BY DEF StartSession, LogExclusive, Breakout, EndSession, StartExclusive, JoinSession, worker,
     Typed, TypeOK
<1>b. \A w \in Workers : \A t : Runs(w, t)' <=> Runs(w, t)
  BY <1>a DEF Runs
<1>c. ASSUME NEW t \in Sessions, start'[t] = "out", row'[t] = "open", t \notin stopped'
      PROVE  \/ start[t] = "out" /\ row[t] = "open" /\ t \notin stopped
             \/ t = s /\ FirstRound(s) \in queue'
  <2>1. CASE StartSession(s)
    BY <1>a, <1>c, <2>1 DEF StartSession, history
  <2>2. CASE LogExclusive(s)
    BY <1>a, <1>c, <2>2 DEF LogExclusive
  <2>3. CASE Breakout(s)
    BY <1>a, <1>c, <2>3 DEF Breakout, history
  <2>4. CASE EndSession(s)
    BY <1>a, <1>c, <2>4 DEF EndSession
  <2>5. ASSUME NEW v \in Askable[s], StartExclusive(s, v)
        PROVE  start[t] = "out" /\ row[t] = "open" /\ t \notin stopped
    BY <1>a, <1>c, <2>5 DEF StartExclusive
  <2>6. ASSUME NEW v \in Volunteers, JoinSession(s, v)
        PROVE  start[t] = "out" /\ row[t] = "open" /\ t \notin stopped
    BY <1>a, <1>c, <2>6, TextConstants DEF JoinSession
  <2>7. QED
    BY <2>1, <2>2, <2>3, <2>4, <2>5, <2>6
<1>d. FirstRound(s).session = s
  BY DEF FirstRound
<1>e. QED
  BY <1>a, <1>b, <1>c, <1>d DEF Searching

LEMMA LeaveRuns ==
    ASSUME Typed, NEW w \in Workers, Leave(w)
    PROVE  \A x \in Workers : \A t : Runs(x, t) => x = w \/ Runs(x, t)'
BY DEF Typed, TypeOK, Leave, Goto, Runs

\* The worker stops with its round, and the session with it.
LEMMA StopSearch ==
    ASSUME Typed, Searching, NEW w \in Workers, Leave(w), UNCHANGED sessionVars,
           queue \subseteq queue', stopped \subseteq stopped',
           ~Runs(w, job[w].session) \/ Stop(job[w].session)
              \/ (\E k \in queue' : k.session = job[w].session)
    PROVE  Searching'
<1>1. ASSUME NEW s \in Sessions \ stopped', row[s] = "open", Runs(w, s)
      PROVE  \E k \in queue' : k.session = s
  BY <1>1 DEF Runs, Stop
<1>2. QED
  BY <1>1, LeaveRuns, KeptSearch

LEMMA RoundSearch ==
    ASSUME Typed, Searching, NEW w \in Workers,
           \/ \E j \in queue : Take(w, j)
           \/ ReadSessions(w) \/ SelectVolunteers(w) \/ QueueNext(w) \/ Complete(w)
           \/ Throw(w) \/ Crash(w)
    PROVE  Searching'
<1>a. pc[w] # "idle" => job[w] \in Jobs /\ job[w].session \in Sessions
  BY DEF Typed, HasJob, Jobs
<1>1. ASSUME NEW j \in queue, Take(w, j) PROVE Searching'
  <2>1. \A x \in Workers : \A t : Runs(x, t) => Runs(x, t)'
    BY <1>1 DEF Take, Runs, Goto, Typed, TypeOK
  <2>2. row[j.session] = "open" => Runs(w, j.session)'
    BY <1>1 DEF Take, Runs, Goto, Typed, TypeOK
  <2>3. UNCHANGED sessionVars /\ stopped' = stopped /\ queue' = queue \ {j}
    BY <1>1 DEF Take, history
  <2>4. QED
    BY <2>1, <2>2, <2>3, KeptSearch
<1>2. CASE ReadSessions(w)
  <2>1. \A x \in Workers : \A t : Runs(x, t) => Runs(x, t)'
    BY <1>2 DEF ReadSessions, Runs, Goto, Typed, TypeOK
  <2>2. UNCHANGED sessionVars /\ stopped' = stopped /\ queue' = queue
    BY <1>2 DEF ReadSessions, history
  <2>3. QED
    BY <2>1, <2>2, KeptSearch
<1>3. CASE SelectVolunteers(w)
  <2>1. PICK chosen \in Selections(job[w].session, Free(w)) :
          \/ chosen # {} /\ Goto(w, "texting") /\ UNCHANGED <<job, stopped>>
          \/ /\ chosen = {} /\ Leave(w)
             /\ IF Eligible[job[w].session] \cap Free(w) = {} THEN Stop(job[w].session)
                ELSE UNCHANGED stopped
    BY <1>3 DEF SelectVolunteers
  <2>2. pc[w] = "notified" /\ queue' = queue /\ UNCHANGED sessionVars
    BY <1>3 DEF SelectVolunteers
  <2>3. CASE Goto(w, "texting") /\ UNCHANGED <<job, stopped>>
    <3>1. \A x \in Workers : \A t : Runs(x, t) => Runs(x, t)'
      BY <2>2, <2>3 DEF Runs, Goto, Typed, TypeOK
    <3>2. QED
      BY <2>2, <2>3, <3>1, KeptSearch
  <2>4. CASE /\ chosen = {} /\ Leave(w)
             /\ IF Eligible[job[w].session] \cap Free(w) = {} THEN Stop(job[w].session)
                ELSE UNCHANGED stopped
    <3>1. Stop(job[w].session)
      BY <1>a, <2>2, <2>4, SelectionsFind
    <3>2. stopped \subseteq stopped'
      BY <3>1 DEF Stop
    <3>3. QED
      BY <2>2, <2>4, <3>1, <3>2, StopSearch
  <2>5. QED
    BY <2>1, <2>3, <2>4
<1>4. CASE QueueNext(w)
  <2>1. job[w] \in Jobs
    BY <1>4, <1>a DEF QueueNext
  <2> DEFINE next == [job[w] EXCEPT !.round = @ + 1, !.due = Delay, !.again = FALSE]
  <2>2. next.session = job[w].session /\ next \in queue' /\ queue \subseteq queue'
    BY <1>4, <2>1 DEF QueueNext, Jobs
  <2>3. UNCHANGED sessionVars /\ stopped' = stopped
    BY <1>4 DEF QueueNext, history
  <2>4. \A x \in Workers : \A t : Runs(x, t) => Runs(x, t)' \/ (x = w /\ t = job[w].session)
    BY <1>4 DEF QueueNext, Runs, Goto, Typed, TypeOK
  <2> HIDE DEF next
  <2>5. QED
    BY <2>2, <2>3, <2>4, KeptSearch
<1>5. CASE Complete(w)
  <2>1. Leave(w) /\ UNCHANGED sessionVars /\ queue' = queue
    BY <1>5 DEF Complete
  <2>2. (~Runs(w, job[w].session) /\ stopped' = stopped) \/ Stop(job[w].session)
    BY <1>5 DEF Complete, Runs
  <2>3. stopped \subseteq stopped'
    BY <2>2 DEF Stop
  <2>4. QED
    BY <2>1, <2>2, <2>3, StopSearch
<1>6. CASE Throw(w)
  <2>1. Leave(w) /\ UNCHANGED sessionVars /\ queue' = queue /\ Stop(job[w].session)
    BY <1>6 DEF Throw
  <2>2. stopped \subseteq stopped'
    BY <2>1 DEF Stop
  <2>3. QED
    BY <2>1, <2>2, StopSearch
<1>7. CASE Crash(w)
  <2> DEFINE back == [job[w] EXCEPT !.again = TRUE, !.chain = faults']
  <2>1. back.session = job[w].session
    BY <1>7, <1>a DEF Crash, Jobs
  <2>2. /\ Leave(w) /\ UNCHANGED sessionVars /\ queue \subseteq queue'
        /\ \/ back \in queue' /\ stopped' = stopped
           \/ pc[w] = "done" /\ stopped' = stopped
           \/ Stop(job[w].session)
    BY <1>7 DEF Crash
  <2>3. stopped \subseteq stopped'
    BY <2>2 DEF Stop
  <2>4. pc[w] = "done" => ~Runs(w, job[w].session)
    BY DEF Runs
  <2> HIDE DEF back
  <2>5. QED
    BY <2>1, <2>2, <2>3, <2>4, StopSearch
<1>8. QED
  BY <1>1, <1>2, <1>3, <1>4, <1>5, <1>6, <1>7

LEMMA TextSearch ==
    ASSUME Typed, OwnTexts, Searching, NEW w \in Workers, NEW p \in Promised(w),
           Send(w, p) \/ LogText(w, p) \/ ThrowText(w, p)
    PROVE  Searching'
<1>1. CASE Send(w, p) \/ LogText(w, p)
  <2>1. UNCHANGED sessionVars /\ stopped' = stopped /\ queue' = queue /\ pc' = pc /\ job' = job
    BY <1>1 DEF Send, LogText, history
  <2>2. \A x \in Workers : \A t : Runs(x, t) => Runs(x, t)'
    BY <2>1 DEF Runs
  <2>3. QED
    BY <2>1, <2>2, KeptSearch
<1>2. CASE ThrowText(w, p)
  <2>1. UNCHANGED sessionVars /\ queue' = queue
    BY <1>2 DEF ThrowText
  <2>2. CASE p \in texting[w] /\ Leave(w) /\ Stop(p.session)
    <3>1. p.session = job[w].session /\ stopped \subseteq stopped'
      BY <2>2 DEF OwnTexts, Stop
    <3>2. QED
      BY <2>1, <2>2, <3>1, StopSearch
  <2>3. CASE UNCHANGED <<pc, job, inSession, texting, stopped>>
    <3>1. \A x \in Workers : \A t : Runs(x, t) => Runs(x, t)'
      BY <2>3 DEF Runs
    <3>2. QED
      BY <2>1, <2>3, <3>1, KeptSearch
  <2>4. QED
    BY <1>2, <2>2, <2>3 DEF ThrowText
<1>3. QED
  BY <1>1, <1>2

LEMMA NextSearch ==
    ASSUME Typed, OwnTexts, Searching, [Next]_vars
    PROVE  Searching'
<1>1. CASE UNCHANGED vars
  BY <1>1 DEF vars, sessionVars, worker, history, Searching, Runs
<1>2. CASE Client
  BY <1>2, ClientSearch DEF Client
<1>3. CASE Tick
  <2> DEFINE sooner(j) == [j EXCEPT !.due = IF @ = 0 THEN 0 ELSE @ - 1]
  <2>1. /\ UNCHANGED sessionVars /\ stopped' = stopped /\ pc' = pc /\ job' = job
        /\ queue' = {sooner(j) : j \in queue}
    BY <1>3 DEF Tick, worker
  <2>2. \A j \in queue : sooner(j).session = j.session
    BY DEF Typed, TypeOK, Jobs
  <2>3. \A x \in Workers : \A t : Runs(x, t) => Runs(x, t)'
    BY <2>1 DEF Runs
  <2> HIDE DEF sooner
  <2>4. \A j \in queue : \E k \in queue' : k.session = j.session
    BY <2>1, <2>2
  <2>5. QED
    BY <2>1, <2>3, <2>4, KeptSearch
<1>4. ASSUME NEW w \in Workers, Work(w) PROVE Searching'
  BY <1>4, RoundSearch, TextSearch DEF Work, Promised
<1>5. QED
  BY <1>1, <1>2, <1>3, <1>4 DEF Next

LEMMA InitSearch == Init => Searching
BY DEF Init, Searching

-----------------------------------------------------------------------------
\* The theorems.

IInv == Typed /\ Moment /\ Once /\ Searching

LEMMA Inductive ==
    ASSUME IInv, [Next]_vars
    PROVE  IInv'
BY NextTyped, NextMoment, NextOnce, NextSearch DEF IInv, Once

\* The inductive invariant: every worker and every text is where the code that
\* runs it takes it to be.
THEOREM Invariance == Spec => []IInv
<1>1. Init => IInv
  BY InitTyped, InitMoment, InitOnce, InitSearch DEF IInv
<1>2. IInv /\ [Next]_vars => IInv'
  BY Inductive
<1>3. QED
  BY <1>1, <1>2, PTL DEF Spec

\* Jobs, texts and rows keep their types: no round comes after the last one.
THEOREM TypeCorrect == Spec => []TypeOK
<1>1. IInv => TypeOK
  BY DEF IInv, Typed
<1>2. QED
  BY <1>1, Invariance, PTL

\* Whichever rounds of whichever sessions overlap, a volunteer with a fresh row in
\* notifications is texted only in the recorded races.
THEOREM NobodyIsPestered == Spec => []OnceAMoment
<1>1. IInv => OnceAMoment
  BY DEF IInv, Moment
<1>2. QED
  BY <1>1, Invariance, PTL

\* As long as the rounds of a session are on time, JobConfig is enough to text
\* nobody twice for it, without a look at who was texted for it before.
THEOREM ConfigIsEnough == Spec => []OncePerSession
<1>1. IInv => OncePerSession
  BY DEF IInv, Once
<1>2. QED
  BY <1>1, Invariance, PTL

\* An open session is looked for until its rounds end as the code has them end.
THEOREM RoundsGoOn == Spec => []SearchGoesOn
<1>1. IInv => SearchGoesOn
  BY DEF IInv, Searching, SearchGoesOn, Runs
<1>2. QED
  BY <1>1, Invariance, PTL

=============================================================================
