---------------------- MODULE SessionBroadcasts_proofs ----------------------
(***************************************************************************)
(* Proofs about SessionBroadcasts, for every number of sessions and        *)
(* requests and any number of throws: no interleaving of broadcasts shows  *)
(* an exclusive session to everybody, but for the window between COMMIT    *)
(* and HSET.  The argument is the order of things: rows before the hash in *)
(* a broadcast, the HSET before the answer in startSession.                *)
(***************************************************************************)
EXTENDS SessionBroadcasts, TLAPS

\* Only sessions that were started are anywhere.
Started ==
    /\ \A s \in exclusive \cup list.sessions : row[s] # "none"
    /\ \A r \in Requests : \A s \in read[r].sessions : row[s] # "none"
    /\ \A r \in Requests : on[r] \in Sessions => row[on[r]] # "none"

\* A session is hidden by one request, before it is exclusive.
HidOnce ==
    /\ \A r, q \in Requests : At(r, "hset") /\ At(q, "hset") /\ on[r] = on[q] => r = q
    /\ \A s \in exclusive : ~Hiding(s)

\* A request that makes a list is not about a session that is open and about to be
\* hidden; at "clear" its session has been claimed or ended.
OnOpen ==
    \A r \in Requests :
        /\ At(r, "clear") => row[on[r]] # "open"
        /\ At(r, "rows") /\ ~tx[r] /\ Hiding(on[r]) => row[on[r]] # "open"
        /\ At(r, "hash") /\ Hiding(on[r]) => on[r] \notin read[r].sessions

\* Of the sessions in l those that are, or will be, exclusive are hidden, or in w.
Hides(l, w) == \A s \in l.sessions : s \in exclusive \/ Hiding(s) => s \in l.hidden \cup w

ListsHide ==
    /\ Hides(list, window)
    /\ \A r \in Requests : At(r, "emit") =>
          Hides(read[r], early[r]) /\ read[r].hidden \subseteq read[r].sessions

\* The session of a request at work on one.
HasSession ==
    \A r \in Requests :
        /\ \/ pc[r] \in {"hset", "update", "unhide", "clear", "end", "commit", "cleanup"}
           \/ tx[r]
           => on[r] \in Sessions
        /\ pc[r] = "idle" => ~tx[r]

IInv == TypeOK /\ HasSession /\ Started /\ HidOnce /\ OnOpen /\ ListsHide

-----------------------------------------------------------------------------
\* Typing.

LEMMA ReadTyped ==
    ASSUME TypeOK, NEW r \in Requests
    PROVE  /\ read[r] \in Lists /\ EmptyList \in Lists
           /\ \A S \in SUBSET Sessions : [read[r] EXCEPT !.sessions = S] \in Lists
           /\ \A S \in SUBSET Sessions : [read[r] EXCEPT !.hidden = S] \in Lists
BY DEF TypeOK, Lists, EmptyList

LEMMA FinishTyped ==
    ASSUME TypeOK, NEW r \in Requests, Finish(r)
    PROVE  /\ pc' \in [Requests -> Labels] /\ on' \in [Requests -> Sessions \cup {NoSession}]
           /\ job' \in [Requests -> BOOLEAN] /\ tx' \in [Requests -> BOOLEAN]
           /\ read' \in [Requests -> Lists] /\ early' \in [Requests -> SUBSET Sessions]
<1>1. read' = [read EXCEPT ![r] = EmptyList] /\ EmptyList \in Lists
  BY ReadTyped DEF Finish
<1>2. "idle" \in Labels
  BY DEF Labels
<1>3. QED
  BY <1>1, <1>2 DEF TypeOK, Finish, Goto

LEMMA SpoilTyped ==
    ASSUME TypeOK, NEW r \in Requests, Spoil(r) \/ Clean(r)
    PROVE  dirty' \in [Requests -> BOOLEAN]
BY DEF TypeOK, Spoil, Clean

LEMMA BeginTyped ==
    ASSUME TypeOK, NEW r \in Requests, NEW s \in Sessions \cup {NoSession},
           NEW label \in {"hset", "rows", "update", "unhide", "end"}, Begin(r, s, label)
    PROVE  pc' \in [Requests -> Labels] /\ on' \in [Requests -> Sessions \cup {NoSession}]
BY DEF TypeOK, Begin, Goto, Labels

LEMMA SubmitTyped ==
    ASSUME TypeOK, NEW r \in Requests, Submit(r)
    PROVE  TypeOK'
<1>1. CASE ListAsked(r)
  BY <1>1, BeginTyped DEF ListAsked, TypeOK, tables
<1>2. ASSUME NEW s \in Sessions, StartSession(r, s) PROVE TypeOK'
  <2>1. pc' \in [Requests -> Labels] /\ on' \in [Requests -> Sessions \cup {NoSession}]
    BY <1>2, BeginTyped DEF StartSession, TypeOK
  <2>2. QED
    BY <1>2, <2>1, SpoilTyped DEF StartSession, TypeOK
<1>3. ASSUME NEW s \in Sessions, SocketJoin(r, s) PROVE TypeOK'
  BY <1>3, BeginTyped DEF SocketJoin, TypeOK, tables
<1>4. ASSUME NEW s \in Sessions, VolunteerJoin(r, s) \/ Breakout(r, s) PROVE TypeOK'
  BY <1>4, BeginTyped DEF VolunteerJoin, Breakout, TypeOK, tables
<1>5. ASSUME NEW s \in Sessions, EndSession(r, s) PROVE TypeOK'
  <2>1. pc' \in [Requests -> Labels] /\ on' \in [Requests -> Sessions \cup {NoSession}]
    BY <1>5, BeginTyped DEF EndSession
  <2>2. job' \in [Requests -> BOOLEAN]
    BY <1>5 DEF EndSession, TypeOK
  <2>3. QED
    BY <1>5, <2>1, <2>2 DEF EndSession, TypeOK, tables
<1>6. QED
  BY <1>1, <1>2, <1>3, <1>4, <1>5 DEF Submit

LEMMA ChangeTyped ==
    ASSUME TypeOK, HasSession, NEW r \in Requests,
           \/ StartHide(r) \/ ClaimSession(r) \/ JoinClear(r) \/ BreakoutClear(r)
           \/ JobClear(r) \/ EndUpdate(r) \/ EndCommit(r) \/ EndClear(r)
    PROVE  TypeOK'
<1>1. CASE StartHide(r)
  <2>1. exclusive' \subseteq Sessions
    BY <1>1 DEF StartHide, At, TypeOK, HasSession
  <2>2. QED
    BY <1>1, <2>1, FinishTyped, SpoilTyped DEF StartHide, TypeOK
<1>2. CASE ClaimSession(r)
  <2>1. row' \in [Sessions -> {"none", "open", "matched", "ended"}] /\ pc' \in [Requests -> Labels]
    BY <1>2 DEF ClaimSession, Goto, Labels, TypeOK
  <2>2. QED
    BY <1>2, <2>1, SpoilTyped DEF ClaimSession, TypeOK
<1>3. ASSUME NEW label \in {"rows", "end"}, Clear(r, label) PROVE TypeOK'
  <2>1. pc' \in [Requests -> Labels] /\ exclusive' \subseteq Sessions
    BY <1>3 DEF Clear, Goto, Labels, TypeOK
  <2>2. stale' \in BOOLEAN
    BY <1>3 DEF Clear, Unsaid
  <2>3. QED
    BY <1>3, <2>1, <2>2, SpoilTyped DEF Clear, TypeOK
<1>4. CASE JoinClear(r) \/ JobClear(r)
  BY <1>3, <1>4 DEF JoinClear, JobClear
<1>5. CASE BreakoutClear(r)
  BY <1>3, <1>5, FinishTyped DEF BreakoutClear, TypeOK, tables
<1>6. CASE EndUpdate(r)
  <2>1. pc' \in [Requests -> Labels] /\ tx' \in [Requests -> BOOLEAN]
    BY <1>6 DEF EndUpdate, Goto, Labels, TypeOK
  <2>2. QED
    BY <1>6, <2>1, SpoilTyped DEF EndUpdate, TypeOK, tables
<1>7. CASE EndCommit(r)
  <2>1. pc' \in [Requests -> Labels] /\ tx' \in [Requests -> BOOLEAN]
    BY <1>7 DEF EndCommit, Goto, Labels, TypeOK
  <2>2. row' \in [Sessions -> {"none", "open", "matched", "ended"}] /\ stale' \in BOOLEAN
    BY <1>7 DEF EndCommit, TypeOK, Unsaid
  <2>3. QED
    BY <1>7, <2>1, <2>2 DEF EndCommit, TypeOK
<1>8. CASE EndClear(r)
  <2>1. exclusive' \subseteq Sessions
    BY <1>8 DEF EndClear, TypeOK
  <2>2. QED
    BY <1>8, <2>1, FinishTyped DEF EndClear, TypeOK
<1>9. QED
  BY <1>1, <1>2, <1>4, <1>5, <1>6, <1>7, <1>8

LEMMA BroadcastTyped ==
    ASSUME TypeOK, ListsHide, NEW r \in Requests,
           ReadRows(r) \/ ReadHash(r) \/ Emit(r) \/ Throw(r)
    PROVE  TypeOK'
<1>1. CASE ReadRows(r)
  <2>1. read' \in [Requests -> Lists]
    BY <1>1, ReadTyped DEF ReadRows, Unfulfilled, TypeOK
  <2>2. pc' \in [Requests -> Labels] /\ dirty' \in [Requests -> BOOLEAN]
    BY <1>1 DEF ReadRows, Goto, Labels, TypeOK
  <2>3. QED
    BY <1>1, <2>1, <2>2 DEF ReadRows, TypeOK, tables
<1>2. CASE ReadHash(r)
  <2>1. read[r].sessions \subseteq Sessions
    BY ReadTyped DEF Lists
  <2>2. read' \in [Requests -> Lists]
    BY <1>2, <2>1, ReadTyped DEF ReadHash, TypeOK
  <2>3. early' \in [Requests -> SUBSET Sessions]
    BY <1>2, <2>1 DEF ReadHash, TypeOK
  <2>4. pc' \in [Requests -> Labels]
    BY <1>2 DEF ReadHash, Goto, Labels, TypeOK
  <2>5. QED
    BY <1>2, <2>2, <2>3, <2>4 DEF ReadHash, TypeOK, tables
<1>3. CASE Emit(r)
  <2>1. list' \in Lists /\ list'.hidden \subseteq list'.sessions
    BY <1>3, ReadTyped DEF Emit, ListsHide
  <2>2. window' \subseteq Sessions /\ stale' \in BOOLEAN /\ dirty' \in [Requests -> BOOLEAN]
    BY <1>3, SpoilTyped DEF Emit, TypeOK
  <2>3. CASE Finish(r)
    BY <1>3, <2>1, <2>2, <2>3, FinishTyped DEF Emit, TypeOK, tables
  <2>4. CASE Goto(r, "commit") /\ UNCHANGED <<on, job, tx, read, early>>
    <3>1. pc' \in [Requests -> Labels]
      BY <2>4 DEF Goto, Labels, TypeOK
    <3>2. QED
      BY <1>3, <2>1, <2>2, <2>4, <3>1 DEF Emit, TypeOK, tables
  <2>5. QED
    BY <1>3, <2>3, <2>4 DEF Emit
<1>4. CASE Throw(r)
  <2>1. faults' \in 0..MaxFaults /\ stale' \in BOOLEAN
    BY <1>4, BroadcastConstants DEF Throw, TypeOK, BroadcastConstants
  <2>2. QED
    BY <1>4, <2>1, FinishTyped, SpoilTyped DEF Throw, TypeOK, tables
<1>5. QED
  BY <1>1, <1>2, <1>3, <1>4

-----------------------------------------------------------------------------
\* What every step keeps.

Act(r) == Submit(r) \/ Serve(r) \/ Throw(r)

LEMMA StepTyped ==
    ASSUME IInv, NEW r \in Requests, Act(r)
    PROVE  TypeOK'
BY SubmitTyped, ChangeTyped, BroadcastTyped DEF IInv, Act, Serve

\* A step is a step of one request.
LEMMA Others ==
    ASSUME TypeOK, NEW r \in Requests, Act(r), NEW q \in Requests, q # r
    PROVE  /\ pc'[q] = pc[q] /\ on'[q] = on[q] /\ tx'[q] = tx[q]
           /\ read'[q] = read[q] /\ early'[q] = early[q]
<1>1. CASE Submit(r)
  BY <1>1 DEF Submit, ListAsked, StartSession, SocketJoin, VolunteerJoin, Breakout,
              EndSession, Begin, Goto, TypeOK
<1>2. CASE StartHide(r) \/ BreakoutClear(r) \/ EndClear(r)
  BY <1>2 DEF StartHide, BreakoutClear, Clear, EndClear, Finish, Goto, TypeOK
<1>3. CASE ClaimSession(r) \/ JoinClear(r) \/ JobClear(r) \/ EndUpdate(r) \/ EndCommit(r)
  BY <1>3 DEF ClaimSession, JoinClear, JobClear, Clear, EndUpdate, EndCommit, Goto, TypeOK
<1>4. CASE ReadRows(r) \/ ReadHash(r)
  BY <1>4 DEF ReadRows, ReadHash, Goto, TypeOK
<1>5. CASE Emit(r) \/ Throw(r)
  BY <1>5 DEF Emit, Throw, Finish, Goto, TypeOK
<1>6. QED
  BY <1>1, <1>2, <1>3, <1>4, <1>5 DEF Act, Serve

\* A row goes only onward.
LEMMA RowsGoOnward ==
    ASSUME TypeOK, HasSession, NEW r \in Requests, Act(r), NEW s \in Sessions
    PROVE  /\ row[s] # "none" => row'[s] # "none"
           /\ row[s] \notin {"none", "open"} => row'[s] \notin {"none", "open"}
<1>1. CASE Submit(r)
  BY <1>1 DEF Submit, ListAsked, StartSession, SocketJoin, VolunteerJoin, Breakout,
              EndSession, tables, TypeOK
<1>2. CASE Serve(r)
  BY <1>2 DEF Serve, StartHide, ClaimSession, JoinClear, BreakoutClear, JobClear, Clear,
              EndUpdate, EndCommit, EndClear, ReadRows, ReadHash, Emit, tables, TypeOK
<1>3. CASE Throw(r)
  BY <1>3 DEF Throw, tables
<1>4. QED
  BY <1>1, <1>2, <1>3 DEF Act

\* Only startSession takes up the hiding of a session, and of a new one.
LEMMA HidesOnlyNew ==
    ASSUME TypeOK, NEW r \in Requests, Act(r), pc'[r] = "hset"
    PROVE  on'[r] \in Sessions /\ row[on'[r]] = "none" /\ exclusive' = exclusive
<1>1. CASE Submit(r)
  <2>1. ASSUME NEW s \in Sessions, StartSession(r, s)
        PROVE  on'[r] = s /\ row[s] = "none" /\ exclusive' = exclusive
    BY <2>1 DEF StartSession, Begin, At, TypeOK
  <2>2. ASSUME ~\E s \in Sessions : StartSession(r, s) PROVE FALSE
    BY <1>1, <2>2 DEF Submit, ListAsked, SocketJoin, VolunteerJoin, Breakout, EndSession,
                      Begin, Goto, TypeOK
  <2>3. QED
    BY <2>1, <2>2, <1>1 DEF Submit
<1>2. CASE StartHide(r) \/ BreakoutClear(r) \/ EndClear(r)
  BY <1>2 DEF StartHide, BreakoutClear, Clear, EndClear, Finish, Goto, TypeOK
<1>3. CASE ClaimSession(r) \/ JoinClear(r) \/ JobClear(r) \/ EndUpdate(r) \/ EndCommit(r)
  BY <1>3 DEF ClaimSession, JoinClear, JobClear, Clear, EndUpdate, EndCommit, Goto, TypeOK
<1>4. CASE ReadRows(r) \/ ReadHash(r)
  BY <1>4 DEF ReadRows, ReadHash, Goto, TypeOK
<1>5. CASE Emit(r) \/ Throw(r)
  BY <1>5 DEF Emit, Throw, Finish, Goto, TypeOK
<1>6. QED
  BY <1>1, <1>2, <1>3, <1>4, <1>5 DEF Act, Serve
\* A session becomes exclusive, or about to be, only when it is new.
LEMMA ExclusiveWereHiding ==
    ASSUME IInv, NEW r \in Requests, Act(r), NEW s \in exclusive'
    PROVE  s \in exclusive \/ Hiding(s)
<1>1. CASE StartHide(r)
  BY <1>1 DEF StartHide, Hiding
<1>2. CASE ~StartHide(r)
  <2>1. exclusive' \subseteq exclusive
    BY <1>2 DEF Act, Submit, Serve, ListAsked, StartSession, SocketJoin, VolunteerJoin,
                Breakout, EndSession, ClaimSession, JoinClear, BreakoutClear, JobClear,
                Clear, EndUpdate, EndCommit, EndClear, ReadRows, ReadHash, Emit, Throw, tables
  <2>2. QED
    BY <2>1
<1>3. QED
  BY <1>1, <1>2

LEMMA OnlyNewAreHiding ==
    ASSUME IInv, NEW r \in Requests, Act(r), NEW s, Hiding(s)'
    PROVE  Hiding(s) \/ (row[s] = "none" /\ s \in Sessions)
<1>1. PICK q \in Requests : pc'[q] = "hset" /\ on'[q] = s
  BY DEF Hiding, At
<1>2. QED
  BY <1>1, Others, HidesOnlyNew DEF IInv, Hiding, At

\* Only an emit changes what volunteers see.
LEMMA OnlyEmitsShow ==
    ASSUME NEW r \in Requests, Act(r)
    PROVE  \/ list' = list /\ window' = window
           \/ pc[r] = "emit" /\ list' = read[r] /\ window' = early[r]
<1>1. CASE Submit(r)
  BY <1>1 DEF Submit, ListAsked, StartSession, SocketJoin, VolunteerJoin, Breakout, EndSession
<1>2. CASE Emit(r) \/ Throw(r)
  BY <1>2 DEF Emit, Throw, At
<1>3. CASE StartHide(r) \/ BreakoutClear(r) \/ EndClear(r)
  BY <1>3 DEF StartHide, BreakoutClear, Clear, EndClear
<1>4. CASE ClaimSession(r) \/ JoinClear(r) \/ JobClear(r) \/ EndUpdate(r) \/ EndCommit(r)
  BY <1>4 DEF ClaimSession, JoinClear, JobClear, Clear, EndUpdate, EndCommit
<1>5. CASE ReadRows(r) \/ ReadHash(r)
  BY <1>5 DEF ReadRows, ReadHash
<1>6. QED
  BY <1>1, <1>2, <1>3, <1>4, <1>5 DEF Act, Serve

-----------------------------------------------------------------------------
\* The parts of the invariant, of the request that takes the step.

\* Its session.
LEMMA KeepsSession ==
    ASSUME IInv, NEW r \in Requests, Act(r)
    PROVE  /\ \/ pc'[r] \in {"hset", "update", "unhide", "clear", "end", "commit", "cleanup"}
              \/ tx'[r]
              => on'[r] \in Sessions
           /\ on'[r] \in Sessions => row'[on'[r]] # "none"
           /\ pc'[r] = "idle" => ~tx'[r]
<1>1. CASE Submit(r)
  <2>1. ASSUME NEW s \in Sessions, StartSession(r, s)
        PROVE  (on'[r] = s \/ (on' = on /\ pc' = pc)) /\ tx' = tx /\ row'[s] = "open"
    BY <2>1 DEF StartSession, Begin, IInv, TypeOK
  <2>2. ASSUME NEW s \in Sessions, StartSession(r, s) PROVE pc[r] = "idle"
    BY <2>2 DEF StartSession, Begin, At
  <2>3. CASE \E s \in Sessions : StartSession(r, s)
    BY <2>1, <2>2, <2>3, RowsGoOnward DEF IInv, HasSession, Started
  <2>4. CASE ~\E s \in Sessions : StartSession(r, s)
    BY <1>1, <2>4, BroadcastConstants
       DEF Submit, ListAsked, SocketJoin, VolunteerJoin, Breakout, EndSession, Answered,
           Begin, Goto, At, tables, IInv, TypeOK, HasSession, BroadcastConstants
  <2>5. QED
    BY <2>3, <2>4
<1>2. ASSUME Finish(r)
      PROVE  pc'[r] = "idle" /\ ~tx'[r] /\ on'[r] = NoSession
  BY <1>2 DEF Finish, Goto, IInv, TypeOK
<1>3. CASE StartHide(r) \/ EndClear(r) \/ Throw(r)
  BY <1>2, <1>3, BroadcastConstants DEF StartHide, EndClear, Throw, BroadcastConstants
<1>4. CASE ClaimSession(r) \/ JoinClear(r) \/ JobClear(r) \/ EndUpdate(r) \/ EndCommit(r)
  <2>1. on' = on /\ on[r] \in Sessions /\ pc'[r] # "idle"
    BY <1>4 DEF ClaimSession, JoinClear, JobClear, Clear, EndUpdate, EndCommit, At, Goto,
                IInv, HasSession, TypeOK
  <2>2. QED
    BY <2>1, RowsGoOnward DEF IInv, Started
<1>5. CASE BreakoutClear(r) \/ Emit(r)
  <2>1. CASE Finish(r)
    BY <1>2, <2>1, BroadcastConstants DEF BroadcastConstants
  <2>2. CASE ~Finish(r)
    <3>1. on' = on /\ (pc[r] = "unhide" \/ tx[r]) /\ pc'[r] # "idle"
      BY <1>5, <2>2 DEF BreakoutClear, Clear, Emit, At, Goto, IInv, TypeOK
    <3>2. on[r] \in Sessions
      BY <3>1 DEF IInv, HasSession
    <3>3. QED
      BY <3>1, <3>2, RowsGoOnward DEF IInv, Started
  <2>3. QED
    BY <2>1, <2>2
<1>6. CASE ReadRows(r) \/ ReadHash(r)
  <2>1. on' = on /\ tx' = tx /\ pc'[r] \in {"hash", "emit"}
    BY <1>6 DEF ReadRows, ReadHash, Goto, IInv, TypeOK
  <2>2. QED
    BY <2>1, RowsGoOnward DEF IInv, HasSession, Started
<1>7. QED
  BY <1>1, <1>3, <1>4, <1>5, <1>6 DEF Act, Serve

LEMMA KeepsHasSession ==
    ASSUME IInv, NEW r \in Requests, Act(r)
    PROVE  HasSession'
<1>1. ASSUME NEW q \in Requests, q # r
      PROVE  /\ pc'[q] = pc[q] /\ on'[q] = on[q] /\ tx'[q] = tx[q]
  BY <1>1, Others DEF IInv
<1>2. QED
  BY <1>1, KeepsSession DEF HasSession, IInv

LEMMA KeepsStarted ==
    ASSUME IInv, NEW r \in Requests, Act(r)
    PROVE  Started'
<1>1. ASSUME NEW s \in exclusive' PROVE row'[s] # "none"
  BY <1>1, ExclusiveWereHiding, RowsGoOnward DEF IInv, TypeOK, Started, HasSession, Hiding, At
<1>2. ASSUME NEW q \in Requests, NEW s \in read'[q].sessions PROVE row'[s] # "none"
  <2>1. s \in Sessions
    BY <1>2, StepTyped DEF TypeOK, Lists
  <2>2. s \in read[q].sessions \/ row[s] = "open"
    <3>1. CASE q # r
      BY <1>2, <3>1, Others DEF IInv
    <3>2. CASE ReadRows(r) /\ q = r
      BY <1>2, <3>2, ReadTyped DEF ReadRows, Unfulfilled, Open, IInv, TypeOK, Lists
    <3>3. CASE q = r /\ ~ReadRows(r)
      <4>1. read'[r] = read[r] \/ read'[r] = EmptyList \/ ReadHash(r)
        BY <3>3 DEF Act, Submit, Serve, ListAsked, StartSession, StartHide, SocketJoin,
               VolunteerJoin, Breakout, EndSession, ClaimSession, JoinClear, BreakoutClear,
               JobClear, Clear, EndUpdate, EndCommit, EndClear, Emit, Throw, Finish,
               IInv, TypeOK
      <4>2. ReadHash(r) => read'[r].sessions = read[r].sessions
        BY ReadTyped DEF ReadHash, IInv, TypeOK, Lists
      <4>3. QED
        BY <1>2, <3>3, <4>1, <4>2 DEF EmptyList
    <3>4. QED
      BY <3>1, <3>2, <3>3
  <2>3. QED
    BY <2>1, <2>2, RowsGoOnward DEF IInv, Started
<1>3. ASSUME NEW s \in list'.sessions PROVE row'[s] # "none"
  <2>1. s \in Sessions
    BY <1>3, StepTyped DEF TypeOK, Lists
  <2>2. row[s] # "none"
    BY <1>3, OnlyEmitsShow DEF IInv, Started
  <2>3. QED
    BY <2>1, <2>2, RowsGoOnward DEF IInv
<1>4. ASSUME NEW q \in Requests, on'[q] \in Sessions PROVE row'[on'[q]] # "none"
  <2>1. CASE q = r
    BY <1>4, <2>1, KeepsSession
  <2>2. CASE q # r
    BY <1>4, <2>2, Others, RowsGoOnward DEF IInv, Started
  <2>3. QED
    BY <2>1, <2>2
<1>5. QED
  BY <1>1, <1>2, <1>3, <1>4 DEF Started
LEMMA KeepsHidOnce ==
    ASSUME IInv, NEW r \in Requests, Act(r)
    PROVE  HidOnce'
<1>1. ASSUME NEW q \in Requests, pc'[q] = "hset"
      PROVE  \/ pc[q] = "hset" /\ on'[q] = on[q] /\ q # r
             \/ q = r /\ on'[q] \in Sessions /\ row[on'[q]] = "none" /\ exclusive' = exclusive
  BY <1>1, Others, HidesOnlyNew DEF IInv
<1>2. ASSUME NEW p \in Requests, NEW q \in Requests,
             pc'[p] = "hset", pc'[q] = "hset", on'[p] = on'[q]
      PROVE  p = q
  BY <1>1, <1>2 DEF IInv, HidOnce, HasSession, Started, At
<1>3. ASSUME NEW s \in exclusive', Hiding(s)' PROVE FALSE
  <2>1. PICK q \in Requests : pc'[q] = "hset" /\ on'[q] = s
    BY <1>3 DEF Hiding, At
  <2>2. CASE q = r
    BY <1>1, <1>3, <2>1, <2>2 DEF IInv, HasSession, Started, At
  <2>3. CASE q # r
    <3>1. pc[q] = "hset" /\ on[q] = s
      BY <1>1, <2>1, <2>3
    <3>2. s \notin exclusive
      BY <3>1 DEF IInv, HidOnce, Hiding, At
    <3>3. StartHide(r) /\ s = on[r]
      BY <1>3, <3>2
         DEF Act, Submit, Serve, ListAsked, StartSession, SocketJoin, VolunteerJoin,
             Breakout, EndSession, StartHide, ClaimSession, JoinClear, BreakoutClear,
             JobClear, Clear, EndUpdate, EndCommit, EndClear, ReadRows, ReadHash, Emit,
             Throw, tables
    <3>4. QED
      BY <2>3, <3>1, <3>3 DEF StartHide, IInv, HidOnce, At
  <2>4. QED
    BY <2>2, <2>3
<1>4. QED
  BY <1>2, <1>3 DEF HidOnce, At

LEMMA KeepsOnOpen ==
    ASSUME IInv, NEW r \in Requests, Act(r)
    PROVE  OnOpen'
<1> DEFINE Of(q) ==
        /\ At(q, "clear") => row[on[q]] # "open"
        /\ At(q, "rows") /\ ~tx[q] /\ Hiding(on[q]) => row[on[q]] # "open"
        /\ At(q, "hash") /\ Hiding(on[q]) => on[q] \notin read[q].sessions
<1>0. \A s : Hiding(s) => s \in Sessions
  BY DEF Hiding, At, IInv, HasSession
<1>1. ASSUME NEW q \in Requests, q # r PROVE Of(q)'
  <2>1. Of(q) /\ (on[q] \in Sessions => row[on[q]] # "none")
    BY DEF IInv, OnOpen, Started
  <2>2. /\ pc'[q] = pc[q] /\ on'[q] = on[q] /\ tx'[q] = tx[q] /\ read'[q] = read[q]
    BY <1>1, Others DEF IInv
  <2>3. Hiding(on[q])' => Hiding(on[q])
    BY <2>1, <2>2, OnlyNewAreHiding
  <2>4. At(q, "clear") => on[q] \in Sessions
    BY DEF At, IInv, HasSession
  <2>5. on[q] \in Sessions /\ row[on[q]] # "open" => row'[on[q]] # "open"
    BY <2>1, RowsGoOnward DEF IInv
  <2>6. QED
    BY <1>0, <2>1, <2>2, <2>3, <2>4, <2>5 DEF At, Hiding
<1>2. Of(r)'
  <2>1. CASE SocketJoin(r, on'[r]) /\ on'[r] \in Sessions
    <3>1. pc'[r] = "rows" /\ ~Hiding(on'[r]) /\ row[on'[r]] # "none"
      BY <2>1 DEF SocketJoin, Begin, Goto, Answered, Hiding, IInv, TypeOK
    <3>2. ~Hiding(on[r])'
      BY <3>1, OnlyNewAreHiding
    <3>3. QED
      BY <3>1, <3>2 DEF At
  <2>2. CASE ListAsked(r)
    <3>1. pc'[r] = "rows" /\ on'[r] = NoSession
      BY <2>2 DEF ListAsked, Begin, Goto, IInv, TypeOK
    <3>2. ~Hiding(on[r])'
      <4>1. ~Hiding(NoSession)
        BY <1>0, BroadcastConstants DEF BroadcastConstants
      <4>2. QED
        BY <3>1, <4>1, OnlyNewAreHiding, BroadcastConstants DEF BroadcastConstants
    <3>3. QED
      BY <3>1, <3>2 DEF At
  <2>3. CASE ClaimSession(r)
    <3>1. pc'[r] = "clear" /\ on'[r] = on[r] /\ row'[on[r]] # "open"
      BY <2>3 DEF ClaimSession, Goto, At, IInv, TypeOK, HasSession
    <3>2. QED
      BY <3>1 DEF At
  <2>4. CASE JoinClear(r)
    <3>1. pc'[r] = "rows" /\ on'[r] = on[r] /\ row'[on[r]] # "open"
      BY <2>4 DEF JoinClear, Clear, Goto, At, IInv, TypeOK, OnOpen
    <3>2. QED
      BY <3>1 DEF At
  <2>5. CASE BreakoutClear(r)
    <3>1. CASE on[r] \in exclusive
      <4>1. pc'[r] = "rows" /\ on' = on /\ ~Hiding(on[r]) /\ row[on[r]] # "none"
        BY <2>5, <3>1 DEF BreakoutClear, Clear, Goto, IInv, TypeOK, HidOnce, Started
      <4>2. ~Hiding(on[r])'
        BY <4>1, OnlyNewAreHiding
      <4>3. QED
        BY <4>1, <4>2 DEF At
    <3>2. CASE on[r] \notin exclusive
      <4>1. pc'[r] = "idle"
        BY <2>5, <3>2 DEF BreakoutClear, Finish, Goto, IInv, TypeOK
      <4>2. QED
        BY <4>1 DEF At
    <3>3. QED
      BY <3>1, <3>2
  <2>6. CASE EndUpdate(r)
    <3>1. pc'[r] \in {"commit", "rows"} /\ tx'[r]
      BY <2>6 DEF EndUpdate, Goto, IInv, TypeOK
    <3>2. QED
      BY <3>1 DEF At
  <2>7. CASE ReadRows(r)
    <3>1. /\ pc'[r] = "hash" /\ on' = on /\ pc[r] = "rows" /\ UNCHANGED tx
          /\ read'[r].sessions = Unfulfilled(r)
      BY <2>7, ReadTyped DEF ReadRows, Goto, At, IInv, TypeOK, Lists
    <3>2. Hiding(on[r])' => Hiding(on[r])
      BY <2>7 DEF ReadRows, Hiding, Goto, At, IInv, TypeOK
    <3>3. Hiding(on[r]) => on[r] \notin Unfulfilled(r)
      BY <3>1 DEF IInv, OnOpen, Unfulfilled, Open, At
    <3>4. QED
      BY <3>1, <3>2, <3>3 DEF At
  <2>8. CASE /\ ~ListAsked(r) /\ ~ClaimSession(r) /\ ~JoinClear(r) /\ ~BreakoutClear(r)
             /\ ~EndUpdate(r) /\ ~ReadRows(r) /\ \A s \in Sessions : ~SocketJoin(r, s)
    <3>1. pc'[r] \notin {"clear", "rows", "hash"}
      <4>1. CASE Submit(r)
        BY <2>8, <4>1 DEF Submit, StartSession, VolunteerJoin, Breakout, EndSession,
                          Begin, Goto, At, IInv, TypeOK
      <4>2. CASE StartHide(r) \/ JobClear(r) \/ EndCommit(r) \/ EndClear(r)
        BY <4>2 DEF StartHide, JobClear, Clear, EndCommit, EndClear, Finish, Goto, IInv, TypeOK
      <4>3. CASE ReadHash(r) \/ Emit(r) \/ Throw(r)
        BY <4>3 DEF ReadHash, Emit, Throw, Finish, Goto, IInv, TypeOK
      <4>4. QED
        BY <2>8, <4>1, <4>2, <4>3 DEF Act, Serve
    <3>2. QED
      BY <3>1 DEF At
  <2>9. ASSUME NEW s \in Sessions, SocketJoin(r, s) PROVE on'[r] = s
    BY <2>9 DEF SocketJoin, Begin, IInv, TypeOK
  <2>10. QED
    BY <2>1, <2>2, <2>3, <2>4, <2>5, <2>6, <2>7, <2>8, <2>9
<1>3. QED
  BY <1>1, <1>2 DEF OnOpen
\* What is hidden in a list stays hidden: no session of it is new.
LEMMA StaysHidden ==
    ASSUME IInv, NEW r \in Requests, Act(r), NEW s,
           row[s] # "none", s \in exclusive' \/ Hiding(s)'
    PROVE  s \in exclusive \/ Hiding(s)
BY ExclusiveWereHiding, OnlyNewAreHiding

LEMMA KeepsListsHide ==
    ASSUME IInv, NEW r \in Requests, Act(r)
    PROVE  ListsHide'
<1>1. Hides(list, window)'
  <2>1. \/ list' = list /\ window' = window
        \/ list' = read[r] /\ window' = early[r] /\ Hides(read[r], early[r])
    BY OnlyEmitsShow DEF IInv, ListsHide, At
  <2>2. ASSUME NEW s \in list'.sessions, s \in exclusive' \/ Hiding(s)'
        PROVE  s \in list'.hidden \cup window'
    <3>1. row[s] # "none"
      BY <2>1, <2>2 DEF IInv, Started
    <3>2. s \in exclusive \/ Hiding(s)
      BY <2>2, <3>1, StaysHidden
    <3>3. QED
      BY <2>1, <2>2, <3>2 DEF Hides, IInv, ListsHide
  <2>3. QED
    BY <2>2 DEF Hides
<1>2. ASSUME NEW q \in Requests, pc'[q] = "emit"
      PROVE  Hides(read[q], early[q])' /\ read'[q].hidden \subseteq read'[q].sessions
  <2>1. CASE q # r
    <3>1. pc[q] = "emit" /\ read'[q] = read[q] /\ early'[q] = early[q]
      BY <1>2, <2>1, Others DEF IInv
    <3>2. Hides(read[q], early[q]) /\ read[q].hidden \subseteq read[q].sessions
      BY <3>1 DEF IInv, ListsHide, At
    <3>3. ASSUME NEW s \in read[q].sessions, s \in exclusive' \/ Hiding(s)'
          PROVE  s \in read[q].hidden \cup early[q]
      BY <3>2, <3>3, StaysHidden DEF Hides, IInv, Started
    <3>4. QED
      BY <3>1, <3>2, <3>3 DEF Hides
  <2>2. CASE q = r
    <3>1. ReadHash(r)
      <4>1. CASE Submit(r)
        BY <1>2, <2>2, <4>1
           DEF Submit, ListAsked, StartSession, SocketJoin, VolunteerJoin, Breakout,
               EndSession, Begin, Goto, At, IInv, TypeOK
      <4>2. CASE StartHide(r) \/ BreakoutClear(r) \/ EndClear(r)
        BY <1>2, <2>2, <4>2 DEF StartHide, BreakoutClear, Clear, EndClear, Finish, Goto,
                                IInv, TypeOK
      <4>3. CASE ClaimSession(r) \/ JoinClear(r) \/ JobClear(r) \/ EndUpdate(r) \/ EndCommit(r)
        BY <1>2, <2>2, <4>3 DEF ClaimSession, JoinClear, JobClear, Clear, EndUpdate,
                                EndCommit, Goto, IInv, TypeOK
      <4>4. CASE ReadRows(r) \/ Emit(r) \/ Throw(r)
        BY <1>2, <2>2, <4>4 DEF ReadRows, Emit, Throw, Finish, Goto, IInv, TypeOK
      <4>5. QED
        BY <4>1, <4>2, <4>3, <4>4 DEF Act, Serve
    <3>2. /\ read'[r].sessions = read[r].sessions
          /\ read'[r].hidden = read[r].sessions \cap exclusive
          /\ early'[r] = {s \in read[r].sessions : Hiding(s) /\ s # on[r]}
          /\ exclusive' = exclusive
      BY <3>1, ReadTyped DEF ReadHash, tables, IInv, TypeOK, Lists
    <3>3. ASSUME NEW s \in read[r].sessions, s \in exclusive' \/ Hiding(s)'
          PROVE  s \in read'[r].hidden \cup early'[r]
      <4>1. s \in exclusive \/ Hiding(s)
        BY <3>3, StaysHidden DEF IInv, Started
      <4>2. ~(Hiding(s) /\ s = on[r])
        BY <3>1, <3>3 DEF ReadHash, IInv, OnOpen
      <4>3. QED
        BY <3>2, <3>3, <4>1, <4>2
    <3>4. QED
      BY <2>2, <3>2, <3>3 DEF Hides
  <2>3. QED
    BY <2>1, <2>2
<1>3. QED
  BY <1>1, <1>2 DEF ListsHide, At

-----------------------------------------------------------------------------
\* Why the list is current.  As long as nothing stale was sent, every session that the
\* list gets wrong is the business of a request that will broadcast.

\* A transaction that has not committed is one request's alone, and whoever reads
\* while it runs knows that it may be overtaken by the COMMIT.
EndsAlone ==
    /\ \A r \in Requests : tx[r] => pc[r] \in {"rows", "hash", "emit", "commit"}
    /\ \A r \in Requests : pc[r] = "commit" => tx[r]
    /\ \A r, q \in Requests : tx[r] /\ q # r /\ pc[q] \in {"hash", "emit"} => dirty[q]
    /\ \A r, q \in Requests : tx[r] /\ tx[q] /\ on[r] = on[q] => r = q

\* A session is announced once it is no longer about to be hidden; when its hash entry
\* is cleared at last, it has ended.
Known ==
    /\ \A s \in announced : row[s] # "none" /\ ~Hiding(s)
    /\ \A r \in Requests : pc[r] = "cleanup" => row[on[r]] = "ended"

\* A list that is being made and has not been overtaken is what the tables say.
ReadsCurrent ==
    \A r \in Requests : ~dirty[r] =>
        /\ pc[r] \in {"hash", "emit"} => read[r].sessions = Unfulfilled(r)
        /\ pc[r] = "emit" => read[r].hidden = read[r].sessions \cap exclusive

\* The list agrees with the tables on s.
Agrees(s) ==
    /\ s \in list.sessions <=> Open(s)
    /\ s \in list.hidden <=> Open(s) /\ s \in exclusive

\* r is about to broadcast, or has and will commit what it has broadcast.
Promises(r, s) ==
    \/ on[r] # NoSession /\ pc[r] \in {"clear", "rows", "hash", "emit"}
    \/ pc[r] = "commit" /\ on[r] = s

Told ==
    ~stale =>
        /\ \A s \in announced : Agrees(s) \/ \E r \in Requests : Promises(r, s)
        /\ \A r \in Requests : pc[r] = "commit" /\ ~job[r] => on[r] \notin list.sessions

CurrentInv == EndsAlone /\ Known /\ ReadsCurrent /\ Told

\* What its own step makes of the transaction of r, and of its place.
LEMMA OwnStep ==
    ASSUME IInv, EndsAlone, NEW r \in Requests, Act(r)
    PROVE  /\ tx'[r] => (tx[r] /\ on'[r] = on[r]) \/ EndUpdate(r)
           /\ tx'[r] => pc'[r] \in {"rows", "hash", "emit", "commit"}
           /\ pc'[r] = "commit" => tx'[r] /\ ((EndUpdate(r) /\ job'[r]) \/ Emit(r))
           /\ pc'[r] = "cleanup" => EndCommit(r)
           /\ pc'[r] \in {"hash", "emit"} => ReadRows(r) \/ ReadHash(r)
<1>1. CASE Submit(r)
  <2>1. /\ tx' = tx /\ pc[r] = "idle"
        /\ pc'[r] \in {"idle", "hset", "rows", "update", "unhide", "end"}
    BY <1>1 DEF Submit, ListAsked, StartSession, SocketJoin, VolunteerJoin, Breakout,
                EndSession, Begin, Goto, At, IInv, TypeOK
  <2>2. QED
    BY <2>1 DEF EndsAlone
<1>2. CASE Finish(r)
  <2>1. pc'[r] = "idle" /\ ~tx'[r]
    BY <1>2 DEF Finish, Goto, IInv, TypeOK
  <2>2. QED
    BY <2>1
<1>3. CASE StartHide(r) \/ EndClear(r) \/ Throw(r)
  BY <1>2, <1>3 DEF StartHide, EndClear, Throw
<1>4. CASE ClaimSession(r) \/ JoinClear(r) \/ JobClear(r) \/ (BreakoutClear(r) /\ ~Finish(r))
  <2>1. tx' = tx /\ pc[r] \in {"update", "clear", "unhide"} /\ pc'[r] \in {"clear", "rows", "end"}
    BY <1>4 DEF ClaimSession, JoinClear, JobClear, BreakoutClear, Clear, At, Goto, IInv, TypeOK
  <2>2. QED
    BY <2>1 DEF EndsAlone
<1>5. CASE EndUpdate(r)
  <2>1. tx'[r] /\ pc'[r] = (IF job[r] THEN "commit" ELSE "rows") /\ job' = job
    BY <1>5 DEF EndUpdate, Goto, IInv, TypeOK
  <2>2. QED
    BY <1>5, <2>1
<1>6. CASE EndCommit(r)
  <2>1. ~tx'[r] /\ pc'[r] = "cleanup"
    BY <1>6 DEF EndCommit, Goto, IInv, TypeOK
  <2>2. QED
    BY <1>6, <2>1
<1>7. CASE ReadRows(r) \/ ReadHash(r)
  <2>1. tx' = tx /\ on' = on /\ pc'[r] \in {"hash", "emit"}
    BY <1>7 DEF ReadRows, ReadHash, Goto, IInv, TypeOK
  <2>2. QED
    BY <1>7, <2>1
<1>8. CASE Emit(r)
  <2>1. CASE Finish(r)
    BY <1>2, <2>1
  <2>2. CASE ~Finish(r)
    <3>1. tx[r] /\ tx' = tx /\ on' = on /\ pc'[r] = "commit"
      BY <1>8, <2>2 DEF Emit, Goto, IInv, TypeOK
    <3>2. QED
      BY <1>8, <3>1
  <2>3. QED
    BY <2>1, <2>2
<1>9. QED
  BY <1>1, <1>2, <1>3, <1>4, <1>5, <1>6, <1>7, <1>8 DEF Act, Serve

\* Nobody else cleans a list that has been overtaken, or makes it another's job.
LEMMA DirtyStays ==
    ASSUME TypeOK, NEW r \in Requests, Act(r), NEW q \in Requests, q # r
    PROVE  (dirty[q] => dirty'[q]) /\ job'[q] = job[q]
<1>1. Spoil(r) \/ Clean(r) \/ dirty' = dirty \/ ReadRows(r)
  BY DEF Act, Submit, Serve, ListAsked, StartSession, SocketJoin, VolunteerJoin, Breakout,
         EndSession, StartHide, ClaimSession, JoinClear, BreakoutClear, JobClear, Clear,
         EndUpdate, EndCommit, EndClear, ReadHash, Emit, Throw
<1>2. dirty[q] => dirty'[q]
  BY <1>1 DEF Spoil, Clean, ReadRows, TypeOK
<1>3. job' = job \/ Finish(r) \/ \E s \in Sessions : EndSession(r, s)
  BY DEF Act, Submit, Serve, ListAsked, StartSession, SocketJoin, VolunteerJoin, Breakout,
         StartHide, ClaimSession, JoinClear, BreakoutClear, JobClear, Clear,
         EndUpdate, EndCommit, EndClear, ReadRows, ReadHash, Emit, Throw
<1>4. job'[q] = job[q]
  BY <1>3 DEF Finish, EndSession, TypeOK
<1>5. QED
  BY <1>2, <1>4

LEMMA KeepsEndsAlone ==
    ASSUME IInv, EndsAlone, NEW r \in Requests, Act(r)
    PROVE  EndsAlone'
<1>1. ASSUME NEW q \in Requests, q # r
      PROVE  pc'[q] = pc[q] /\ on'[q] = on[q] /\ tx'[q] = tx[q] /\ (dirty[q] => dirty'[q])
  BY <1>1, Others, DirtyStays DEF IInv
<1>2. \A q \in Requests : tx'[q] => pc'[q] \in {"rows", "hash", "emit", "commit"}
  BY <1>1, OwnStep DEF EndsAlone
<1>3. \A q \in Requests : pc'[q] = "commit" => tx'[q]
  BY <1>1, OwnStep DEF EndsAlone
<1>4. ASSUME NEW p \in Requests, NEW q \in Requests, tx'[p], q # p, pc'[q] \in {"hash", "emit"}
      PROVE  dirty'[q]
  <2>1. CASE q = r
    <3>1. tx[p]
      BY <1>1, <1>4, <2>1
    <3>2. CASE ReadRows(r)
      BY <1>4, <2>1, <3>1, <3>2 DEF ReadRows, IInv, TypeOK
    <3>3. CASE ReadHash(r)
      BY <1>4, <2>1, <3>1, <3>3 DEF ReadHash, At, EndsAlone
    <3>4. QED
      BY <1>4, <2>1, <3>2, <3>3, OwnStep
  <2>2. CASE q # r /\ tx[p]
    BY <1>1, <1>4, <2>2 DEF EndsAlone
  <2>3. CASE q # r /\ ~tx[p]
    <3>1. p = r /\ EndUpdate(r)
      BY <1>1, <1>4, <2>3, OwnStep
    <3>2. QED
      BY <1>1, <1>4, <2>3, <3>1 DEF EndUpdate, Spoil
  <2>4. QED
    BY <2>1, <2>2, <2>3
<1>5. ASSUME NEW p \in Requests, NEW q \in Requests, tx'[p], tx'[q], on'[p] = on'[q]
      PROVE  p = q
  <2>1. CASE EndUpdate(r)
    <3>1. on' = on /\ \A x \in Requests : tx[x] => on[x] # on[r]
      BY <2>1 DEF EndUpdate, Locked
    <3>2. QED
      BY <1>1, <1>5, <3>1 DEF EndsAlone
  <2>2. CASE ~EndUpdate(r)
    <3>1. \A x \in Requests : tx'[x] => tx[x] /\ on'[x] = on[x]
      BY <1>1, <2>2, OwnStep
    <3>2. QED
      BY <1>5, <3>1 DEF EndsAlone
  <2>3. QED
    BY <2>1, <2>2
<1>6. QED
  BY <1>2, <1>3, <1>4, <1>5 DEF EndsAlone

\* An ended session stays so.
LEMMA EndedStays ==
    ASSUME TypeOK, HasSession, NEW r \in Requests, Act(r), NEW s \in Sessions, row[s] = "ended"
    PROVE  row'[s] = "ended"
<1>1. CASE Submit(r)
  BY <1>1 DEF Submit, ListAsked, StartSession, SocketJoin, VolunteerJoin, Breakout,
              EndSession, tables, TypeOK
<1>2. CASE Serve(r)
  BY <1>2 DEF Serve, StartHide, ClaimSession, JoinClear, BreakoutClear, JobClear, Clear,
              EndUpdate, EndCommit, EndClear, ReadRows, ReadHash, Emit, tables, TypeOK
<1>3. CASE Throw(r)
  BY <1>3 DEF Throw, tables
<1>4. QED
  BY <1>1, <1>2, <1>3 DEF Act

LEMMA KeepsKnown ==
    ASSUME IInv, EndsAlone, Known, NEW r \in Requests, Act(r)
    PROVE  Known'
<1>1. ASSUME NEW s \in announced' PROVE s \in Sessions /\ row[s] # "none" /\ ~Hiding(s)
  <2>1. CASE s \in announced
    BY <2>1 DEF Known, IInv, TypeOK
  <2>2. CASE s \notin announced
    <3>1. PICK t \in Sessions : SocketJoin(r, t)
      BY <1>1, <2>2
         DEF Act, Submit, Serve, ListAsked, StartSession, VolunteerJoin, Breakout, EndSession,
             StartHide, ClaimSession, JoinClear, BreakoutClear, JobClear, Clear, EndUpdate,
             EndCommit, EndClear, ReadRows, ReadHash, Emit, Throw
    <3>2. s = t
      BY <1>1, <2>2, <3>1 DEF SocketJoin
    <3>3. QED
      BY <3>1, <3>2 DEF SocketJoin, Answered, Hiding
  <2>3. QED
    BY <2>1, <2>2
<1>2. ASSUME NEW s \in announced' PROVE row'[s] # "none" /\ ~Hiding(s)'
  BY <1>1, <1>2, RowsGoOnward, OnlyNewAreHiding DEF IInv
<1>3. ASSUME NEW q \in Requests, pc'[q] = "cleanup" PROVE row'[on'[q]] = "ended"
  <2>1. CASE q = r
    <3>1. EndCommit(r)
      BY <1>3, <2>1, OwnStep
    <3>2. on[r] \in Sessions /\ on' = on
      BY <3>1 DEF EndCommit, At, IInv, HasSession
    <3>3. QED
      BY <2>1, <3>1, <3>2 DEF EndCommit, IInv, TypeOK
  <2>2. CASE q # r
    <3>1. pc[q] = "cleanup" /\ on'[q] = on[q]
      BY <1>3, <2>2, Others DEF IInv
    <3>2. on[q] \in Sessions /\ row[on[q]] = "ended"
      BY <3>1 DEF IInv, HasSession, Known
    <3>3. QED
      BY <3>1, <3>2, EndedStays DEF IInv
  <2>3. QED
    BY <2>1, <2>2
<1>4. QED
  BY <1>2, <1>3 DEF Known

-----------------------------------------------------------------------------
\* Lists in the making, and the list.

\* Which sessions a list shows does not change while it is made, and which of them it
\* hides, if nobody spoils it.
LEMMA NothingSpoilt ==
    ASSUME IInv, EndsAlone, Known, NEW r \in Requests, Act(r), NEW q \in Requests, q # r,
           pc[q] \in {"hash", "emit"}, ~dirty'[q]
    PROVE  /\ \A s \in Sessions : Open(s)' <=> Open(s)
           /\ \A s \in Sessions : Open(s) => (s \in exclusive' <=> s \in exclusive)
<1>1. ~dirty[q] /\ ~Spoil(r) /\ ~tx[r]
  BY DirtyStays DEF IInv, EndsAlone, Spoil
<1>2. CASE Submit(r)
  BY <1>1, <1>2 DEF Submit, ListAsked, StartSession, SocketJoin, VolunteerJoin, Breakout,
                    EndSession, tables, Open
<1>3. CASE EndClear(r)
  <2>1. row' = row /\ row[on[r]] = "ended" /\ exclusive' = exclusive \ {on[r]}
    BY <1>3 DEF EndClear, At, Known
  <2>2. QED
    BY <2>1 DEF Open
<1>4. ~EndCommit(r)
  BY <1>1 DEF EndCommit, At, EndsAlone
<1>5. CASE UNCHANGED tables
  BY <1>5 DEF tables, Open
<1>6. QED
  BY <1>1, <1>2, <1>3, <1>4, <1>5
     DEF Act, Serve, StartHide, ClaimSession, JoinClear, BreakoutClear, JobClear, Clear,
         EndUpdate, ReadRows, ReadHash, Emit, Throw, tables

LEMMA KeepsReadsCurrent ==
    ASSUME IInv, EndsAlone, Known, ReadsCurrent, NEW r \in Requests, Act(r)
    PROVE  ReadsCurrent'
<1>1. ASSUME NEW q \in Requests, ~dirty'[q], pc'[q] \in {"hash", "emit"}, q # r
      PROVE  /\ read'[q].sessions = Unfulfilled(q)'
             /\ pc'[q] = "emit" => read'[q].hidden = read'[q].sessions \cap exclusive'
  <2>1. /\ pc'[q] = pc[q] /\ on'[q] = on[q] /\ tx'[q] = tx[q] /\ read'[q] = read[q]
        /\ ~dirty[q]
    BY <1>1, Others, DirtyStays DEF IInv
  <2>2. /\ \A s \in Sessions : Open(s)' <=> Open(s)
        /\ \A s \in Sessions : Open(s) => (s \in exclusive' <=> s \in exclusive)
    BY <1>1, <2>1, NothingSpoilt
  <2>3. Unfulfilled(q)' = Unfulfilled(q)
    BY <2>1, <2>2 DEF Unfulfilled
  <2>4. read[q].sessions = Unfulfilled(q)
    BY <1>1, <2>1 DEF ReadsCurrent
  <2>5. pc[q] = "emit" => read[q].hidden = read[q].sessions \cap exclusive
    BY <2>1 DEF ReadsCurrent
  <2>6. \A s \in Unfulfilled(q) : s \in Sessions /\ Open(s)
    BY DEF Unfulfilled
  <2>7. QED
    BY <2>1, <2>2, <2>3, <2>4, <2>5, <2>6
<1>2. ASSUME ~dirty'[r], pc'[r] \in {"hash", "emit"}
      PROVE  /\ read'[r].sessions = Unfulfilled(r)'
             /\ pc'[r] = "emit" => read'[r].hidden = read'[r].sessions \cap exclusive'
  <2>1. CASE ReadRows(r)
    <3>1. /\ pc'[r] = "hash" /\ read'[r].sessions = Unfulfilled(r)
          /\ row' = row /\ tx' = tx /\ on' = on
      BY <2>1, ReadTyped DEF ReadRows, Goto, tables, IInv, TypeOK, Lists
    <3>2. Unfulfilled(r)' = Unfulfilled(r)
      BY <3>1 DEF Unfulfilled, Open
    <3>3. QED
      BY <3>1, <3>2
  <2>2. CASE ReadHash(r)
    <3>1. /\ pc[r] = "hash" /\ read'[r].sessions = read[r].sessions
          /\ read'[r].hidden = read[r].sessions \cap exclusive
          /\ row' = row /\ exclusive' = exclusive /\ tx' = tx /\ on' = on /\ ~dirty[r]
      BY <1>2, <2>2, ReadTyped DEF ReadHash, At, tables, IInv, TypeOK, Lists
    <3>2. Unfulfilled(r)' = Unfulfilled(r) /\ read[r].sessions = Unfulfilled(r)
      BY <3>1 DEF Unfulfilled, Open, ReadsCurrent
    <3>3. QED
      BY <3>1, <3>2
  <2>3. QED
    BY <1>2, <2>1, <2>2, OwnStep
<1>3. QED
  BY <1>1, <1>2 DEF ReadsCurrent

\* Sending a list that was not overtaken makes everything current, but for what the
\* sender itself has yet to commit.
LEMMA EmitTells ==
    ASSUME IInv, EndsAlone, ReadsCurrent, NEW r \in Requests, Emit(r), ~stale'
    PROVE  Told'
<1>1. /\ pc[r] = "emit" /\ ~dirty[r] /\ list' = read[r]
      /\ row' = row /\ exclusive' = exclusive /\ announced' = announced
  BY DEF Emit, At, tables
<1>2. read[r].sessions = Unfulfilled(r) /\ read[r].hidden = read[r].sessions \cap exclusive
  BY <1>1 DEF ReadsCurrent
<1>3. tx[r] => pc'[r] = "commit" /\ on' = on
  BY DEF Emit, Goto, IInv, TypeOK
<1>4. ASSUME NEW s \in announced' PROVE Agrees(s)' \/ \E q \in Requests : Promises(q, s)'
  <2>1. s \in Sessions
    BY <1>1, <1>4 DEF IInv, TypeOK
  <2>2. CASE tx[r] /\ on[r] = s
    BY <1>3, <2>2 DEF Promises
  <2>3. CASE ~(tx[r] /\ on[r] = s)
    <3>1. s \in read[r].sessions <=> Open(s)
      BY <1>2, <2>1, <2>3 DEF Unfulfilled
    <3>2. QED
      BY <1>1, <1>2, <3>1 DEF Agrees, Open
  <2>4. QED
    BY <2>2, <2>3
<1>5. ASSUME NEW q \in Requests, pc'[q] = "commit" PROVE on'[q] \notin list'.sessions
  <2>1. CASE q = r
    <3>1. tx[r]
      BY <1>5, <2>1 DEF Emit, Finish, Goto, IInv, TypeOK
    <3>2. QED
      BY <1>1, <1>2, <1>3, <2>1, <3>1 DEF Unfulfilled
  <2>2. CASE q # r
    <3>1. pc[q] = "commit"
      BY <1>5, <2>2, Others DEF IInv, Act, Serve
    <3>2. QED
      BY <1>1, <2>2, <3>1 DEF EndsAlone
  <2>3. QED
    BY <2>1, <2>2
<1>6. QED
  BY <1>4, <1>5 DEF Told

\* Any other step leaves the list, and what is stale.
LEMMA NotSent ==
    ASSUME TypeOK, NEW r \in Requests, Act(r), ~Emit(r)
    PROVE  list' = list /\ (stale => stale')
<1>1. CASE Submit(r)
  BY <1>1 DEF Submit, ListAsked, StartSession, SocketJoin, VolunteerJoin, Breakout, EndSession
<1>2. CASE \/ StartHide(r) \/ EndClear(r) \/ ClaimSession(r) \/ EndUpdate(r)
           \/ ReadRows(r) \/ ReadHash(r)
  BY <1>2 DEF StartHide, EndClear, ClaimSession, EndUpdate, ReadRows, ReadHash
<1>3. CASE JoinClear(r) \/ BreakoutClear(r) \/ JobClear(r)
  <2>1. list' = list
    BY <1>3 DEF JoinClear, BreakoutClear, JobClear, Clear
  <2>2. Unsaid(r) \/ stale' = stale
    BY <1>3 DEF JoinClear, BreakoutClear, JobClear, Clear
  <2>3. stale => stale'
    BY <2>2 DEF Unsaid, TypeOK
  <2>4. QED
    BY <2>1, <2>3
<1>4. CASE EndCommit(r)
  BY <1>4 DEF EndCommit, Unsaid
<1>5. CASE Throw(r)
  BY <1>5 DEF Throw
<1>6. QED
  BY <1>1, <1>2, <1>3, <1>4, <1>5 DEF Act, Serve

\* The steps after which r itself is to broadcast.
LEMMA WillTell ==
    ASSUME IInv, NEW r \in Requests, NEW s,
           \/ \E t \in Sessions : SocketJoin(r, t)
           \/ ClaimSession(r) \/ JoinClear(r) \/ (BreakoutClear(r) /\ on[r] \in exclusive)
           \/ (EndUpdate(r) /\ ~job[r])
    PROVE  Promises(r, s)'
<1>1. CASE \E t \in Sessions : SocketJoin(r, t)
  <2>1. PICK t \in Sessions : SocketJoin(r, t)
    BY <1>1
  <2>2. pc'[r] = "rows" /\ on'[r] = t
    BY <2>1 DEF SocketJoin, Begin, Goto, IInv, TypeOK
  <2>3. QED
    BY <2>2, BroadcastConstants DEF Promises, BroadcastConstants
<1>2. CASE \/ ClaimSession(r) \/ JoinClear(r) \/ (BreakoutClear(r) /\ on[r] \in exclusive)
           \/ (EndUpdate(r) /\ ~job[r])
  <2>1. on[r] \in Sessions /\ on' = on /\ pc'[r] \in {"clear", "rows"}
    BY <1>2 DEF ClaimSession, JoinClear, BreakoutClear, Clear, EndUpdate, At, Goto, IInv,
                HasSession, TypeOK
  <2>2. QED
    BY <2>1, BroadcastConstants DEF Promises, BroadcastConstants
<1>3. QED
  BY <1>1, <1>2

\* The other steps change nothing of what the list says of an announced session; a
\* request that is about to broadcast goes on, or what it throws is stale.
LEMMA StillTold ==
    ASSUME IInv, EndsAlone, Known, Told, ~stale, ~stale', NEW r \in Requests, Act(r), ~Emit(r),
           NEW s \in announced, ~Promises(r, s)'
    PROVE  /\ ~Promises(r, s) \/ (EndCommit(r) /\ s = on[r])
           /\ Agrees(s)' <=> Agrees(s) \/ (EndCommit(r) /\ s = on[r])
<1>0. s \in Sessions /\ row[s] # "none" /\ ~Hiding(s) /\ list' = list
  BY NotSent DEF IInv, TypeOK, Known
<1>1. pc[r] = "idle" => ~Promises(r, s)
  BY DEF Promises
<1>2. CASE Submit(r)
  <2>1. pc[r] = "idle"
    BY <1>2 DEF Submit, ListAsked, StartSession, SocketJoin, VolunteerJoin, Breakout,
                EndSession, Begin, At
  <2>2. row'[s] = row[s] /\ exclusive' = exclusive
    BY <1>0, <1>2 DEF Submit, ListAsked, StartSession, SocketJoin, VolunteerJoin, Breakout,
                      EndSession, tables, IInv, TypeOK
  <2>3. ~EndCommit(r)
    BY <2>1 DEF EndCommit, At
  <2>4. QED
    BY <1>0, <1>1, <2>1, <2>2, <2>3 DEF Agrees, Open
<1>3. CASE StartHide(r)
  <2>1. pc[r] = "hset" /\ s # on[r] /\ row' = row /\ exclusive' = exclusive \cup {on[r]}
    BY <1>0, <1>3 DEF StartHide, At, Hiding
  <2>2. QED
    BY <1>0, <2>1 DEF Promises, Agrees, Open, EndCommit, At
<1>4. CASE EndClear(r)
  <2>1. pc[r] = "cleanup" /\ row[on[r]] = "ended" /\ row' = row /\ exclusive' = exclusive \ {on[r]}
    BY <1>4 DEF EndClear, At, Known
  <2>2. QED
    BY <1>0, <2>1 DEF Promises, Agrees, Open, EndCommit, At
<1>5. CASE EndCommit(r)
  <2>1. /\ pc[r] = "commit" /\ ~job[r] /\ on[r] \in Sessions
        /\ row' = [row EXCEPT ![on[r]] = "ended"] /\ exclusive' = exclusive
    BY <1>5 DEF EndCommit, At, Unsaid, IInv, HasSession
  <2>2. on[r] \notin list.sessions /\ list.hidden \subseteq list.sessions
    BY <2>1 DEF Told, IInv, TypeOK
  <2>3. CASE s = on[r]
    BY <1>0, <1>5, <2>1, <2>2, <2>3 DEF Agrees, Open, IInv, TypeOK
  <2>4. CASE s # on[r]
    BY <1>0, <1>5, <2>1, <2>4 DEF Agrees, Open, Promises, IInv, TypeOK
  <2>5. QED
    BY <2>3, <2>4
<1>6. CASE ReadRows(r) \/ ReadHash(r)
  <2>1. UNCHANGED tables /\ on' = on /\ pc[r] \in {"rows", "hash"} /\ pc'[r] \in {"hash", "emit"}
    BY <1>6 DEF ReadRows, ReadHash, At, Goto, IInv, TypeOK
  <2>2. QED
    BY <1>0, <2>1 DEF Promises, Agrees, Open, tables, EndCommit, At
<1>7. CASE Throw(r)
  <2>1. UNCHANGED tables /\ on[r] = NoSession
    BY <1>7 DEF Throw
  <2>2. pc[r] # "commit"
    BY <2>1, BroadcastConstants DEF IInv, HasSession, BroadcastConstants
  <2>3. QED
    BY <1>0, <2>1, <2>2 DEF Promises, Agrees, Open, tables, EndCommit, At
<1>8. CASE EndUpdate(r) /\ job[r]
  <2>1. UNCHANGED tables /\ pc[r] = "end"
    BY <1>8 DEF EndUpdate, At
  <2>2. QED
    BY <1>0, <2>1 DEF Promises, Agrees, Open, tables, EndCommit, At
<1>9. CASE BreakoutClear(r) /\ on[r] \notin exclusive
  <2>1. UNCHANGED tables /\ pc[r] = "unhide"
    BY <1>9 DEF BreakoutClear, At
  <2>2. QED
    BY <1>0, <2>1 DEF Promises, Agrees, Open, tables, EndCommit, At
<1>10. ~JobClear(r)
  BY DEF JobClear, Clear, Unsaid
<1>11. QED
  BY <1>2, <1>3, <1>4, <1>5, <1>6, <1>7, <1>8, <1>9, <1>10, WillTell DEF Act, Serve

LEMMA KeepsTold ==
    ASSUME IInv, EndsAlone, Known, ReadsCurrent, Told, NEW r \in Requests, Act(r)
    PROVE  Told'
<1>1. SUFFICES ASSUME ~stale' PROVE Told'
  BY DEF Told
<1>2. CASE Emit(r)
  BY <1>1, <1>2, EmitTells
<1>3. CASE ~Emit(r)
  <2>1. list' = list /\ ~stale
    BY <1>1, <1>3, NotSent DEF IInv
  <2>2. ASSUME NEW s \in announced' PROVE Agrees(s)' \/ \E q \in Requests : Promises(q, s)'
    <3>1. CASE Promises(r, s)'
      BY <3>1
    <3>2. CASE ~Promises(r, s)'
      <4>1. s \in announced
        <5>1. ~\E t \in Sessions : SocketJoin(r, t)
          BY <3>2, WillTell
        <5>2. QED
          BY <2>2, <5>1
             DEF Act, Submit, Serve, ListAsked, StartSession, VolunteerJoin, Breakout,
                 EndSession, StartHide, ClaimSession, JoinClear, BreakoutClear, JobClear,
                 Clear, EndUpdate, EndCommit, EndClear, ReadRows, ReadHash, Emit, Throw
      <4>2. Agrees(s) \/ \E q \in Requests : Promises(q, s)
        BY <2>1, <4>1 DEF Told
      <4>3. CASE Agrees(s) \/ (EndCommit(r) /\ s = on[r])
        BY <1>1, <1>3, <2>1, <3>2, <4>1, <4>3, StillTold
      <4>4. CASE ~Agrees(s) /\ ~(EndCommit(r) /\ s = on[r])
        <5>1. PICK q \in Requests : Promises(q, s)
          BY <4>2, <4>4
        <5>2. q # r
          BY <1>1, <1>3, <2>1, <3>2, <4>1, <4>4, <5>1, StillTold
        <5>3. Promises(q, s)'
          BY <5>1, <5>2, Others DEF Promises, IInv
        <5>4. QED
          BY <5>3
      <4>5. QED
        BY <4>3, <4>4
    <3>3. QED
      BY <3>1, <3>2
  <2>3. ASSUME NEW q \in Requests, pc'[q] = "commit", ~job'[q] PROVE on'[q] \notin list'.sessions
    <3>1. q # r
      BY <1>3, <2>3, OwnStep
    <3>2. pc[q] = "commit" /\ ~job[q] /\ on'[q] = on[q]
      BY <2>3, <3>1, Others, DirtyStays DEF IInv
    <3>3. QED
      BY <2>1, <3>2 DEF Told
  <2>4. QED
    BY <2>2, <2>3 DEF Told
<1>4. QED
  BY <1>2, <1>3

-----------------------------------------------------------------------------
\* The theorems.

LEMMA InitHolds == Init => IInv
<1>1. SUFFICES ASSUME Init PROVE IInv
  OBVIOUS
<1>2. TypeOK
  <2>1. EmptyList \in Lists /\ EmptyList.hidden \subseteq EmptyList.sessions
    BY DEF EmptyList, Lists
  <2>2. "idle" \in Labels /\ 0 \in 0..MaxFaults
    BY BroadcastConstants DEF Labels, BroadcastConstants
  <2>3. QED
    BY <1>1, <2>1, <2>2 DEF Init, TypeOK
<1>3. HasSession /\ Started /\ HidOnce /\ OnOpen
  BY <1>1, BroadcastConstants
     DEF Init, HasSession, Started, HidOnce, OnOpen, At, Hiding, EmptyList, BroadcastConstants
<1>4. ListsHide
  BY <1>1 DEF Init, ListsHide, Hides, EmptyList, At
<1>5. QED
  BY <1>2, <1>3, <1>4 DEF IInv

LEMMA StepHolds == IInv /\ [Next]_vars => IInv'
<1>1. ASSUME IInv, NEW r \in Requests, Act(r) PROVE IInv'
  BY <1>1, StepTyped, KeepsHasSession, KeepsStarted, KeepsHidOnce, KeepsOnOpen,
     KeepsListsHide DEF IInv
<1>2. ASSUME IInv, UNCHANGED vars PROVE IInv'
  BY <1>2 DEF IInv, TypeOK, HasSession, Started, HidOnce, OnOpen, ListsHide, Hides, Hiding,
              At, vars, tables, request
<1>3. QED
  BY <1>1, <1>2 DEF Next, Act

LEMMA AlwaysIInv == Spec => []IInv
BY InitHolds, StepHolds, PTL DEF Spec

\* Every variable keeps its type: what a request reads and emits is a list, and a
\* list hides only sessions that are in it.
THEOREM TypeCorrect == Spec => []TypeOK
<1>1. IInv => TypeOK
  BY DEF IInv
<1>2. QED
  BY <1>1, AlwaysIInv, PTL

\* However the broadcasts overtake one another, the hash is cleared, the jobs run
\* and calls throw: no list shows a session that is exclusive as open to everybody,
\* but one whose broadcast read the hash between the COMMIT and the HSET of
\* startSession (SessionService.startSession, SocketService.updateSessionList).
THEOREM ExclusiveStaysHidden == Spec => []ExclusiveIsHidden
<1>1. IInv => ExclusiveIsHidden
  BY DEF IInv, ListsHide, Hides, ExclusiveIsHidden
<1>2. QED
  BY <1>1, AlwaysIInv, PTL

LEMMA CurrentInit == Init => CurrentInv
BY BroadcastConstants
   DEF Init, CurrentInv, EndsAlone, Known, Hiding, At, ReadsCurrent, Told, BroadcastConstants

LEMMA CurrentStep == IInv /\ CurrentInv /\ [Next]_vars => CurrentInv'
<1>1. ASSUME IInv, CurrentInv, NEW r \in Requests, Act(r) PROVE CurrentInv'
  BY <1>1, KeepsEndsAlone, KeepsKnown, KeepsReadsCurrent, KeepsTold DEF CurrentInv
<1>2. ASSUME CurrentInv, UNCHANGED vars PROVE CurrentInv'
  BY <1>2 DEF CurrentInv, EndsAlone, Known, Hiding, At, ReadsCurrent, Unfulfilled, Open, Told,
              Agrees, Promises, vars, tables, request
<1>3. QED
  BY <1>1, <1>2 DEF Next, Act

\* Although nobody orders the broadcasts: when nothing is under way, and neither a
\* broadcast that was overtaken nor a job or a throw had the last word, volunteers see
\* exactly the announced sessions that are open, and which of them are exclusive
\* (SocketService.updateSessionList, SessionService.endSession).
THEOREM QuietListIsCurrent == Spec => []ListIsCurrent
<1>1. IInv /\ CurrentInv => ListIsCurrent
  <2>1. SUFFICES ASSUME IInv, CurrentInv, \A r \in Requests : At(r, "idle"), ~stale
                 PROVE  /\ list.sessions \cap announced = {s \in announced : Open(s)}
                        /\ list.hidden \cap announced = {s \in announced : Open(s)} \cap exclusive
    BY DEF ListIsCurrent
  <2>2. \A s \in announced : Agrees(s)
    BY <2>1 DEF CurrentInv, Told, Promises, At
  <2>3. QED
    BY <2>2 DEF Agrees
<1>2. QED
  BY <1>1, AlwaysIInv, CurrentInit, CurrentStep, PTL DEF Spec
=============================================================================
