------------------------ MODULE SessionEditors_proofs ------------------------
(***************************************************************************)
(* TLAPS proofs about the editors of a session, in four parts.             *)
(*                                                                         *)
(* 1. QuillDoc, the version 1 document: the types, and, as long as nobody  *)
(*    who composes dies or outlives the lock, that no delta is lost, that  *)
(*    the stored document is complete, and that a second run of the job    *)
(*    never replaces it with less.                                         *)
(* 2. Whiteboard: no piece is appended twice, the document is whole until  *)
(*    it is uploaded, and nothing that was acknowledged is lost.           *)
(* 3. QuillUpdates: no version 2 edit from before the end is lost, and a   *)
(*    session that begins with version 1 takes the steps of QuillDoc until *)
(*    it is given updates.                                                 *)
(* 4. SessionEditors: the session of either editor keeps all of that.      *)
(***************************************************************************)
EXTENDS SessionEditors, SequenceTheorems, FiniteSetTheorems, TLAPS

-----------------------------------------------------------------------------
\* Part 1, QuillDoc: the inductive invariant.

\* What holds whatever goes wrong.
Basics ==
    /\ ~ended => pc[Job] = "wait" /\ atEnd = 0
    /\ stored # None => ended
    /\ atEnd <= pushed
    /\ pushed = 0 => queue = <<>>

\* The lock is held where a process relies on it.
Held == \A p \in Procs : Relies(p) => lock = p

Working(p) == pc[p] \in {"pop", "save"}
Whole(d)   == d \o queue = Upto(pushed)

\* Until a stored document is deleted, every delta is in the list or in the document,
\* which is in the hands of who works on it, or under its key.
Kept ==
    stored = None \/ doc # None =>
        /\ \A p \in Procs : Working(p) => Whole(hand[p])
        /\ doc # None /\ (\A p \in Procs : ~Working(p)) => Whole(doc)

\* What a process has in its hands and what is under the key.
InHand ==
    \A p \in Procs :
        /\ pc[p] = "pop" /\ ~took[p] /\ doc # None => hand[p] = doc
        /\ pc[p] = "save" => took[p]
        /\ pc[p] = "release" /\ doc # None => hand[p] = doc
        /\ pc[p] = "create" => doc = None
        /\ pc[p] \in {"pop", "save", "release"} /\ (p = Job \/ ~ended) => doc # None

\* Somebody may have a document to edit: then there is one, until it is stored.
Began == pushed > 0 \/ (\E p \in Procs : pc[p] = "push") \/ (~ended /\ opened # {})
Exists == Began /\ stored = None => doc # None /\ ~Deleting

\* A document that begins with all deltas of the session, and has none that is not.
Complete(d) == d = Upto(Len(d)) /\ atEnd <= Len(d) /\ Len(d) <= pushed

\* The document and the hands have no less than d.
Beyond(d) ==
    /\ doc # None => Len(d) <= Len(doc)
    /\ \A p \in Procs : Working(p) => Len(d) <= Len(hand[p])

\* What the job has read, and what it has stored.
Stored ==
    /\ stored # None => Complete(stored)
    /\ stored # None => Beyond(stored)
    /\ pc[Job] \in {"save", "release", "store"} =>
          /\ Complete(hand[Job])
          /\ stored # None => Len(stored) <= Len(hand[Job])
    /\ pc[Job] = "store" => Beyond(hand[Job])
    /\ stored # None /\ pc[Job] = "delete_deltas" => doc = None

Unharmed == Held /\ Kept /\ InHand /\ Exists /\ Stored

QuillInv == TypeOK /\ Basics /\ (harmed = {} => Unharmed)

-----------------------------------------------------------------------------
\* Documents as sequences.

\* Upto(n) is the sequence 1, ..., n.
LEMMA UptoLen ==
    ASSUME NEW n \in Nat
    PROVE  Upto(n) \in Seq(Nat) /\ Len(Upto(n)) = n /\ \A i \in 1..n : Upto(n)[i] = i
  BY DEF Upto

\* Push: a list that completes a document still does with one more delta.
LEMMA AppendWhole ==
    ASSUME NEW S, NEW s \in Seq(S), NEW q \in Seq(S), NEW n \in Nat, NEW m \in S, m = n + 1,
           s \o q = Upto(n)
    PROVE  s \o Append(q, m) = Upto(m)
<1>1. Len(s) + Len(q) = n
  BY UptoLen, ConcatProperties
<1>2. Append(q, m) \in Seq(S) /\ Len(Append(q, m)) = Len(q) + 1
  BY AppendProperties
<1>3. s \o Append(q, m) \in Seq(S) /\ Len(s \o Append(q, m)) = n + 1
  BY <1>1, <1>2, ConcatProperties
<1>4. ASSUME NEW i \in 1..(n + 1) PROVE (s \o Append(q, m))[i] = i
  <2>1. CASE i <= Len(s)
    <3>1. (s \o q)[i] = i BY <1>1, <2>1, UptoLen
    <3> QED BY <2>1, <3>1, <1>1, <1>2
  <2>2. CASE i > Len(s) /\ i <= n
    <3>1. (s \o q)[i] = i BY <1>1, <2>2, UptoLen
    <3>2. (s \o q)[i] = q[i - Len(s)] BY <1>1, <2>2
    <3>3. (s \o Append(q, m))[i] = Append(q, m)[i - Len(s)] BY <1>1, <1>2, <2>2
    <3> QED BY <1>1, <2>2, <3>1, <3>2, <3>3
  <2>3. CASE i = n + 1
    <3>1. Append(q, m)[Len(q) + 1] = n + 1 BY AppendProperties
    <3>2. (s \o Append(q, m))[i] = Append(q, m)[i - Len(s)] BY <1>1, <1>2, <2>3
    <3> QED BY <1>1, <2>3, <3>1, <3>2
  <2>4. i \in Int /\ Len(s) \in Nat /\ i <= n + 1 OBVIOUS
  <2>5. i <= Len(s) \/ (i > Len(s) /\ i <= n) \/ i = n + 1 BY <2>4
  <2> QED BY <2>1, <2>2, <2>3, <2>5
<1> DEFINE t == s \o Append(q, m)
<1>5. t \in Seq(S) /\ Len(t) = n + 1 BY <1>3
<1>6. \A i \in 1..(n + 1) : t[i] = i BY <1>4
<1> HIDE DEF t
<1>7. t = [i \in 1..(n + 1) |-> i]
  BY <1>5, <1>6
<1> QED BY <1>7 DEF Upto, t

\* Pop: a delta moves from the list into the document.
LEMMA MoveHead ==
    ASSUME NEW S, NEW s \in Seq(S), NEW q \in Seq(S), q # <<>>
    PROVE  Append(s, Head(q)) \o Tail(q) = s \o q
<1>1. Append(s, Head(q)) \in Seq(S) /\ Len(Append(s, Head(q))) = Len(s) + 1
  BY AppendProperties, HeadTailProperties
<1>2. Tail(q) \in Seq(S) /\ Len(Tail(q)) = Len(q) - 1 /\ Len(q) > 0
  BY HeadTailProperties, EmptySeq
<1>3. Append(s, Head(q)) \o Tail(q) \in Seq(S) /\ s \o q \in Seq(S)
      /\ Len(Append(s, Head(q)) \o Tail(q)) = Len(s \o q) /\ Len(s \o q) = Len(s) + Len(q)
  BY <1>1, <1>2, ConcatProperties
<1>4. ASSUME NEW i \in 1..Len(s \o q) PROVE (Append(s, Head(q)) \o Tail(q))[i] = (s \o q)[i]
  <2>1. CASE i <= Len(s) BY <1>1, <1>2, <1>3, <2>1
  <2>2. CASE i = Len(s) + 1 BY <1>1, <1>2, <1>3, <2>2
  <2>3. CASE i > Len(s) + 1 BY <1>1, <1>2, <1>3, <2>3
  <2> QED BY <2>1, <2>2, <2>3, <1>3
<1> QED BY <1>3, <1>4, SeqEqual

\* A document completed by the list holds the first deltas.
LEMMA WholeFront ==
    ASSUME NEW S, NEW s \in Seq(S), NEW q \in Seq(S), NEW n \in Nat, s \o q = Upto(n)
    PROVE  s = Upto(Len(s)) /\ Len(s) <= n
<1>1. Len(s) + Len(q) = n /\ Len(s) \in Nat /\ Len(q) \in Nat
  BY UptoLen, ConcatProperties
<1>2. ASSUME NEW i \in 1..Len(s) PROVE s[i] = i
  <2>1. (s \o q)[i] = i BY <1>1, UptoLen
  <2> QED BY <2>1, <1>1
<1>3. Len(Upto(Len(s))) = Len(s) /\ Upto(Len(s)) \in Seq(Nat) /\ \A i \in 1..Len(s) : Upto(Len(s))[i] = i
  BY <1>1, UptoLen
<1>4. s \in [1..Len(s) -> S] BY <1>1
<1> QED BY <1>1, <1>2, <1>4 DEF Upto

\* Fewer first deltas are a prefix of more.
LEMMA UptoPrefix ==
    ASSUME NEW a \in Nat, NEW b \in Nat, a <= b
    PROVE  IsPrefix(Upto(a), Upto(b))
<1>1. Len(Upto(a)) = a /\ Len(Upto(b)) = b BY UptoLen
<1>2. SubSeq(Upto(a), 1, a) = Upto(a) BY <1>1, UptoLen DEF Upto
<1>3. SubSeq(Upto(b), 1, a) = Upto(a) BY <1>1, UptoLen DEF Upto
<1> QED BY <1>1, <1>2, <1>3 DEF IsPrefix

-----------------------------------------------------------------------------
\* Types.

\* What the constants are: the job is not a socket or a bot, and None is neither a
\* process nor a document.
LEMMA Constants ==
    /\ Job \in Procs /\ Job \in Readers /\ Job \notin Sockets /\ Job \notin Bots
    /\ None \notin Procs /\ None \notin Docs /\ <<>> \in Docs
    /\ Sockets \subseteq Procs /\ Bots \subseteq Procs /\ Bots \subseteq Readers
    /\ Readers \subseteq Procs /\ Sockets \cap Readers = {}
  BY ConstantsOK, EmptySeq DEF Procs, Readers, Docs

\* A delta that is appended, or moved from the list into a document, leaves documents.
LEMMA DocSteps ==
    /\ \A d \in Docs, n \in 1..MaxDeltas : Append(d, n) \in Docs
    /\ \A d \in Docs : d # <<>> => Head(d) \in 1..MaxDeltas /\ Tail(d) \in Docs
<1>1. ASSUME NEW d \in Docs, NEW n \in 1..MaxDeltas PROVE Append(d, n) \in Docs
  BY <1>1, AppendProperties DEF Docs
<1>2. ASSUME NEW d \in Docs, d # <<>> PROVE Head(d) \in 1..MaxDeltas /\ Tail(d) \in Docs
  BY <1>2, HeadTailProperties DEF Docs
<1> QED BY <1>1, <1>2

\* A delta that is appended leaves a document that was complete with the list so.
LEMMA OneMore ==
    ASSUME NEW d \in Docs, NEW q \in Docs, NEW n \in Nat, n < MaxDeltas, d \o q = Upto(n)
    PROVE  d \o Append(q, n + 1) = Upto(n + 1)
<1> DEFINE S == 1..MaxDeltas
           m == n + 1
<1>1. d \in Seq(S) /\ q \in Seq(S) BY DEF Docs
<1>2. m \in S /\ m = n + 1 BY ConstantsOK
<1> HIDE DEF S, m
<1>3. d \o Append(q, m) = Upto(m) BY <1>1, <1>2, AppendWhole
<1> QED BY <1>3 DEF m

LEMMA TypeInit == Init => TypeOK
<1> SUFFICES ASSUME Init PROVE TypeOK OBVIOUS
<1>1. doc \in Docs \cup {None} /\ queue \in Docs /\ stored \in Docs \cup {None}
  BY Constants DEF Init
<1>2. pc \in [Procs -> Labels] BY DEF Init, Labels
<1>3. hand \in [Procs -> Docs] BY Constants DEF Init
<1>4. took \in [Procs -> BOOLEAN] /\ retries \in [Readers -> 0..MaxRetries]
  BY ConstantsOK DEF Init
<1>5. /\ lock \in Procs \cup {None} /\ ended \in BOOLEAN /\ opened \subseteq Sockets
      /\ harmed \subseteq {"crash", "lapse", "gave_up", "revived", "seeded"}
  BY DEF Init
<1>6. faults \in 0..MaxFaults /\ pushed \in 0..MaxDeltas /\ atEnd \in 0..MaxDeltas
  BY ConstantsOK DEF Init
<1> QED BY <1>1, <1>2, <1>3, <1>4, <1>5, <1>6 DEF TypeOK

LEMMA TypeSocketStep ==
    ASSUME TypeOK, NEW p \in Sockets, RequestState(p) \/ TransmitDelta(p) \/ Push(p) \/ Create(p)
    PROVE  TypeOK'
<1> USE ConstantsOK, Constants
<1>1. CASE RequestState(p) BY <1>1 DEF TypeOK, RequestState, Goto, At, Labels
<1>2. CASE TransmitDelta(p) BY <1>2 DEF TypeOK, TransmitDelta, Goto, At, Labels
<1>3. CASE Push(p)
  <2>1. pushed + 1 \in 1..MaxDeltas BY <1>3 DEF TypeOK, Push
  <2>2. Append(queue, pushed + 1) \in Docs BY <2>1, DocSteps DEF TypeOK
  <2> QED BY <1>3, <2>1, <2>2 DEF TypeOK, Push, Goto, At, Labels
<1>4. CASE Create(p) BY <1>4 DEF TypeOK, Create, Goto, At, Labels
<1> QED BY <1>1, <1>2, <1>3, <1>4

LEMMA TypeComposeStep ==
    ASSUME TypeOK, NEW p \in Procs,
           \/ Acquire(p) \/ Locked(p) \/ Get(p) \/ Pop(p) \/ Save(p) \/ Release(p)
    PROVE  TypeOK'
<1> USE ConstantsOK, Constants
<1>1. CASE Acquire(p) BY <1>1 DEF TypeOK, Acquire, Goto, At, Labels
<1>2. CASE Locked(p)
  <2>1. pc' \in [Procs -> Labels] BY <1>2 DEF TypeOK, Locked, Goto, Labels, WithoutDoc
  <2>2. retries' \in [Readers -> 0..MaxRetries]
    <3>1. CASE UNCHANGED retries BY <3>1 DEF TypeOK
    <3>2. CASE p \in Readers /\ retries[p] < MaxRetries /\ retries' = [retries EXCEPT ![p] = @ + 1]
      <4>1. retries[p] + 1 \in 0..MaxRetries BY <3>2 DEF TypeOK
      <4> QED BY <3>2, <4>1 DEF TypeOK
    <3> QED BY <1>2, <3>1, <3>2 DEF Locked
  <2>3. harmed' \subseteq harmed \cup {"gave_up"} BY <1>2 DEF Locked
  <2> QED BY <1>2, <2>1, <2>2, <2>3 DEF TypeOK, Locked
<1>3. CASE Get(p)
  <2>1. (IF doc = None THEN <<>> ELSE doc) \in Docs BY DEF TypeOK
  <2>2. hand' \in [Procs -> Docs] BY <1>3, <2>1 DEF TypeOK, Get
  <2>3. pc' \in [Procs -> Labels] BY <1>3 DEF TypeOK, Get, Goto, Labels, WithoutDoc
  <2>4. took' \in [Procs -> BOOLEAN] BY <1>3 DEF TypeOK, Get
  <2> QED BY <1>3, <2>2, <2>3, <2>4 DEF TypeOK, Get
<1>4. CASE Pop(p)
  <2>1. CASE queue # <<>>
    <3>1. Append(hand[p], Head(queue)) \in Docs /\ Tail(queue) \in Docs
      BY <2>1, DocSteps DEF TypeOK
    <3>2. hand' \in [Procs -> Docs]
      <4>1. hand' = [hand EXCEPT ![p] = Append(hand[p], Head(queue))] BY <1>4, <2>1 DEF Pop
      <4>2. hand \in [Procs -> Docs] BY DEF TypeOK
      <4> QED BY <3>1, <4>1, <4>2
    <3>3. took' \in [Procs -> BOOLEAN]
      <4>1. took' = [took EXCEPT ![p] = TRUE] BY <1>4, <2>1 DEF Pop
      <4> QED BY <4>1 DEF TypeOK
    <3> QED BY <1>4, <2>1, <3>1, <3>2, <3>3 DEF TypeOK, Pop
  <2>2. CASE queue = <<>> BY <1>4, <2>2 DEF TypeOK, Pop, Goto, At, Labels
  <2> QED BY <2>1, <2>2
<1>5. CASE Save(p) BY <1>5 DEF TypeOK, Save, Goto, At, Labels
<1>6. CASE Release(p)
  <2>1. pc' \in [Procs -> Labels] BY <1>6 DEF TypeOK, Release, Goto, Labels, WithoutDoc
  <2>2. opened' \subseteq Sockets /\ lock' \in Procs \cup {None} BY <1>6 DEF TypeOK, Release
  <2> QED BY <1>6, <2>1, <2>2 DEF TypeOK, Release
<1> QED BY <1>1, <1>2, <1>3, <1>4, <1>5, <1>6

LEMMA TypeReadV1 ==
    ASSUME TypeOK, NEW p \in Readers, ReadV1(p)
    PROVE  TypeOK'
  BY ConstantsOK, Constants DEF TypeOK, ReadV1, Goto, At, Labels

LEMMA TypeJobStep ==
    ASSUME TypeOK, Store \/ DeleteDoc \/ DeleteDeltas \/ DeleteFails \/ JobCallFails
    PROVE  TypeOK'
<1> USE ConstantsOK, Constants
<1>1. CASE Store BY <1>1 DEF TypeOK, Store, Goto, At, Labels
<1>2. CASE DeleteDoc BY <1>2 DEF TypeOK, DeleteDoc, Goto, At, Labels
<1>3. CASE DeleteDeltas BY <1>3 DEF TypeOK, DeleteDeltas, Goto, At, Labels
<1>4. CASE DeleteFails BY <1>4 DEF TypeOK, DeleteFails, Goto, At, Labels
<1>5. CASE JobCallFails BY <1>5 DEF TypeOK, JobCallFails, Goto, At, Labels
<1> QED BY <1>1, <1>2, <1>3, <1>4, <1>5

LEMMA TypeEnvironment ==
    ASSUME TypeOK, EndSession \/ Expire \/ (\E p \in Procs : Crash(p))
    PROVE  TypeOK'
<1> USE ConstantsOK, Constants
<1>1. CASE EndSession BY <1>1 DEF TypeOK, EndSession, locals
<1>2. CASE Expire BY <1>2 DEF TypeOK, Expire, locals
<1>3. ASSUME NEW p \in Procs, Crash(p) PROVE TypeOK'
  BY <1>3 DEF TypeOK, Crash, Goto, At, Labels
<1> QED BY <1>1, <1>2, <1>3

\* Every step keeps the types.
LEMMA TypeStep == TypeOK /\ [Next]_vars => TypeOK'
<1> SUFFICES ASSUME TypeOK, [Next]_vars PROVE TypeOK' OBVIOUS
<1>1. ASSUME NEW p \in Sockets, RequestState(p) \/ TransmitDelta(p) \/ SocketStep(p)
      PROVE  TypeOK'
  BY <1>1, TypeSocketStep, TypeComposeStep, Constants DEF SocketStep
<1>2. ASSUME NEW b \in Bots, BotAsked(b) \/ GetV1Step(b) PROVE TypeOK'
  BY <1>2, TypeReadV1, TypeComposeStep, Constants DEF BotAsked, GetV1Step
<1>3. CASE JobStep
  BY <1>3, TypeReadV1, TypeComposeStep, TypeJobStep, Constants DEF JobStep, JobStart, GetV1Step
<1>4. CASE DeleteFails \/ JobCallFails BY <1>4, TypeJobStep
<1>5. CASE EndSession \/ Expire \/ (\E p \in Procs : Crash(p)) BY <1>5, TypeEnvironment
<1>6. CASE UNCHANGED vars BY <1>6 DEF TypeOK, vars, locals
<1> QED BY <1>1, <1>2, <1>3, <1>4, <1>5, <1>6 DEF Next

\* Every variable has its type in every reachable state, whatever fails.
THEOREM QuillTypeCorrect == Spec => []TypeOK
<1>1. Init => TypeOK BY TypeInit
<1>2. TypeOK /\ [Next]_vars => TypeOK' BY TypeStep
<1> QED BY <1>1, <1>2, PTL DEF Spec

-----------------------------------------------------------------------------
\* What holds whatever goes wrong.

LEMMA BasicsStep == TypeOK /\ Basics /\ [Next]_vars => Basics'
<1> SUFFICES ASSUME TypeOK, Basics, [Next]_vars PROVE Basics' OBVIOUS
<1> USE Constants
<1>1. ASSUME NEW p \in Sockets, RequestState(p) \/ TransmitDelta(p) \/ Create(p) PROVE Basics'
  BY <1>1 DEF TypeOK, Basics, RequestState, TransmitDelta, Create, Goto
<1>2. ASSUME NEW p \in Sockets, Push(p) PROVE Basics'
  BY <1>2 DEF TypeOK, Basics, Push, Goto
<1>3. ASSUME NEW p \in Procs, Acquire(p) \/ Locked(p) \/ Get(p) \/ Save(p) \/ Release(p)
      PROVE Basics'
  BY <1>3 DEF TypeOK, Basics, Acquire, Locked, Get, Save, Release, Goto, At, WithoutDoc
<1>4. ASSUME NEW p \in Procs, Pop(p) PROVE Basics'
  BY <1>4 DEF TypeOK, Basics, Pop, Goto, At
<1>5. ASSUME NEW b \in Bots, BotAsked(b) PROVE Basics'
  BY <1>5 DEF TypeOK, Basics, BotAsked, ReadV1, Goto
<1>6. CASE JobStart BY <1>6 DEF TypeOK, Basics, JobStart, ReadV1, Goto, At
<1>7. CASE Store \/ DeleteDoc \/ DeleteDeltas \/ DeleteFails \/ JobCallFails
  BY <1>7 DEF TypeOK, Basics, Store, DeleteDoc, DeleteDeltas, DeleteFails, JobCallFails,
              Goto, At
<1>8. CASE EndSession \/ Expire
  BY <1>8 DEF TypeOK, Basics, EndSession, Expire, locals
<1>9. ASSUME NEW p \in Procs, Crash(p) PROVE Basics'
  BY <1>9 DEF TypeOK, Basics, Crash, Goto
<1>10. CASE UNCHANGED vars BY <1>10 DEF Basics, vars, locals
<1> QED
  BY <1>1, <1>2, <1>3, <1>4, <1>5, <1>6, <1>7, <1>8, <1>9, <1>10
  DEF Next, SocketStep, GetV1Step, JobStep

-----------------------------------------------------------------------------
\* What holds as long as nothing has gone wrong.

\* Two processes never rely on the lock at once.
LEMMA Alone ==
    ASSUME Held, NEW p \in Procs, Relies(p), NEW q \in Procs, q # p
    PROVE  ~Relies(q) /\ ~Working(q)
  BY DEF Held, Relies, Working

\* Steps that move a handler which does not work on the document.
LEMMA CalmKeeps ==
    ASSUME TypeOK, Basics, Unharmed, harmed' = {}, NEW p \in Procs,
           \/ p \in Sockets /\ (RequestState(p) \/ TransmitDelta(p))
           \/ Acquire(p) \/ Locked(p)
    PROVE  Unharmed'
<1> USE Constants
<1>1. Held'
  BY DEF Held, Relies, Unharmed, TypeOK, RequestState, TransmitDelta, Acquire, Locked, At, Goto,
         WithoutDoc
<1>2. Kept'
  <2>1. \A q \in Procs : Working(q)' = Working(q)
    BY DEF Working, TypeOK, RequestState, TransmitDelta, Acquire, Locked, At, Goto, WithoutDoc
  <2>3. UNCHANGED <<doc, queue, hand, pushed, stored>>
    BY DEF RequestState, TransmitDelta, Acquire, Locked
  <2> QED BY <2>1, <2>3 DEF Kept, Whole, Unharmed
<1>3. InHand'
  BY DEF InHand, Unharmed, TypeOK, RequestState, TransmitDelta, Acquire, Locked, At, Goto,
         WithoutDoc
<1>4. Exists'
  BY DEF Exists, Began, Deleting, Unharmed, TypeOK, Basics, RequestState, TransmitDelta, Acquire,
         Locked, At, Goto, WithoutDoc
<1>5. Stored'
  BY DEF Stored, Complete, Beyond, Working, Unharmed, TypeOK, RequestState, TransmitDelta,
         Acquire, Locked, At, Goto, WithoutDoc
<1> QED BY <1>1, <1>2, <1>3, <1>4, <1>5 DEF Unharmed

LEMMA PushKeeps ==
    ASSUME TypeOK, Basics, Unharmed, NEW p \in Sockets, Push(p)
    PROVE  Unharmed'
<1> USE Constants
<1>1. Held' BY DEF Held, Relies, Unharmed, TypeOK, Push, At, Goto
<1>2. Kept'
  <2>1. ASSUME NEW d \in Docs, Whole(d) PROVE Whole(d)'
    <3>1. queue \in Docs /\ pushed \in Nat /\ pushed < MaxDeltas BY DEF TypeOK, Push
    <3>2. d \o queue = Upto(pushed) BY <2>1 DEF Whole
    <3>3. d \o Append(queue, pushed + 1) = Upto(pushed + 1)
      BY <3>1, <3>2, OneMore
    <3> QED BY <3>3 DEF Whole, Push
  <2> QED BY <2>1 DEF Kept, Working, Unharmed, TypeOK, Push, At, Goto
<1>3. InHand' BY DEF InHand, Unharmed, TypeOK, Push, At, Goto
<1>4. Exists' BY DEF Exists, Began, Deleting, Unharmed, TypeOK, Push, At, Goto
<1>5. Stored'
  BY DEF Stored, Complete, Beyond, Working, Unharmed, TypeOK, Docs, Push, At, Goto
<1> QED BY <1>1, <1>2, <1>3, <1>4, <1>5 DEF Unharmed

LEMMA CreateKeeps ==
    ASSUME TypeOK, Basics, Unharmed, harmed' = {}, NEW p \in Sockets, Create(p)
    PROVE  Unharmed'
<1> USE Constants
<1>1. stored = None /\ doc = None BY DEF Create, Unharmed, InHand, At
<1>2. pushed = 0 /\ queue = <<>> /\ ~Began
  BY <1>1 DEF Unharmed, Exists, Began, TypeOK, Basics
<1>3. \A q \in Procs : q # p => ~Relies(q) /\ ~Working(q)
  BY Alone DEF Unharmed, Create, At, Relies
<1>4. Held' BY <1>3 DEF Held, Relies, Unharmed, TypeOK, Create, At, Goto
<1>5. Kept'
  <2>1. Whole(<<>>)' BY <1>2 DEF Whole, Upto, Create
  <2> QED BY <1>3, <2>1 DEF Kept, Working, TypeOK, Create, At, Goto
<1>6. InHand' BY <1>3 DEF InHand, Relies, Unharmed, TypeOK, Create, At, Goto
<1>7. Exists' BY <1>1, <1>2 DEF Exists, Began, Deleting, Basics, TypeOK, Create, At, Goto
<1>8. Stored'
  BY <1>1, <1>2, <1>3 DEF Stored, Complete, Beyond, Relies, Working, Unharmed, TypeOK, Docs,
                          Create, At, Goto
<1> QED BY <1>4, <1>5, <1>6, <1>7, <1>8 DEF Unharmed

LEMMA GetKeeps ==
    ASSUME TypeOK, Basics, Unharmed, NEW p \in Procs, Get(p)
    PROVE  Unharmed'
<1> USE Constants
<1>1. \A q \in Procs : q # p => ~Relies(q) /\ ~Working(q)
  BY Alone DEF Unharmed, Get, At, Relies
<1>2. lock = p /\ ~Working(p) /\ pc[p] = "get" BY DEF Unharmed, Held, Get, At, Relies, Working
<1>3. \A q \in Procs : q # p => pc'[q] = pc[q] /\ hand'[q] = hand[q] /\ took'[q] = took[q]
  BY DEF TypeOK, Get, Goto
<1>4. /\ doc # None => pc'[p] = "pop" /\ hand'[p] = doc /\ ~took'[p]
      /\ doc = None => pc'[p] = IF p \in Readers THEN WithoutDoc(p) ELSE "create"
      /\ UNCHANGED <<doc, queue, lock, ended, stored, opened, pushed, atEnd>>
  BY DEF TypeOK, Get, Goto
<1>5. Held' BY <1>1, <1>2, <1>3, <1>4 DEF Held, Relies
<1>6. Kept' BY <1>1, <1>2, <1>3, <1>4 DEF Kept, Whole, Working, Unharmed, WithoutDoc
<1>7. InHand' BY <1>1, <1>2, <1>3, <1>4 DEF InHand, Relies, Unharmed, WithoutDoc
<1>8. Exists' BY <1>2, <1>3, <1>4 DEF Exists, Began, Deleting, Unharmed, WithoutDoc
<1>9. Stored'
  BY <1>1, <1>2, <1>3, <1>4 DEF Stored, Complete, Beyond, Working, Unharmed, WithoutDoc
<1> QED BY <1>5, <1>6, <1>7, <1>8, <1>9 DEF Unharmed

LEMMA PopKeeps ==
    ASSUME TypeOK, Basics, Unharmed, NEW p \in Procs, Pop(p)
    PROVE  Unharmed'
<1> USE Constants
<1>1. \A q \in Procs : q # p => ~Relies(q) /\ ~Working(q)
  BY Alone DEF Unharmed, Pop, At, Relies
<1>2. lock = p /\ Working(p) /\ pc[p] = "pop" BY DEF Unharmed, Held, Pop, At, Relies, Working
<1>3. \A q \in Procs : q # p => pc'[q] = pc[q] /\ hand'[q] = hand[q] /\ took'[q] = took[q]
  BY DEF TypeOK, Pop, Goto
<1>4. UNCHANGED <<doc, lock, ended, stored, opened, pushed, atEnd>> BY DEF Pop
<1>5. CASE queue # <<>>
  <2>1. /\ pc' = pc /\ took'[p] = TRUE /\ queue' = Tail(queue)
        /\ hand'[p] = Append(hand[p], Head(queue))
    BY <1>5 DEF TypeOK, Pop
  <2>2. hand[p] \in Seq(1..MaxDeltas) /\ queue \in Seq(1..MaxDeltas) BY DEF TypeOK, Docs
  <2>3. Append(hand[p], Head(queue)) \o Tail(queue) = hand[p] \o queue
    BY <1>5, <2>2, MoveHead
  <2>4. Len(hand'[p]) = Len(hand[p]) + 1 /\ Len(hand[p]) \in Nat
    BY <1>5, <2>1, <2>2, AppendProperties, HeadTailProperties
  <2>5. Held' BY <1>4, <2>1 DEF Held, Relies, Unharmed
  <2>6. Kept' BY <1>1, <1>2, <1>3, <1>4, <2>1, <2>3 DEF Kept, Whole, Working, Unharmed
  <2>7. InHand' BY <1>1, <1>2, <1>3, <1>4, <2>1 DEF InHand, Relies, Unharmed
  <2>8. Exists' BY <1>4, <2>1 DEF Exists, Began, Deleting, Unharmed
  <2>9. Stored'
    <3>1. (stored # None => Complete(stored))' BY <1>4 DEF Stored, Complete, Unharmed
    <3>2. (stored # None => Beyond(stored))'
      <4>1. CASE stored \in Docs
        BY <1>1, <1>2, <1>3, <1>4, <2>1, <2>4, <4>1
        DEF Stored, Beyond, Working, Unharmed, Docs
      <4> QED BY <4>1, <1>4 DEF TypeOK
    <3>3. (pc[Job] \in {"save", "release", "store"} =>
              Complete(hand[Job]) /\ (stored # None => Len(stored) <= Len(hand[Job])))'
      BY <1>2, <1>3, <1>4, <2>1 DEF Stored, Complete, Unharmed
    <3>4. (pc[Job] = "store" => Beyond(hand[Job]))'
      <4> SUFFICES ASSUME pc[Job] = "store" PROVE Beyond(hand[Job])' BY <2>1
      <4>1. p # Job /\ hand'[Job] = hand[Job] /\ Len(hand[Job]) \in Nat
        BY <1>2, <1>3 DEF TypeOK, Docs
      <4> QED BY <1>1, <1>2, <1>3, <1>4, <2>1, <2>4, <4>1 DEF Stored, Beyond, Working, Unharmed
    <3>5. (stored # None /\ pc[Job] = "delete_deltas" => doc = None)'
      BY <1>2, <1>3, <1>4, <2>1 DEF Stored, Unharmed
    <3> QED BY <3>1, <3>2, <3>3, <3>4, <3>5 DEF Stored
  <2> QED BY <2>5, <2>6, <2>7, <2>8, <2>9 DEF Unharmed
<1>6. CASE queue = <<>>
  <2>1. /\ pc'[p] = IF took[p] THEN "save" ELSE "release"
        /\ UNCHANGED <<queue, hand, took>>
    BY <1>6 DEF TypeOK, Pop, Goto
  <2>2. stored = None \/ doc # None => hand[p] = Upto(pushed)
    BY <1>2, <1>6 DEF TypeOK, Docs, Unharmed, Kept, Whole
  <2>3. Held' BY <1>1, <1>2, <1>3, <1>4, <2>1 DEF Held, Relies
  <2>4. Kept'
    BY <1>1, <1>2, <1>3, <1>4, <2>1 DEF Kept, Whole, Working, InHand, Unharmed
  <2>5. InHand' BY <1>1, <1>2, <1>3, <1>4, <2>1 DEF InHand, Relies, Unharmed
  <2>6. Exists' BY <1>2, <1>3, <1>4, <2>1 DEF Exists, Began, Deleting, Unharmed
  <2>7. p = Job => Complete(hand[Job])
    BY <1>2, <2>2, UptoLen DEF Complete, TypeOK, Basics, InHand, Unharmed
  <2>8. stored # None /\ p = Job => Len(stored) <= Len(hand[Job])
    BY <1>2 DEF Stored, Beyond, Unharmed
  <2>9. Stored'
    BY <1>1, <1>2, <1>3, <1>4, <2>1, <2>7, <2>8
    DEF Stored, Complete, Beyond, Working, Unharmed
  <2> QED BY <2>3, <2>4, <2>5, <2>6, <2>9 DEF Unharmed
<1> QED BY <1>5, <1>6

LEMMA SaveKeeps ==
    ASSUME TypeOK, Basics, Unharmed, harmed' = {}, NEW p \in Procs, Save(p)
    PROVE  Unharmed'
<1> USE Constants
<1>1. \A q \in Procs : q # p => ~Relies(q) /\ ~Working(q)
  BY Alone DEF Unharmed, Save, At, Relies
<1>2. lock = p /\ Working(p) /\ pc[p] = "save" BY DEF Unharmed, Held, Save, At, Relies, Working
<1>3. /\ \A q \in Procs : q # p => pc'[q] = pc[q]
      /\ pc'[p] = "release" /\ doc' = hand[p]
      /\ UNCHANGED <<queue, lock, ended, stored, opened, hand, took, pushed, atEnd>>
  BY DEF TypeOK, Save, Goto
<1>4. hand[p] \in Docs /\ doc # None BY DEF TypeOK, Save
<1>5. Held' BY <1>1, <1>2, <1>3 DEF Held, Relies
<1>6. Kept' BY <1>1, <1>2, <1>3, <1>4 DEF Kept, Whole, Working, Unharmed
<1>7. InHand' BY <1>1, <1>2, <1>3, <1>4 DEF InHand, Relies, Unharmed
<1>8. Exists' BY <1>2, <1>3, <1>4 DEF Exists, Began, Deleting, Unharmed
<1>9. Stored'
  BY <1>1, <1>2, <1>3, <1>4 DEF Stored, Complete, Beyond, Working, Unharmed
<1> QED BY <1>5, <1>6, <1>7, <1>8, <1>9 DEF Unharmed

LEMMA ReleaseKeeps ==
    ASSUME TypeOK, Basics, Unharmed, NEW p \in Procs, Release(p)
    PROVE  Unharmed'
<1> USE Constants
<1>1. \A q \in Procs : q # p => ~Relies(q) /\ ~Working(q)
  BY Alone DEF Unharmed, Release, At, Relies
<1>2. lock = p /\ ~Working(p) /\ pc[p] = "release"
  BY DEF Unharmed, Held, Release, At, Relies, Working
<1>3. /\ \A q \in Procs : q # p => pc'[q] = pc[q]
      /\ pc'[p] = IF p = Job THEN "store" ELSE "idle"
      /\ lock' = None /\ opened' = (IF p \in Sockets THEN opened \cup {p} ELSE opened)
      /\ UNCHANGED <<doc, queue, ended, stored, hand, took, pushed, atEnd>>
  BY <1>2 DEF TypeOK, Release, Goto
<1>4. ~ended => doc # None BY <1>2 DEF Unharmed, InHand
<1>5. Held' BY <1>1, <1>2, <1>3 DEF Held, Relies
<1>6. Kept' BY <1>1, <1>2, <1>3 DEF Kept, Whole, Working, Unharmed
<1>7. InHand' BY <1>1, <1>2, <1>3 DEF InHand, Relies, Unharmed
<1>8. Exists' BY <1>2, <1>3, <1>4 DEF Exists, Began, Deleting, Unharmed, Basics
<1>9. p = Job => Beyond(hand[Job])
  BY <1>1, <1>2 DEF Beyond, InHand, Unharmed, TypeOK, Docs
<1>10. Stored'
  BY <1>1, <1>2, <1>3, <1>9 DEF Stored, Complete, Beyond, Working, Unharmed
<1> QED BY <1>5, <1>6, <1>7, <1>8, <1>10 DEF Unharmed

LEMMA ReadKeeps ==
    ASSUME TypeOK, Unharmed, NEW p \in Readers, ReadV1(p), pc[p] \in {"idle", "wait"}
    PROVE  Unharmed'
<1> USE Constants
<1>1. /\ \A q \in Procs : q # p => pc'[q] = pc[q]
      /\ pc'[p] = "lock" /\ p \in Procs
      /\ UNCHANGED <<doc, queue, lock, ended, stored, opened, hand, took, pushed, atEnd>>
  BY DEF TypeOK, ReadV1, Goto
<1>2. Held' BY <1>1 DEF Held, Relies, Unharmed
<1>3. Kept'
  <2>1. \A q \in Procs : Working(q)' = Working(q) BY <1>1 DEF Working
  <2> QED BY <1>1, <2>1 DEF Kept, Whole, Unharmed
<1>4. InHand' BY <1>1 DEF InHand, Unharmed
<1>5. Exists' BY <1>1 DEF Exists, Began, Deleting, Unharmed
<1>6. Stored' BY <1>1 DEF Stored, Complete, Beyond, Working, Unharmed
<1> QED BY <1>2, <1>3, <1>4, <1>5, <1>6 DEF Unharmed

LEMMA EndKeeps ==
    ASSUME TypeOK, Basics, Unharmed, EndSession
    PROVE  Unharmed'
<1>1. pc[Job] = "wait" /\ stored = None BY DEF EndSession, Basics
<1>2. UNCHANGED <<doc, queue, lock, stored, opened, pc, hand, took, pushed>> /\ ended' = TRUE
  BY DEF EndSession, locals
<1>3. Held' /\ Kept' /\ InHand'
  BY <1>2 DEF Held, Relies, Kept, Whole, Working, InHand, Unharmed
<1>4. Exists' BY <1>1, <1>2 DEF Exists, Began, Deleting, Unharmed, EndSession
<1>5. Stored' BY <1>1, <1>2 DEF Stored
<1> QED BY <1>3, <1>4, <1>5 DEF Unharmed

LEMMA StoreKeeps ==
    ASSUME TypeOK, Unharmed, Store
    PROVE  Unharmed'
<1> USE Constants
<1>1. /\ \A q \in Procs : q # Job => pc'[q] = pc[q]
      /\ pc[Job] = "store" /\ pc'[Job] = "delete_doc" /\ stored' = hand[Job]
      /\ UNCHANGED <<doc, queue, lock, ended, opened, hand, took, pushed, atEnd>>
  BY DEF TypeOK, Store, Goto, At
<1>2. hand[Job] \in Docs BY DEF TypeOK
<1>3. Held' BY <1>1 DEF Held, Relies, Unharmed
<1>4. Kept'
  <2>1. \A q \in Procs : Working(q)' = Working(q) BY <1>1 DEF Working
  <2> QED BY <1>1, <1>2, <2>1 DEF Kept, Whole, Unharmed
<1>5. InHand' BY <1>1 DEF InHand, Unharmed
<1>6. Exists' BY <1>1, <1>2 DEF Exists
<1>7. Stored'
  BY <1>1 DEF Stored, Complete, Beyond, Working, Unharmed
<1> QED BY <1>3, <1>4, <1>5, <1>6, <1>7 DEF Unharmed

LEMMA DeleteKeeps ==
    ASSUME TypeOK, Basics, Unharmed, DeleteDoc \/ DeleteDeltas \/ DeleteFails
    PROVE  Unharmed'
<1> USE Constants
<1>1. /\ \A q \in Procs : q # Job => pc'[q] = pc[q]
      /\ pc[Job] \in {"delete_doc", "delete_deltas"} /\ pc'[Job] \in {"delete_deltas", "done"}
      /\ doc' \in {doc, None} /\ (queue' = queue \/ (DeleteDeltas /\ queue' = <<>> /\ doc' = doc))
      /\ UNCHANGED <<lock, ended, stored, opened, hand, took, pushed, atEnd>>
      /\ pc'[Job] = "delete_deltas" => doc' = None
  BY DEF TypeOK, DeleteDoc, DeleteDeltas, DeleteFails, Goto, At
<1>2. ended BY <1>1 DEF Basics, TypeOK
<1>3. Held' BY <1>1 DEF Held, Relies, Unharmed
<1>4. Kept'
  <2>1. \A q \in Procs : Working(q)' = Working(q) BY <1>1 DEF Working
  <2>2. stored = None => queue = <<>>
    BY <1>1 DEF Unharmed, Exists, Began, Deleting, TypeOK, Basics
  <2>3. stored = None \/ doc' # None => queue' = queue /\ (stored = None \/ doc # None)
    BY <1>1, <2>2 DEF Unharmed, Stored, DeleteDeltas, At
  <2> QED BY <1>1, <2>1, <2>3 DEF Kept, Whole, Unharmed
<1>5. InHand' BY <1>1, <1>2 DEF InHand, Unharmed
<1>6. Exists' BY <1>1 DEF Exists, Began, Deleting, Unharmed
<1>7. Stored' BY <1>1 DEF Stored, Complete, Beyond, Working, Unharmed
<1> QED BY <1>3, <1>4, <1>5, <1>6, <1>7 DEF Unharmed

LEMMA ExpireKeeps ==
    ASSUME TypeOK, Unharmed, harmed' = {}, Expire
    PROVE  Unharmed'
<1>1. UNCHANGED <<doc, queue, ended, stored, opened, pc, hand, took, pushed, atEnd>>
  BY DEF Expire, locals
<1>2. \A p \in Procs : ~Relies(p) BY DEF Expire, Held, Unharmed
<1>3. Held' BY <1>1, <1>2 DEF Held, Relies
<1>4. Kept' /\ InHand' /\ Exists'
  BY <1>1 DEF Kept, Whole, Working, InHand, Exists, Began, Deleting, Unharmed
<1>5. Stored' BY <1>1 DEF Stored, Complete, Beyond, Working, Unharmed
<1> QED BY <1>3, <1>4, <1>5 DEF Unharmed

LEMMA CrashKeeps ==
    ASSUME TypeOK, Basics, Unharmed, harmed' = {}, NEW p \in Procs, Crash(p)
    PROVE  Unharmed'
<1> USE Constants
<1>1. /\ \A q \in Procs : q # p => pc'[q] = pc[q]
      /\ pc'[p] = (IF p = Job THEN "wait" ELSE "idle")
      /\ UNCHANGED <<doc, queue, lock, ended, stored, opened, hand, took, pushed, atEnd>>
  BY DEF TypeOK, Crash, Goto
<1>3. Working(p) => pc[p] = "pop" /\ ~took[p]
  BY DEF Working, Crash, InHand, Unharmed
<1>4. Working(p) => \A q \in Procs : q # p => ~Working(q)
  BY Alone DEF Working, Relies, Unharmed
<1>5. Held' BY <1>1 DEF Held, Relies, Unharmed
<1>6. Kept'
  <2>1. ~Working(p)' /\ \A q \in Procs : q # p => Working(q)' = Working(q) BY <1>1 DEF Working
  <2>2. Working(p) /\ doc # None => hand[p] = doc BY <1>3 DEF InHand, Unharmed
  <2> QED BY <1>1, <1>4, <2>1, <2>2 DEF Kept, Whole, Unharmed
<1>7. InHand' BY <1>1 DEF InHand, Unharmed
<1>8. Exists' BY <1>1 DEF Exists, Began, Deleting, Unharmed
<1>9. Stored' BY <1>1 DEF Stored, Complete, Beyond, Working, Unharmed
<1> QED BY <1>5, <1>6, <1>7, <1>8, <1>9 DEF Unharmed

\* The history of what may lose deltas is never forgotten.
LEMMA HarmStays == [Next]_vars => harmed \subseteq harmed'
  BY DEF Next, SocketStep, GetV1Step, JobStep, RequestState, TransmitDelta, Push, Create, Acquire,
         Locked, Get, Pop, Save, Release, BotAsked, JobStart, ReadV1, EndSession, Store, DeleteDoc,
         DeleteDeltas, DeleteFails, JobCallFails, Expire, Crash, vars

-----------------------------------------------------------------------------
\* The theorems.

LEMMA QuillInvInit == Init => QuillInv
<1> SUFFICES ASSUME Init PROVE QuillInv OBVIOUS
<1> USE Constants
<1>1. TypeOK BY TypeInit
<1>2. Basics BY DEF Init, Basics
<1>3. \A p \in Procs : pc[p] \in {"idle", "wait"} BY DEF Init
<1>4. Held /\ Kept /\ InHand BY <1>3 DEF Init, Held, Relies, Kept, Working, InHand
<1>5. Exists BY <1>3 DEF Init, Exists, Began
<1>6. Stored BY <1>3 DEF Init, Stored
<1> QED BY <1>1, <1>2, <1>4, <1>5, <1>6 DEF QuillInv, Unharmed

LEMMA QuillInvStep == QuillInv /\ [Next]_vars => QuillInv'
<1> SUFFICES ASSUME QuillInv, [Next]_vars PROVE QuillInv' OBVIOUS
<1> USE Constants
<1>1. TypeOK /\ TypeOK' /\ Basics /\ Basics' BY TypeStep, BasicsStep DEF QuillInv
<1>2. SUFFICES ASSUME harmed' = {} PROVE Unharmed' BY <1>1 DEF QuillInv
<1>3. harmed = {} /\ Unharmed BY <1>2, HarmStays DEF QuillInv
<1>4. ASSUME NEW p \in Procs,
             Acquire(p) \/ Locked(p) \/ Get(p) \/ Pop(p) \/ Save(p) \/ Release(p)
      PROVE  Unharmed'
  BY <1>1, <1>2, <1>3, <1>4, CalmKeeps, GetKeeps, PopKeeps, SaveKeeps, ReleaseKeeps
<1>5. ASSUME NEW p \in Sockets, RequestState(p) \/ TransmitDelta(p) \/ Push(p) \/ Create(p)
      PROVE  Unharmed'
  BY <1>1, <1>2, <1>3, <1>5, CalmKeeps, PushKeeps, CreateKeeps
<1>6. ASSUME NEW b \in Bots, BotAsked(b) PROVE Unharmed'
  BY <1>1, <1>3, <1>6, ReadKeeps DEF BotAsked, At
<1>7. CASE JobStart BY <1>1, <1>3, <1>7, ReadKeeps DEF JobStart, At
<1>8. CASE Store \/ DeleteDoc \/ DeleteDeltas \/ DeleteFails
  BY <1>1, <1>3, <1>8, StoreKeeps, DeleteKeeps
<1>9. CASE JobCallFails BY <1>2, <1>9 DEF JobCallFails
<1>10. CASE EndSession \/ Expire BY <1>1, <1>2, <1>3, <1>10, EndKeeps, ExpireKeeps
<1>11. ASSUME NEW p \in Procs, Crash(p) PROVE Unharmed'
  BY <1>1, <1>2, <1>3, <1>11, CrashKeeps
<1>12. CASE UNCHANGED vars
  BY <1>3, <1>12 DEF vars, locals, Unharmed, Held, Relies, Kept, Whole, Working, InHand, Exists,
                     Began, Deleting, Stored, Complete, Beyond
<1> QED
  BY <1>4, <1>5, <1>6, <1>7, <1>8, <1>9, <1>10, <1>11, <1>12
  DEF Next, SocketStep, GetV1Step, JobStep

\* The inductive invariant holds in every reachable state.
THEOREM QuillInvariance == Spec => []QuillInv
<1>1. Init => QuillInv BY QuillInvInit
<1>2. QuillInv /\ [Next]_vars => QuillInv' BY QuillInvStep
<1> QED BY <1>1, <1>2, PTL DEF Spec

LEMMA NoneIsLost == QuillInv => NoDeltaLost
<1> SUFFICES ASSUME QuillInv, harmed = {}, ~Deleting, stored = None
             PROVE  Composed \o queue = Upto(pushed)
  BY DEF NoDeltaLost
<1>1. TypeOK /\ Basics /\ Unharmed BY DEF QuillInv
<1>3. CASE \E p \in Procs : pc[p] \in {"pop", "save"}
  <2> DEFINE q == CHOOSE p \in Procs : pc[p] \in {"pop", "save"}
  <2>1. q \in Procs /\ pc[q] \in {"pop", "save"} BY <1>3
  <2>2. Composed = hand[q] BY <1>3 DEF Composed
  <2> HIDE DEF q
  <2> QED BY <1>1, <2>1, <2>2 DEF Unharmed, Kept, Working, Whole
<1>4. CASE (~\E p \in Procs : pc[p] \in {"pop", "save"}) /\ doc # None
  BY <1>1, <1>4 DEF Composed, Unharmed, Kept, Working, Whole
<1>5. CASE (~\E p \in Procs : pc[p] \in {"pop", "save"}) /\ doc = None
  <2>1. pushed = 0 /\ queue = <<>> BY <1>1, <1>5 DEF Unharmed, Exists, Began, TypeOK, Basics
  <2> QED BY <1>5, <2>1 DEF Composed, Upto
<1> QED BY <1>3, <1>4, <1>5

LEMMA CompleteIsStored == QuillInv => StoredIsComplete
<1> SUFFICES ASSUME QuillInv, Deleting, harmed = {}, atEnd > 0
             PROVE  /\ stored # None
                    /\ IsPrefix(Upto(atEnd), stored)
                    /\ IsPrefix(stored, Upto(pushed))
  BY DEF StoredIsComplete
<1>1. TypeOK /\ Basics /\ Unharmed BY DEF QuillInv
<1>2. stored # None BY <1>1 DEF Unharmed, Exists, Began, TypeOK, Basics
<1>3. stored = Upto(Len(stored)) /\ atEnd <= Len(stored) /\ Len(stored) <= pushed
  BY <1>1, <1>2 DEF Unharmed, Stored, Complete
<1>4. Len(stored) \in Nat /\ atEnd \in Nat /\ pushed \in Nat
  BY <1>1, <1>2 DEF TypeOK, Docs
<1> QED BY <1>2, <1>3, <1>4, UptoPrefix

LEMMA StoredGrows ==
    QuillInv /\ QuillInv' /\ [Next]_vars => (harmed = {} /\ stored # None => IsPrefix(stored, stored'))
<1> SUFFICES ASSUME QuillInv, QuillInv', [Next]_vars, harmed = {}, stored # None
             PROVE  IsPrefix(stored, stored')
  OBVIOUS
<1> USE Constants
<1>1. TypeOK /\ Unharmed BY DEF QuillInv
<1>2. stored = Upto(Len(stored)) /\ Len(stored) \in Nat
  BY <1>1 DEF Unharmed, Stored, Complete, TypeOK, Docs
<1>3. CASE Store
  <2>1. stored' = hand[Job] /\ hand[Job] = Upto(Len(hand[Job]))
        /\ Len(stored) <= Len(hand[Job]) /\ Len(hand[Job]) \in Nat
    BY <1>1, <1>3 DEF Store, At, Unharmed, Stored, Complete, TypeOK, Docs
  <2> QED BY <1>2, <2>1, UptoPrefix
<1>4. CASE stored' = stored BY <1>2, <1>4, UptoPrefix
<1>5. Store \/ stored' = stored
  BY DEF Next, SocketStep, GetV1Step, JobStep, RequestState, TransmitDelta, Push, Create, Acquire,
         Locked, Get, Pop, Save, Release, BotAsked, JobStart, ReadV1, EndSession, DeleteDoc,
         DeleteDeltas, DeleteFails, JobCallFails, Expire, Crash, vars
<1> QED BY <1>3, <1>4, <1>5

\* However sockets append while others compose or create the document, no delta is
\* lost, doubled or composed out of order.
THEOREM DeltasAreKept == Spec => []NoDeltaLost
  BY QuillInvariance, NoneIsLost, PTL

\* When the job deletes the keys it has stored every delta from before the end.
THEOREM AllIsStored == Spec => []StoredIsComplete
  BY QuillInvariance, CompleteIsStored, PTL

\* A job that stalls and runs again never stores less than it had stored.
THEOREM StoredNeverShrinks == Spec => StoredOnlyGrows
  BY QuillInvariance, StoredGrows, PTL DEF Spec, StoredOnlyGrows

-----------------------------------------------------------------------------
\* The whiteboard: its pieces.

\* What a handler has in its hands.
InHands ==
    \A c \in Clients :
        /\ handler[c] = "append" => Len(piece[c]) \in {1, 2}
        /\ handler[c] = "length" => Len(piece[c]) = 1
        /\ follow[c] # "none" => Len(piece[c]) = 2

\* The i-th piece in the hands of c is still to be appended.
Pending(c, i) == (i = 1 /\ handler[c] = "append") \/ (i = 2 /\ follow[c] = "append")

\* A number is one piece's, and no piece is appended twice.
PiecesOnce ==
    /\ \A i, j \in 1..Len(appended) : appended[i] = appended[j] => i = j
    /\ \A i \in 1..Len(appended) : appended[i] <= sent
    /\ \A c \in Clients : \A i \in 1..Len(piece[c]) : piece[c][i] <= sent
    /\ \A c, d \in Clients : \A i \in 1..Len(piece[c]), j \in 1..Len(piece[d]) :
          piece[c][i] = piece[d][j] => c = d /\ i = j
    /\ \A c \in Clients, i \in 1..2 : Pending(c, i) =>
          \A k \in 1..Len(appended) : appended[k] # piece[c][i]
    /\ board # None => Len(board) <= Len(appended)

BoardPiecesInv == WB!BoardTypeOK /\ InHands /\ PiecesOnce

LEMMA BoardConstants ==
    /\ None \notin Seq(WB!Pieces) /\ <<>> \in Seq(WB!Pieces)
    /\ MaxPieces \in Nat /\ MaxFaults \in Nat
  BY BoardConstantsOK, EmptySeq DEF WB!BoardConstants, WB!Pieces

\* A sequence with one more element has its elements, and that one.
LEMMA OneMoreElement ==
    ASSUME NEW S, NEW s \in Seq(S), NEW n \in S
    PROVE  /\ Append(s, n) \in Seq(S) /\ Len(Append(s, n)) = Len(s) + 1
           /\ \A i \in 1..Len(s) : Append(s, n)[i] = s[i]
           /\ Append(s, n)[Len(s) + 1] = n
           /\ WB!ToSet(Append(s, n)) = WB!ToSet(s) \cup {n}
<1>1. /\ Append(s, n) \in Seq(S) /\ Len(Append(s, n)) = Len(s) + 1
      /\ \A i \in 1..Len(s) : Append(s, n)[i] = s[i]
      /\ Append(s, n)[Len(s) + 1] = n
  BY AppendProperties
<1>2. DOMAIN s = 1..Len(s) /\ Len(s) \in Nat
  OBVIOUS
<1> DEFINE t == Append(s, n)
<1>3. /\ t \in Seq(S) /\ DOMAIN t = 1..(Len(s) + 1)
      /\ \A i \in 1..Len(s) : t[i] = s[i]
      /\ t[Len(s) + 1] = n
  BY <1>1
<1> HIDE DEF t
<1>4. WB!ToSet(t) \subseteq WB!ToSet(s) \cup {n}
  <2>1. ASSUME NEW i \in 1..(Len(s) + 1) PROVE t[i] \in WB!ToSet(s) \cup {n}
    BY <1>2, <1>3 DEF WB!ToSet
  <2>2. QED
    BY <1>3, <2>1 DEF WB!ToSet
<1>5. WB!ToSet(s) \subseteq WB!ToSet(t) /\ n \in WB!ToSet(t)
  BY <1>2, <1>3 DEF WB!ToSet
<1>6. QED
  BY <1>1, <1>4, <1>5 DEF t

\* A document whose elements are different numbers up to m is not longer than m.
LEMMA NotLonger ==
    ASSUME NEW m \in Nat, NEW s \in Seq(1..m),
           \A i, j \in 1..Len(s) : s[i] = s[j] => i = j
    PROVE  Len(s) <= m
<1>1. SUFFICES ASSUME m < Len(s) PROVE FALSE
  OBVIOUS
<1>2. Len(s) \in Nat /\ s \in [1..Len(s) -> 1..m]
  OBVIOUS
<1>3. /\ IsFiniteSet(1..Len(s)) /\ IsFiniteSet(1..m)
      /\ Cardinality(1..m) < Cardinality(1..Len(s))
  <2>1. Cardinality(1..m) = m
    BY FS_Interval
  <2>2. Cardinality(1..Len(s)) = Len(s)
    BY <1>1, <1>2, FS_Interval
  <2>3. QED
    BY <1>1, <1>2, <2>1, <2>2, FS_Interval
<1>4. QED
  BY <1>2, <1>3, FS_PigeonHole

\* Redis APPEND adds a piece to the document, and to the history.
LEMMA Extended ==
    ASSUME WB!BoardTypeOK, NEW n \in WB!Pieces, WB!Extend(n)
    PROVE  /\ board' \in Seq(WB!Pieces) /\ appended' \in Seq(WB!Pieces)
           /\ Len(appended') = Len(appended) + 1 /\ Len(appended) \in Nat
           /\ \A i \in 1..Len(appended) : appended'[i] = appended[i]
           /\ appended'[Len(appended) + 1] = n
           /\ WB!ToSet(appended') = WB!ToSet(appended) \cup {n}
           /\ board = None => Len(board') = 1
           /\ board # None => Len(board') = Len(board) + 1 /\ Len(board) \in Nat
<1>1. appended \in Seq(WB!Pieces) /\ appended' = Append(appended, n)
  BY DEF WB!BoardTypeOK, WB!Extend
<1>2. CASE board = None
  <2>1. board' = <<n>>
    BY <1>2 DEF WB!Extend
  <2>2. QED
    BY <1>1, <1>2, <2>1, OneMoreElement
<1>3. CASE board # None
  <2>1. board \in Seq(WB!Pieces) /\ board' = Append(board, n)
    BY <1>3 DEF WB!BoardTypeOK, WB!Extend
  <2>2. QED
    BY <1>1, <1>3, <2>1, OneMoreElement
<1>4. QED
  BY <1>2, <1>3

\* Pieces are numbers.
LEMMA PieceNumbers ==
    ASSUME WB!BoardTypeOK
    PROVE  /\ sent \in Nat /\ Len(appended) \in Nat
           /\ \A i \in 1..Len(appended) : appended[i] \in Nat
           /\ \A d \in Clients : \A i \in 1..Len(piece[d]) : piece[d][i] \in Nat
           /\ \A d \in Clients : Len(piece[d]) \in Nat
<1>1. WB!Pieces \subseteq Nat /\ sent \in Nat
  BY BoardConstants DEF WB!Pieces, WB!BoardTypeOK
<1>2. appended \in Seq(WB!Pieces) /\ \A d \in Clients : piece[d] \in Seq(WB!Pieces)
  BY DEF WB!BoardTypeOK
<1>3. ASSUME NEW s \in Seq(WB!Pieces), NEW i \in 1..Len(s) PROVE s[i] \in Nat
  BY <1>1, ElementOfSeq
<1>4. ASSUME NEW d \in Clients PROVE Len(piece[d]) \in Nat /\ \A i \in 1..Len(piece[d]) : piece[d][i] \in Nat
  BY <1>2, <1>3
<1>5. QED
  BY <1>1, <1>2, <1>3, <1>4

\* What is pending is in the hands.
LEMMA PendingInHands ==
    ASSUME BoardPiecesInv, NEW c \in Clients, NEW i \in 1..2, Pending(c, i)
    PROVE  /\ i \in 1..Len(piece[c]) /\ piece[c][i] \in WB!Pieces /\ piece[c][i] <= sent
           /\ \A k \in 1..Len(appended) : appended[k] # piece[c][i]
<1>1. piece[c] \in Seq(WB!Pieces)
  BY DEF BoardPiecesInv, WB!BoardTypeOK
<1>2. i \in 1..Len(piece[c])
  BY DEF BoardPiecesInv, InHands, Pending
<1>3. QED
  BY <1>1, <1>2 DEF BoardPiecesInv, PiecesOnce

\* Steps that send and append nothing.
LEMMA SameKeepsPieces ==
    ASSUME BoardPiecesInv, UNCHANGED <<appended, piece, sent>>, board' \in {board, <<>>, None},
           \A c \in Clients, i \in 1..2 : Pending(c, i)' => Pending(c, i)
    PROVE  PiecesOnce'
<1>1. appended \in Seq(WB!Pieces) /\ Len(appended) >= 0 /\ Len(<<>>) = 0
  BY EmptySeq DEF BoardPiecesInv, WB!BoardTypeOK
<1>2. QED
  BY <1>1 DEF BoardPiecesInv, PiecesOnce

\* New pieces in the hands of c.
LEMMA SendKeepsPieces ==
    ASSUME BoardPiecesInv, NEW c \in Clients, UNCHANGED <<appended, board>>,
           sent' \in Nat, sent < sent',
           \A d \in Clients : d # c => piece'[d] = piece[d],
           \A i \in 1..Len(piece'[c]) :
              \/ piece'[c][i] \in (sent + 1)..sent'
              \/ i \in 1..Len(piece[c]) /\ piece'[c][i] = piece[c][i],
           \A i, j \in 1..Len(piece'[c]) : piece'[c][i] = piece'[c][j] => i = j,
           \A d \in Clients, i \in 1..2 : Pending(d, i)' =>
              \/ d = c /\ piece'[c][i] \in (sent + 1)..sent'
              \/ Pending(d, i) /\ piece'[d][i] = piece[d][i]
    PROVE  PiecesOnce'
<1>0. /\ sent \in Nat
      /\ \A i \in 1..Len(appended) : appended[i] \in Nat
      /\ \A d \in Clients : \A i \in 1..Len(piece[d]) : piece[d][i] \in Nat
  BY PieceNumbers DEF BoardPiecesInv
<1>1. \A d \in Clients : \A i \in 1..Len(piece'[d]) :
         \/ d = c /\ piece'[d][i] \in (sent + 1)..sent'
         \/ i \in 1..Len(piece[d]) /\ piece'[d][i] = piece[d][i]
  OBVIOUS
<1>2. \A d \in Clients : \A i \in 1..Len(piece[d]) : piece[d][i] <= sent
  BY DEF BoardPiecesInv, PiecesOnce
<1>3. ASSUME NEW d \in Clients, NEW i \in 1..Len(piece'[d]) PROVE piece'[d][i] <= sent'
  <2>1. CASE piece'[d][i] \in (sent + 1)..sent'
    BY <1>0, <2>1
  <2>2. CASE i \in 1..Len(piece[d]) /\ piece'[d][i] = piece[d][i]
    <3>1. piece[d][i] \in Nat /\ piece[d][i] <= sent
      BY <1>0, <1>2, <2>2
    <3>2. QED
      BY <1>0, <2>2, <3>1
  <2>3. QED
    BY <1>1, <1>3, <2>1, <2>2
<1>4. ASSUME NEW d \in Clients, NEW e \in Clients, NEW i \in 1..Len(piece'[d]),
             NEW j \in 1..Len(piece'[e]), piece'[d][i] = piece'[e][j]
      PROVE  d = e /\ i = j
  <2>1. CASE piece'[d][i] \in (sent + 1)..sent'
    <3>1. piece'[e][j] \in (sent + 1)..sent'
      BY <1>4, <2>1
    <3>2. d = c /\ e = c
      <4>1. ASSUME NEW f \in Clients, NEW k \in 1..Len(piece[f]), piece'[f][k] = piece[f][k]
            PROVE  piece'[f][k] \notin (sent + 1)..sent'
        <5>1. piece[f][k] \in Nat /\ piece[f][k] <= sent
          BY <1>0, <1>2
        <5>2. QED
          BY <1>0, <4>1, <5>1
      <4>2. d = c
        BY <1>1, <2>1, <4>1
      <4>3. e = c
        BY <1>1, <3>1, <4>1
      <4>4. QED
        BY <4>2, <4>3
    <3>3. QED
      BY <1>4, <3>2
  <2>2. CASE i \in 1..Len(piece[d]) /\ piece'[d][i] = piece[d][i]
    <3>1. piece[d][i] <= sent /\ piece[d][i] \in Nat
      BY <1>0, <1>2, <2>2
    <3>2. piece'[e][j] \notin (sent + 1)..sent'
      BY <1>0, <1>4, <2>2, <3>1
    <3>3. j \in 1..Len(piece[e]) /\ piece'[e][j] = piece[e][j]
      BY <1>1, <3>2
    <3>4. piece[d][i] = piece[e][j]
      BY <1>4, <2>2, <3>3
    <3>5. QED
      BY <2>2, <3>3, <3>4 DEF BoardPiecesInv, PiecesOnce
  <2>3. QED
    BY <1>1, <2>1, <2>2
<1>5. ASSUME NEW d \in Clients, NEW i \in 1..2, Pending(d, i)', NEW k \in 1..Len(appended')
      PROVE  appended'[k] # piece'[d][i]
  <2>1. appended[k] \in Nat /\ appended[k] <= sent /\ appended'[k] = appended[k]
    BY <1>0, <1>5 DEF BoardPiecesInv, PiecesOnce
  <2>2. CASE piece'[d][i] \in (sent + 1)..sent'
    BY <1>0, <2>1, <2>2
  <2>3. CASE Pending(d, i) /\ piece'[d][i] = piece[d][i]
    BY <2>1, <2>3, PendingInHands
  <2>4. QED
    BY <1>5, <2>2, <2>3
<1>6. \A i \in 1..Len(appended) : appended[i] <= sent'
  BY <1>0 DEF BoardPiecesInv, PiecesOnce
<1>7. QED
  BY <1>3, <1>4, <1>5, <1>6 DEF BoardPiecesInv, PiecesOnce

\* A piece that was not appended yet is.
LEMMA ExtendKeepsPieces ==
    ASSUME BoardPiecesInv, NEW n \in WB!Pieces, WB!Extend(n), piece' = piece,
           sent' \in Nat, sent <= sent', n <= sent',
           \A k \in 1..Len(appended) : appended[k] # n,
           \A c \in Clients, i \in 1..2 : Pending(c, i)' => Pending(c, i) /\ piece[c][i] # n
    PROVE  PiecesOnce'
<1>0. /\ sent \in Nat /\ n \in Nat
      /\ \A i \in 1..Len(appended) : appended[i] \in Nat
      /\ \A d \in Clients : \A i \in 1..Len(piece[d]) : piece[d][i] \in Nat
  BY BoardConstants, PieceNumbers DEF BoardPiecesInv, WB!Pieces
<1>1. /\ Len(appended') = Len(appended) + 1 /\ Len(appended) \in Nat
      /\ \A i \in 1..Len(appended) : appended'[i] = appended[i]
      /\ appended'[Len(appended) + 1] = n
      /\ board = None => Len(board') = 1
      /\ board # None => Len(board') = Len(board) + 1 /\ Len(board) \in Nat
  BY Extended DEF BoardPiecesInv
<1>2. \A i \in 1..Len(appended') :
         \/ i \in 1..Len(appended) /\ appended'[i] = appended[i]
         \/ i = Len(appended) + 1 /\ appended'[i] = n
  BY <1>1
<1>3. \A i, j \in 1..Len(appended') : appended'[i] = appended'[j] => i = j
  BY <1>2 DEF BoardPiecesInv, PiecesOnce
<1>4. ASSUME NEW i \in 1..Len(appended') PROVE appended'[i] <= sent'
  <2>1. CASE i \in 1..Len(appended) /\ appended'[i] = appended[i]
    <3>1. appended[i] <= sent /\ appended[i] \in Nat
      BY <1>0, <2>1 DEF BoardPiecesInv, PiecesOnce
    <3>2. QED
      BY <1>0, <2>1, <3>1
  <2>2. QED
    BY <1>2, <2>1
<1>5. ASSUME NEW d \in Clients, NEW i \in 1..Len(piece[d]) PROVE piece[d][i] <= sent'
  <2>1. piece[d][i] <= sent
    BY DEF BoardPiecesInv, PiecesOnce
  <2>2. QED
    BY <1>0, <2>1
<1>6. ASSUME NEW d \in Clients, NEW i \in 1..2, Pending(d, i)', NEW k \in 1..Len(appended')
      PROVE  appended'[k] # piece[d][i]
  BY <1>2, <1>6, PendingInHands
<1>7. board' # None => Len(board') <= Len(appended')
  <2>1. board # None => Len(board) <= Len(appended)
    BY DEF BoardPiecesInv, PiecesOnce
  <2>2. CASE board = None
    <3>1. Len(board') = 1
      BY <1>1, <2>2
    <3>2. QED
      BY <1>1, <3>1
  <2>3. CASE board # None
    BY <1>1, <2>1, <2>3
  <2>4. QED
    BY <2>2, <2>3
<1>8. QED
  BY <1>3, <1>4, <1>5, <1>6, <1>7 DEF BoardPiecesInv, PiecesOnce

\* Steps of the job, of the end of the session, and INITs and acknowledgements.
LEMMA QuietBoardStep ==
    ASSUME BoardPiecesInv,
           \/ \E c \in Clients : WB!InitGet(c) \/ WB!InitCreate(c) \/ WB!Ack(c)
           \/ WB!BoardEnd \/ WB!TaskStep \/ WB!TaskFails \/ WB!TaskCrash
    PROVE  BoardPiecesInv'
<1> USE BoardConstants
<1>1. ASSUME NEW c \in Clients, WB!InitGet(c) \/ WB!InitCreate(c) PROVE BoardPiecesInv'
  <2>1. WB!BoardTypeOK'
    BY <1>1 DEF BoardPiecesInv, WB!BoardTypeOK, WB!InitGet, WB!InitCreate, WB!Handler
  <2>2. /\ \A d \in Clients : handler'[d] \in {handler[d], "create", "first", "open"}
        /\ UNCHANGED <<follow, piece, appended, sent>> /\ board' \in {board, <<>>}
    BY <1>1 DEF BoardPiecesInv, WB!BoardTypeOK, WB!InitGet, WB!InitCreate, WB!Handler
  <2>3. InHands'
    BY <2>2 DEF BoardPiecesInv, InHands
  <2>4. PiecesOnce'
    BY <2>2, SameKeepsPieces DEF Pending
  <2>5. QED
    BY <2>1, <2>3, <2>4 DEF BoardPiecesInv
<1>2. ASSUME NEW c \in Clients, WB!Ack(c) PROVE BoardPiecesInv'
  <2>1. WB!BoardTypeOK'
    <3>1. WB!ToSet(piece[c]) \subseteq WB!Pieces
      BY DEF BoardPiecesInv, WB!BoardTypeOK, WB!ToSet
    <3>2. acked' \subseteq WB!Pieces
      <4>1. acked' = acked \/ acked' = acked \cup WB!ToSet(piece[c])
        BY <1>2 DEF WB!Ack
      <4>2. QED
        BY <3>1, <4>1 DEF BoardPiecesInv, WB!BoardTypeOK
    <3>3. QED
      BY <1>2, <3>2 DEF BoardPiecesInv, WB!BoardTypeOK, WB!Ack, WB!Handler
  <2>2. /\ \A d \in Clients : handler'[d] \in {handler[d], "open"} /\ follow'[d] \in {follow[d], "none"}
        /\ UNCHANGED <<board, piece, appended, sent>>
    BY <1>2 DEF BoardPiecesInv, WB!BoardTypeOK, WB!Ack, WB!Handler
  <2>3. InHands'
    BY <2>2 DEF BoardPiecesInv, InHands
  <2>4. PiecesOnce'
    BY <2>2, SameKeepsPieces DEF Pending
  <2>5. QED
    BY <2>1, <2>3, <2>4 DEF BoardPiecesInv
<1>3. CASE WB!BoardEnd \/ WB!TaskStep \/ WB!TaskFails \/ WB!TaskCrash
  <2>1. WB!BoardTypeOK'
    <3>1. CASE WB!BoardEnd
      BY <1>3, <3>1 DEF BoardPiecesInv, WB!BoardTypeOK, WB!BoardEnd, WB!boardVars
    <3>2. CASE WB!TaskGet
      BY <3>2 DEF BoardPiecesInv, WB!BoardTypeOK, WB!TaskGet, WB!Task, WB!Missing
    <3>3. CASE WB!TaskUpload
      <4>1. faults' \in 0..MaxFaults
        BY <3>3 DEF BoardPiecesInv, WB!BoardTypeOK, WB!TaskUpload
      <4>2. uploaded' \in BOOLEAN /\ blob' \in Seq(WB!Pieces) \cup {None} /\ task' = "flag"
        BY <3>3 DEF BoardPiecesInv, WB!BoardTypeOK, WB!TaskUpload, WB!Task
      <4>3. spoiled' = spoiled \/ spoiled' = spoiled \cup {"not_uploaded"}
        BY <3>3 DEF WB!TaskUpload
      <4>4. QED
        BY <3>3, <4>1, <4>2, <4>3 DEF BoardPiecesInv, WB!BoardTypeOK, WB!TaskUpload
    <3>4. CASE WB!TaskFlag \/ WB!TaskDelete
      BY <3>4 DEF BoardPiecesInv, WB!BoardTypeOK, WB!TaskFlag, WB!TaskDelete, WB!Task
    <3>5. CASE WB!TaskFails \/ WB!TaskCrash
      <4>1. faults' \in 0..MaxFaults
        BY <3>5 DEF BoardPiecesInv, WB!BoardTypeOK, WB!TaskFails, WB!TaskCrash
      <4>2. task' \in {"wait", "done", "failed"}
        BY <3>5 DEF WB!TaskFails, WB!TaskCrash
      <4>3. QED
        BY <3>5, <4>1, <4>2 DEF BoardPiecesInv, WB!BoardTypeOK, WB!TaskFails, WB!TaskCrash
    <3>6. QED
      BY <1>3, <3>1, <3>2, <3>3, <3>4, <3>5 DEF WB!TaskStep
  <2>2. UNCHANGED <<handler, follow, piece, appended, sent>> /\ board' \in {board, None}
    BY <1>3 DEF WB!BoardEnd, WB!TaskStep, WB!TaskGet, WB!TaskUpload, WB!TaskFlag,
                WB!TaskDelete, WB!TaskFails, WB!TaskCrash, WB!boardVars
  <2>3. InHands'
    BY <2>2 DEF BoardPiecesInv, InHands
  <2>4. PiecesOnce'
    BY <2>2, SameKeepsPieces DEF Pending
  <2>5. QED
    BY <2>1, <2>3, <2>4 DEF BoardPiecesInv
<1>4. QED
  BY <1>1, <1>2, <1>3

LEMMA AppendLengthStep ==
    ASSUME BoardPiecesInv, NEW c \in Clients, WB!AppendLength(c)
    PROVE  BoardPiecesInv'
<1> USE BoardConstants
<1>1. /\ sent' = sent + 1 /\ sent + 1 \in WB!Pieces /\ board \in Seq(WB!Pieces)
      /\ piece' = [piece EXCEPT ![c] = <<sent + 1>>] /\ follow[c] = "none"
      /\ handler' = [handler EXCEPT ![c] = "append"]
      /\ UNCHANGED <<board, follow, appended>>
  BY DEF WB!AppendLength, WB!Handler, BoardPiecesInv, WB!BoardTypeOK, WB!Pieces
<1>2. Len(board) \in 0..MaxPieces
  <2>1. Len(appended) <= MaxPieces
    BY NotLonger DEF BoardPiecesInv, PiecesOnce, WB!BoardTypeOK, WB!Pieces
  <2>2. Len(board) <= Len(appended) /\ Len(board) \in Nat /\ Len(appended) \in Nat
    BY <1>1 DEF BoardPiecesInv, PiecesOnce, WB!BoardTypeOK
  <2>3. QED
    BY <2>1, <2>2
<1>3. <<sent + 1>> \in Seq(WB!Pieces)
  BY <1>1
<1>4. WB!BoardTypeOK'
  <2>1. piece' \in [Clients -> Seq(WB!Pieces)]
    BY <1>1, <1>3 DEF BoardPiecesInv, WB!BoardTypeOK
  <2>2. sent' \in 0..MaxPieces
    BY <1>1 DEF WB!Pieces
  <2>3. offset' \in [Clients -> 0..MaxPieces]
    BY <1>2 DEF BoardPiecesInv, WB!BoardTypeOK, WB!AppendLength
  <2>4. handler' \in [Clients -> {"closed", "create", "first", "open", "append", "length"}]
    BY <1>1 DEF BoardPiecesInv, WB!BoardTypeOK
  <2>5. QED
    BY <2>1, <2>2, <2>3, <2>4 DEF BoardPiecesInv, WB!BoardTypeOK, WB!AppendLength
<1>5. /\ piece'[c] = <<sent + 1>> /\ handler'[c] = "append"
      /\ \A d \in Clients : d # c => piece'[d] = piece[d] /\ handler'[d] = handler[d]
  BY <1>1 DEF BoardPiecesInv, WB!BoardTypeOK
<1>6. Len(piece'[c]) = 1 /\ piece'[c][1] = sent + 1
  BY <1>5
<1>7. InHands'
  BY <1>1, <1>5, <1>6 DEF BoardPiecesInv, InHands
<1>8. PiecesOnce'
  <2>1. sent \in Nat /\ sent' \in Nat /\ sent < sent' /\ (sent + 1) \in (sent + 1)..sent'
    BY <1>1 DEF BoardPiecesInv, WB!BoardTypeOK
  <2>2. /\ \A i \in 1..Len(piece'[c]) : piece'[c][i] \in (sent + 1)..sent'
        /\ \A i, j \in 1..Len(piece'[c]) : i = j
    BY <1>6, <2>1
  <2>3. ASSUME NEW d \in Clients, NEW i \in 1..2, Pending(d, i)'
        PROVE  \/ d = c /\ piece'[c][i] \in (sent + 1)..sent'
               \/ Pending(d, i) /\ piece'[d][i] = piece[d][i]
    BY <1>1, <1>5, <1>6, <2>1, <2>3 DEF Pending
  <2>4. QED
    BY <1>1, <1>5, <2>1, <2>2, <2>3, SendKeepsPieces
<1>9. QED
  BY <1>4, <1>7, <1>8 DEF BoardPiecesInv

LEMMA SendMoreStep ==
    ASSUME BoardPiecesInv, NEW c \in Clients, WB!SendMore(c)
    PROVE  BoardPiecesInv'
<1> USE BoardConstants
<1>1. /\ sent' = sent + 1 /\ sent + 1 \in WB!Pieces /\ Len(piece[c]) = 1
      /\ piece' = [piece EXCEPT ![c] = Append(piece[c], sent + 1)]
      /\ handler[c] = "append" /\ follow' = [follow EXCEPT ![c] = "append"]
      /\ UNCHANGED <<board, handler, appended>>
  BY DEF WB!SendMore, BoardPiecesInv, WB!BoardTypeOK, WB!Pieces
<1>2. /\ piece[c] \in Seq(WB!Pieces) /\ Append(piece[c], sent + 1) \in Seq(WB!Pieces)
      /\ Len(Append(piece[c], sent + 1)) = 2 /\ Append(piece[c], sent + 1)[1] = piece[c][1]
      /\ Append(piece[c], sent + 1)[2] = sent + 1
  <2> DEFINE n == sent + 1
             s == piece[c]
             P == WB!Pieces
  <2>1. s \in Seq(P) /\ n \in P
    BY <1>1 DEF BoardPiecesInv, WB!BoardTypeOK
  <2>2. Len(s) = 1
    BY <1>1
  <2> HIDE DEF n, s, P
  <2>3. /\ Append(s, n) \in Seq(P) /\ Len(Append(s, n)) = Len(s) + 1
        /\ \A i \in 1..Len(s) : Append(s, n)[i] = s[i]
        /\ Append(s, n)[Len(s) + 1] = n
    BY <2>1, AppendProperties
  <2>4. /\ Append(s, n) \in Seq(P) /\ Len(Append(s, n)) = 2
        /\ Append(s, n)[1] = s[1] /\ Append(s, n)[2] = n
    BY <2>2, <2>3
  <2>5. QED
    BY <2>1, <2>4 DEF n, s, P
<1>3. WB!BoardTypeOK'
  <2>1. piece' \in [Clients -> Seq(WB!Pieces)]
    BY <1>1, <1>2 DEF BoardPiecesInv, WB!BoardTypeOK
  <2>2. sent' \in 0..MaxPieces
    BY <1>1 DEF WB!Pieces
  <2>3. follow' \in [Clients -> {"none", "append", "length"}]
    BY <1>1 DEF BoardPiecesInv, WB!BoardTypeOK
  <2>4. QED
    BY <2>1, <2>2, <2>3 DEF BoardPiecesInv, WB!BoardTypeOK, WB!SendMore
<1>4. /\ piece'[c] = Append(piece[c], sent + 1) /\ follow'[c] = "append"
      /\ \A d \in Clients : d # c => piece'[d] = piece[d] /\ follow'[d] = follow[d]
  BY <1>1 DEF BoardPiecesInv, WB!BoardTypeOK
<1>5. Len(piece'[c]) = 2 /\ piece'[c][1] = piece[c][1] /\ piece'[c][2] = sent + 1
  BY <1>2, <1>4
<1>6. InHands'
  BY <1>1, <1>4, <1>5 DEF BoardPiecesInv, InHands
<1>7. PiecesOnce'
  <2>1. sent \in Nat /\ sent' \in Nat /\ sent < sent' /\ (sent + 1) \in (sent + 1)..sent'
    BY <1>1 DEF BoardPiecesInv, WB!BoardTypeOK
  <2>2. 1..Len(piece'[c]) = {1, 2} /\ 1 \in 1..Len(piece[c])
    BY <1>1, <1>5
  <2>3. \A i \in 1..Len(piece'[c]) :
           \/ piece'[c][i] \in (sent + 1)..sent'
           \/ i \in 1..Len(piece[c]) /\ piece'[c][i] = piece[c][i]
    BY <1>5, <2>1, <2>2
  <2>4. \A i, j \in 1..Len(piece'[c]) : piece'[c][i] = piece'[c][j] => i = j
    <3>1. piece[c][1] \in Nat /\ piece[c][1] <= sent
      BY <2>2, PieceNumbers DEF BoardPiecesInv, PiecesOnce
    <3>2. piece'[c][1] # piece'[c][2]
      BY <1>5, <2>1, <3>1
    <3>3. QED
      BY <2>2, <3>2
  <2>5. ASSUME NEW d \in Clients, NEW i \in 1..2, Pending(d, i)'
        PROVE  \/ d = c /\ piece'[c][i] \in (sent + 1)..sent'
               \/ Pending(d, i) /\ piece'[d][i] = piece[d][i]
    BY <1>1, <1>4, <1>5, <2>1, <2>5 DEF Pending
  <2>6. QED
    BY <1>1, <1>4, <2>1, <2>3, <2>4, <2>5, SendKeepsPieces
<1>8. QED
  BY <1>3, <1>6, <1>7 DEF BoardPiecesInv

LEMMA AppendRefusedStep ==
    ASSUME BoardPiecesInv, NEW c \in Clients, WB!AppendRefused(c)
    PROVE  BoardPiecesInv'
<1> USE BoardConstants
<1>1. /\ sent \in Nat /\ sent' = sent + 2 /\ sent + 1 \in WB!Pieces /\ sent + 2 \in WB!Pieces
      /\ handler[c] = "open" /\ refused' = refused \cup {sent + 1}
      /\ piece' = [piece EXCEPT ![c] = <<sent + 1, sent + 2>>]
      /\ follow' = [follow EXCEPT ![c] = "append"]
      /\ UNCHANGED <<board, handler, appended>>
  BY DEF WB!AppendRefused, BoardPiecesInv, WB!BoardTypeOK, WB!Pieces
<1>2. <<sent + 1, sent + 2>> \in Seq(WB!Pieces)
  BY <1>1
<1>3. WB!BoardTypeOK'
  <2>1. piece' \in [Clients -> Seq(WB!Pieces)]
    BY <1>1, <1>2 DEF BoardPiecesInv, WB!BoardTypeOK
  <2>2. sent' \in 0..MaxPieces
    BY <1>1 DEF WB!Pieces
  <2>3. follow' \in [Clients -> {"none", "append", "length"}]
    BY <1>1 DEF BoardPiecesInv, WB!BoardTypeOK
  <2>4. refused' \subseteq WB!Pieces
    BY <1>1 DEF BoardPiecesInv, WB!BoardTypeOK
  <2>5. QED
    BY <2>1, <2>2, <2>3, <2>4 DEF BoardPiecesInv, WB!BoardTypeOK, WB!AppendRefused
<1>4. /\ piece'[c] = <<sent + 1, sent + 2>> /\ follow'[c] = "append"
      /\ \A d \in Clients : d # c => piece'[d] = piece[d] /\ follow'[d] = follow[d]
  BY <1>1 DEF BoardPiecesInv, WB!BoardTypeOK
<1>5. Len(piece'[c]) = 2 /\ piece'[c][1] = sent + 1 /\ piece'[c][2] = sent + 2
  <2> DEFINE m == sent + 1
             n == sent + 2
  <2>1. piece'[c] = <<m, n>>
    BY <1>4
  <2> HIDE DEF m, n
  <2>2. Len(piece'[c]) = 2 /\ piece'[c][1] = m /\ piece'[c][2] = n
    BY <2>1
  <2>3. QED
    BY <2>2 DEF m, n
<1>6. InHands'
  BY <1>1, <1>4, <1>5 DEF BoardPiecesInv, InHands
<1>7. PiecesOnce'
  <2>1. /\ sent' \in Nat /\ sent < sent' /\ 1..Len(piece'[c]) = {1, 2}
        /\ (sent + 1) \in (sent + 1)..sent' /\ (sent + 2) \in (sent + 1)..sent'
    <3>1. sent \in Nat /\ sent' = sent + 2
      BY <1>1
    <3>2. Len(piece'[c]) = 2
      BY <1>5
    <3>3. 1..Len(piece'[c]) = {1, 2}
      BY <3>2
    <3>4. QED
      BY <3>1, <3>3
  <2>2. \A i \in 1..Len(piece'[c]) : piece'[c][i] \in (sent + 1)..sent'
    <3>1. \A i \in {1, 2} : piece'[c][i] \in (sent + 1)..sent'
      BY <1>5, <2>1
    <3>2. QED
      BY <2>1, <3>1
  <2>3. \A i, j \in 1..Len(piece'[c]) : piece'[c][i] = piece'[c][j] => i = j
    <3>1. piece'[c][1] # piece'[c][2]
      BY <1>1, <1>5
    <3>2. QED
      BY <2>1, <3>1
  <2>4. ASSUME NEW d \in Clients, NEW i \in 1..2, Pending(d, i)'
        PROVE  \/ d = c /\ piece'[c][i] \in (sent + 1)..sent'
               \/ Pending(d, i) /\ piece'[d][i] = piece[d][i]
    BY <1>1, <1>4, <1>5, <2>1, <2>4 DEF Pending
  <2>5. QED
    BY <1>1, <1>4, <2>1, <2>2, <2>3, <2>4, SendKeepsPieces
<1>8. QED
  BY <1>3, <1>6, <1>7 DEF BoardPiecesInv

LEMMA AppendFailsStep ==
    ASSUME BoardPiecesInv, NEW c \in Clients, WB!AppendFails(c)
    PROVE  BoardPiecesInv'
<1> USE BoardConstants
<1>1. /\ \A d \in Clients : handler'[d] \in {handler[d], "open"} /\ follow'[d] \in {follow[d], "none"}
      /\ handler' \in [Clients -> {"closed", "create", "first", "open", "append", "length"}]
      /\ follow' \in [Clients -> {"none", "append", "length"}]
      /\ UNCHANGED <<ended, board, piece, offset, task, held, uploaded, blob, hasDoc, sent,
                     appended, acked, spoiled>>
  BY DEF WB!AppendFails, WB!Handler, BoardPiecesInv, WB!BoardTypeOK
<1>2. refused' \subseteq WB!Pieces
  <2>1. CASE handler[c] = "append"
    <3>1. piece[c][1] \in WB!Pieces
      BY <2>1, PendingInHands DEF Pending
    <3>2. QED
      BY <3>1 DEF WB!AppendFails, BoardPiecesInv, WB!BoardTypeOK
  <2>2. CASE handler[c] # "append"
    BY <2>2 DEF WB!AppendFails, WB!Handler, BoardPiecesInv, WB!BoardTypeOK
  <2>3. QED
    BY <2>1, <2>2
<1>3. faults' \in 0..MaxFaults
  BY DEF WB!AppendFails, BoardPiecesInv, WB!BoardTypeOK
<1>4. WB!BoardTypeOK'
  BY <1>1, <1>2, <1>3 DEF BoardPiecesInv, WB!BoardTypeOK
<1>5. InHands'
  BY <1>1 DEF BoardPiecesInv, InHands
<1>6. PiecesOnce'
  BY <1>1, SameKeepsPieces DEF Pending
<1>7. QED
  BY <1>4, <1>5, <1>6 DEF BoardPiecesInv

\* Steps that append a piece.
LEMMA ExtendTypes ==
    ASSUME BoardPiecesInv, NEW n \in WB!Pieces, WB!Extend(n), spoiled' \subseteq spoiled \cup
              {"overwritten", "revived", "collided", "overtaken"},
           sent' \in 0..MaxPieces,
           handler' \in [Clients -> {"closed", "create", "first", "open", "append", "length"}],
           follow' \in [Clients -> {"none", "append", "length"}],
           UNCHANGED <<ended, piece, offset, task, held, uploaded, blob, hasDoc, faults, acked, refused>>
    PROVE  WB!BoardTypeOK'
<1>1. board' \in Seq(WB!Pieces) /\ appended' \in Seq(WB!Pieces)
  BY Extended DEF BoardPiecesInv
<1>2. spoiled' \subseteq {"overwritten", "revived", "collided", "overtaken", "not_uploaded"}
  BY DEF BoardPiecesInv, WB!BoardTypeOK
<1>3. QED
  BY <1>1, <1>2 DEF BoardPiecesInv, WB!BoardTypeOK

LEMMA InitDataStep ==
    ASSUME BoardPiecesInv, NEW c \in Clients, WB!InitData(c)
    PROVE  BoardPiecesInv'
<1>1. /\ handler[c] = "first" /\ handler' = [handler EXCEPT ![c] = "open"]
      /\ UNCHANGED <<ended, follow, piece, offset, task, held, uploaded, blob, hasDoc, faults, acked, refused>>
  BY DEF WB!InitData, WB!Handler
<1>2. handler' \in [Clients -> {"closed", "create", "first", "open", "append", "length"}]
      /\ follow' \in [Clients -> {"none", "append", "length"}]
  BY <1>1 DEF BoardPiecesInv, WB!BoardTypeOK
<1>3. \A d \in Clients : handler'[d] \in {handler[d], "open"}
  BY <1>1 DEF BoardPiecesInv, WB!BoardTypeOK
<1>4. InHands'
  BY <1>1, <1>3 DEF BoardPiecesInv, InHands
<1>5. \A d \in Clients, i \in 1..2 : Pending(d, i)' => Pending(d, i)
  BY <1>1, <1>3 DEF Pending
<1>6. CASE UNCHANGED <<board, sent, appended, spoiled>>
  <2>1. WB!BoardTypeOK'
    BY <1>1, <1>2, <1>6 DEF BoardPiecesInv, WB!BoardTypeOK
  <2>2. PiecesOnce'
    BY <1>1, <1>5, <1>6, SameKeepsPieces
  <2>3. QED
    BY <1>4, <2>1, <2>2 DEF BoardPiecesInv
<1>7. CASE /\ sent < MaxPieces /\ sent' = sent + 1 /\ WB!Extend(sent + 1)
           /\ spoiled' = spoiled \cup WB!Hazards
  <2> DEFINE n == sent + 1
  <2>1. n \in WB!Pieces /\ sent' = n /\ sent < n /\ sent \in Nat /\ n \in Nat /\ n \in 0..MaxPieces
    BY <1>7, BoardConstants DEF BoardPiecesInv, WB!BoardTypeOK, WB!Pieces
  <2>2. WB!Extend(n)
    BY <1>7
  <2> HIDE DEF n
  <2>3. WB!Hazards \subseteq {"overwritten", "revived"}
    BY DEF WB!Hazards
  <2>4. WB!BoardTypeOK'
    BY <1>1, <1>2, <1>7, <2>1, <2>2, <2>3, ExtendTypes
  <2>5. \A k \in 1..Len(appended) : appended[k] # n
    BY <2>1, PieceNumbers DEF BoardPiecesInv, PiecesOnce
  <2>6. ASSUME NEW d \in Clients, NEW i \in 1..2, Pending(d, i)' PROVE Pending(d, i) /\ piece[d][i] # n
    <3>1. piece[d][i] <= sent /\ piece[d][i] \in Nat
      BY <1>5, <2>6, PendingInHands, PieceNumbers DEF BoardPiecesInv
    <3>2. QED
      BY <1>5, <2>1, <2>6, <3>1
  <2>7. PiecesOnce'
    BY <1>1, <2>1, <2>2, <2>5, <2>6, ExtendKeepsPieces
  <2>8. QED
    BY <1>4, <2>4, <2>7 DEF BoardPiecesInv
<1>8. QED
  BY <1>6, <1>7 DEF WB!InitData

LEMMA AppendDataStep ==
    ASSUME BoardPiecesInv, NEW c \in Clients, WB!AppendData(c)
    PROVE  BoardPiecesInv'
<1>1. /\ handler[c] = "append" /\ handler'[c] = (IF Len(piece[c]) = 1 THEN "length" ELSE "open")
      /\ \A d \in Clients : d # c => handler'[d] = handler[d]
      /\ handler' \in [Clients -> {"closed", "create", "first", "open", "append", "length"}]
      /\ UNCHANGED <<ended, follow, piece, offset, task, held, uploaded, blob, hasDoc, faults,
                     sent, acked, refused>>
  BY DEF WB!AppendData, WB!Handler, BoardPiecesInv, WB!BoardTypeOK
<1>2. Pending(c, 1) /\ 1 \in 1..2
  BY <1>1 DEF Pending
<1> DEFINE n == piece[c][1]
<1>3. /\ n \in WB!Pieces /\ n <= sent /\ 1 \in 1..Len(piece[c])
      /\ \A k \in 1..Len(appended) : appended[k] # n
  BY <1>2, PendingInHands
<1>4. WB!Extend(n) /\ spoiled' \subseteq spoiled \cup {"overwritten", "revived", "collided"}
  BY DEF WB!AppendData, WB!Hazards
<1>5. WB!BoardTypeOK'
  <2>1. sent' \in 0..MaxPieces /\ follow' \in [Clients -> {"none", "append", "length"}]
    BY <1>1 DEF BoardPiecesInv, WB!BoardTypeOK
  <2>2. QED
    BY <1>1, <1>3, <1>4, <2>1, ExtendTypes
<1>6. InHands'
  BY <1>1 DEF BoardPiecesInv, InHands
<1>7. ASSUME NEW d \in Clients, NEW i \in 1..2, Pending(d, i)' PROVE Pending(d, i) /\ piece[d][i] # n
  <2>1. Pending(d, i) /\ ~(d = c /\ i = 1)
    BY <1>1, <1>7 DEF Pending
  <2>2. i \in 1..Len(piece[d])
    BY <2>1, PendingInHands
  <2>3. QED
    BY <1>3, <2>1, <2>2 DEF BoardPiecesInv, PiecesOnce
<1>8. sent' \in Nat /\ sent <= sent' /\ n <= sent'
  BY <1>1, <1>3, PieceNumbers DEF BoardPiecesInv
<1>9. PiecesOnce'
  <2> HIDE DEF n
  <2>1. QED
    BY <1>1, <1>3, <1>4, <1>7, <1>8, ExtendKeepsPieces
<1>10. QED
  BY <1>5, <1>6, <1>9 DEF BoardPiecesInv

LEMMA ContinueDataStep ==
    ASSUME BoardPiecesInv, NEW c \in Clients, WB!ContinueData(c)
    PROVE  BoardPiecesInv'
<1>1. /\ follow[c] = "append" /\ follow'[c] = "length"
      /\ \A d \in Clients : d # c => follow'[d] = follow[d]
      /\ follow' \in [Clients -> {"none", "append", "length"}]
      /\ UNCHANGED <<ended, handler, piece, offset, task, held, uploaded, blob, hasDoc, faults,
                     sent, acked, refused>>
  BY DEF WB!ContinueData, BoardPiecesInv, WB!BoardTypeOK
<1>2. Pending(c, 2) /\ 2 \in 1..2
  BY <1>1 DEF Pending
<1> DEFINE n == piece[c][2]
<1>3. /\ n \in WB!Pieces /\ n <= sent /\ 2 \in 1..Len(piece[c])
      /\ \A k \in 1..Len(appended) : appended[k] # n
  BY <1>2, PendingInHands
<1>4. WB!Extend(n) /\ spoiled' \subseteq spoiled \cup {"overwritten", "revived", "overtaken"}
  BY DEF WB!ContinueData, WB!Hazards
<1>5. WB!BoardTypeOK'
  <2>1. /\ sent' \in 0..MaxPieces
        /\ handler' \in [Clients -> {"closed", "create", "first", "open", "append", "length"}]
    BY <1>1 DEF BoardPiecesInv, WB!BoardTypeOK
  <2>2. QED
    BY <1>1, <1>3, <1>4, <2>1, ExtendTypes
<1>6. InHands'
  BY <1>1 DEF BoardPiecesInv, InHands
<1>7. ASSUME NEW d \in Clients, NEW i \in 1..2, Pending(d, i)' PROVE Pending(d, i) /\ piece[d][i] # n
  <2>1. Pending(d, i) /\ ~(d = c /\ i = 2)
    BY <1>1, <1>7 DEF Pending
  <2>2. i \in 1..Len(piece[d])
    BY <2>1, PendingInHands
  <2>3. QED
    BY <1>3, <2>1, <2>2 DEF BoardPiecesInv, PiecesOnce
<1>8. sent' \in Nat /\ sent <= sent' /\ n <= sent'
  BY <1>1, <1>3, PieceNumbers DEF BoardPiecesInv
<1>9. PiecesOnce'
  <2> HIDE DEF n
  <2>1. QED
    BY <1>1, <1>3, <1>4, <1>7, <1>8, ExtendKeepsPieces
<1>10. QED
  BY <1>5, <1>6, <1>9 DEF BoardPiecesInv

LEMMA BoardStep == BoardPiecesInv /\ WB!BoardNext => BoardPiecesInv'
  BY QuietBoardStep, AppendLengthStep, SendMoreStep, AppendRefusedStep, AppendFailsStep,
     InitDataStep, AppendDataStep, ContinueDataStep DEF WB!BoardNext

-----------------------------------------------------------------------------
\* The whiteboard: nothing that was acknowledged is lost.

Text     == IF board = None THEN <<>> ELSE board
Creating == \E c \in Clients : handler[c] = "create"

\* The document is all that was appended until it is uploaded, and who is about to
\* create one has found none.
BoardKept ==
    /\ task # "wait" \/ blob # None => ended
    /\ uploaded \/ hasDoc => blob # None
    /\ "overwritten" \notin spoiled /\ Creating => WB!Missing
    /\ blob = None /\ spoiled \cap {"overwritten", "not_uploaded"} = {} =>
          task \notin {"flag", "delete"} /\ Text = appended

\* What a handler of c is about to acknowledge has been appended, but for an APPEND
\* that was refused.
HandsKept(c) ==
    /\ handler[c] = "length" \/ follow[c] = "length" =>
          WB!ToSet(piece[c]) \subseteq WB!ToSet(appended) \cup refused
    /\ follow[c] # "none" => handler[c] \in {"append", "open"}
    /\ follow[c] = "append" /\ handler[c] # "append" =>
          piece[c][1] \in WB!ToSet(appended) \cup refused

\* What is acknowledged was appended, but for that; the job holds and uploads no less.
AcksKept ==
    spoiled \subseteq {"collided"} =>
        /\ acked \subseteq WB!ToSet(appended) \cup refused
        /\ \A c \in Clients : HandsKept(c)
        /\ blob # None => acked \subseteq WB!ToSet(blob) \cup refused
        /\ task = "upload" => acked \subseteq WB!ToSet(held) \cup refused
        /\ Text \in {<<>>, appended}

\* An append spoils the document when somebody is about to create one, or the job
\* has got past the upload.
LEMMA Spoils ==
    /\ Creating => "overwritten" \in WB!Hazards
    /\ task \in {"flag", "delete", "done"} \/ blob # None => "revived" \in WB!Hazards
  BY DEF WB!Hazards, Creating

LEMMA ExtendKeepsBoard ==
    ASSUME BoardPiecesInv, BoardKept, NEW n \in WB!Pieces, WB!Extend(n), WB!Hazards \subseteq spoiled',
           spoiled \subseteq spoiled', Creating' => Creating,
           UNCHANGED <<ended, task, uploaded, blob, hasDoc>>
    PROVE  BoardKept'
<1>1. Text' = Append(Text, n) /\ appended' = Append(appended, n)
  <2>1. board' # None
    BY Extended, BoardConstants DEF BoardPiecesInv
  <2>2. Append(<<>>, n) = <<n>>
    BY EmptySeq
  <2>3. QED
    BY <2>1, <2>2 DEF Text, WB!Extend
<1>2. "overwritten" \notin spoiled' => ~Creating'
  BY Spoils
<1>3. QED
  BY <1>1, <1>2 DEF BoardKept

LEMMA BoardKeptStep == BoardPiecesInv /\ BoardKept /\ WB!BoardNext => BoardKept'
<1> SUFFICES ASSUME BoardPiecesInv, BoardKept, WB!BoardNext PROVE BoardKept'
  OBVIOUS
<1> USE BoardConstants
<1>1. ASSUME NEW c \in Clients, WB!InitGet(c) PROVE BoardKept'
  <2>1. /\ Creating' => Creating \/ WB!Missing
        /\ UNCHANGED <<board, ended, task, uploaded, blob, hasDoc, appended, spoiled>>
    BY <1>1 DEF WB!InitGet, WB!Handler, Creating, BoardPiecesInv, WB!BoardTypeOK
  <2>2. QED
    BY <2>1 DEF BoardKept, Text, WB!Missing
<1>2. ASSUME NEW c \in Clients, WB!InitCreate(c) PROVE BoardKept'
  <2>1. Creating /\ board' = <<>>
        /\ UNCHANGED <<ended, task, uploaded, blob, hasDoc, appended, spoiled>>
    BY <1>2 DEF WB!InitCreate, WB!Handler, Creating
  <2>2. QED
    BY <2>1 DEF BoardKept, Text, WB!Missing
<1>3. ASSUME NEW c \in Clients, WB!InitData(c) PROVE BoardKept'
  <2>1. Creating' => Creating
    BY <1>3 DEF WB!InitData, WB!Handler, Creating, BoardPiecesInv, WB!BoardTypeOK
  <2>2. CASE UNCHANGED <<board, sent, appended, spoiled>>
    BY <1>3, <2>1, <2>2 DEF BoardKept, Text, WB!Missing, WB!InitData
  <2>3. CASE WB!Extend(sent + 1) /\ spoiled' = spoiled \cup WB!Hazards
    <3>1. sent + 1 \in WB!Pieces \/ UNCHANGED <<board, sent, appended, spoiled>>
      BY <1>3 DEF WB!InitData, WB!Pieces, BoardPiecesInv, WB!BoardTypeOK
    <3>2. QED
      BY <1>3, <2>1, <2>2, <2>3, <3>1, ExtendKeepsBoard DEF WB!InitData
  <2>4. QED
    BY <1>3, <2>2, <2>3 DEF WB!InitData
<1>4. ASSUME NEW c \in Clients, WB!AppendData(c) \/ WB!ContinueData(c) PROVE BoardKept'
  <2>1. Creating' => Creating
    BY <1>4 DEF WB!AppendData, WB!ContinueData, WB!Handler, Creating, BoardPiecesInv, WB!BoardTypeOK
  <2>2. PICK n \in WB!Pieces : WB!Extend(n)
    <3>1. CASE WB!AppendData(c)
      <4>1. Pending(c, 1) /\ WB!Extend(piece[c][1])
        BY <3>1 DEF WB!AppendData, WB!Handler, Pending
      <4>2. QED
        BY <4>1, PendingInHands
    <3>2. CASE WB!ContinueData(c)
      <4>1. Pending(c, 2) /\ WB!Extend(piece[c][2])
        BY <3>2 DEF WB!ContinueData, Pending
      <4>2. QED
        BY <4>1, PendingInHands
    <3>3. QED
      BY <1>4, <3>1, <3>2
  <2>3. /\ WB!Hazards \subseteq spoiled' /\ spoiled \subseteq spoiled'
        /\ UNCHANGED <<ended, task, uploaded, blob, hasDoc>>
    BY <1>4 DEF WB!AppendData, WB!ContinueData
  <2>4. QED
    BY <2>1, <2>2, <2>3, ExtendKeepsBoard
<1>5. ASSUME NEW c \in Clients,
             \/ WB!AppendLength(c) \/ WB!SendMore(c) \/ WB!AppendRefused(c)
             \/ WB!AppendFails(c) \/ WB!Ack(c)
      PROVE  BoardKept'
  <2>1. /\ Creating' => Creating
        /\ UNCHANGED <<board, ended, task, uploaded, blob, hasDoc, appended, spoiled>>
    BY <1>5 DEF WB!AppendLength, WB!SendMore, WB!AppendRefused, WB!AppendFails, WB!Ack, WB!Handler,
                Creating, BoardPiecesInv, WB!BoardTypeOK
  <2>2. QED
    BY <2>1 DEF BoardKept, Text, WB!Missing
<1>6. CASE WB!BoardEnd
  BY <1>6 DEF WB!BoardEnd, WB!boardVars, BoardKept, Text, Creating, WB!Missing
<1>7. CASE WB!TaskGet
  BY <1>7 DEF WB!TaskGet, WB!Task, BoardKept, Text, Creating, WB!Missing
<1>8. CASE WB!TaskUpload
  <2>1. held # None /\ ended
    BY <1>8 DEF BoardPiecesInv, WB!BoardTypeOK, BoardKept, WB!TaskUpload, WB!Task
  <2>2. UNCHANGED <<board, ended, hasDoc, appended, handler>> /\ task' = "flag"
    BY <1>8 DEF WB!TaskUpload, WB!Task
  <2>3. \/ uploaded' = TRUE /\ blob' = held /\ spoiled' = spoiled
        \/ uploaded' = FALSE /\ blob' = blob /\ spoiled' = spoiled \cup {"not_uploaded"}
    BY <1>8 DEF WB!TaskUpload
  <2>4. QED
    BY <2>1, <2>2, <2>3 DEF BoardKept, Text, Creating, WB!Missing
<1>9. CASE WB!TaskFlag
  BY <1>9 DEF WB!TaskFlag, WB!Task, BoardKept, Text, Creating, WB!Missing
<1>10. CASE WB!TaskDelete
  BY <1>10 DEF WB!TaskDelete, WB!Task, BoardKept, Text, Creating, WB!Missing
<1>11. CASE WB!TaskFails \/ WB!TaskCrash
  BY <1>11 DEF WB!TaskFails, WB!TaskCrash, BoardKept, Text, Creating, WB!Missing
<1>12. QED
  BY <1>1, <1>2, <1>3, <1>4, <1>5, <1>6, <1>7, <1>8, <1>9, <1>10, <1>11
  DEF WB!BoardNext, WB!TaskStep

\* The elements of what a client has in its hands.
LEMMA HandElements ==
    ASSUME BoardPiecesInv, NEW c \in Clients
    PROVE  /\ Len(piece[c]) = 1 => WB!ToSet(piece[c]) = {piece[c][1]}
           /\ Len(piece[c]) = 2 => WB!ToSet(piece[c]) = {piece[c][1], piece[c][2]}
<1>1. DOMAIN piece[c] = 1..Len(piece[c])
  BY DEF BoardPiecesInv, WB!BoardTypeOK
<1>2. ASSUME Len(piece[c]) = 1 PROVE WB!ToSet(piece[c]) = {piece[c][1]}
  <2>1. DOMAIN piece[c] = {1}
    BY <1>1, <1>2
  <2>2. QED
    BY <2>1 DEF WB!ToSet
<1>3. ASSUME Len(piece[c]) = 2 PROVE WB!ToSet(piece[c]) = {piece[c][1], piece[c][2]}
  <2>1. DOMAIN piece[c] = {1, 2}
    BY <1>1, <1>3
  <2>2. QED
    BY <2>1 DEF WB!ToSet
<1>4. QED
  BY <1>2, <1>3

\* Steps that append a piece, and spoil nothing.
LEMMA ExtendKeepsAcks ==
    ASSUME BoardPiecesInv, BoardKept, AcksKept, NEW n \in WB!Pieces, WB!Extend(n),
           WB!Hazards \subseteq spoiled', spoiled \subseteq spoiled', spoiled' \subseteq {"collided"},
           UNCHANGED <<task, blob, held, acked, refused>>,
           \A c \in Clients : HandsKept(c)'
    PROVE  AcksKept'
<1>1. Text' = Append(Text, n) /\ appended' = Append(appended, n)
  <2>1. board' # None
    BY Extended, BoardConstants DEF BoardPiecesInv
  <2>2. Append(<<>>, n) = <<n>>
    BY EmptySeq
  <2>3. QED
    BY <2>1, <2>2 DEF Text, WB!Extend
<1>2. spoiled \subseteq {"collided"} /\ "revived" \notin WB!Hazards
  OBVIOUS
<1>3. blob = None
  BY <1>2, Spoils
<1>4. Text = appended
  BY <1>2, <1>3 DEF BoardKept
<1>5. WB!ToSet(appended) \subseteq WB!ToSet(appended')
  BY Extended DEF BoardPiecesInv
<1>6. QED
  BY <1>1, <1>2, <1>4, <1>5 DEF AcksKept

LEMMA ClientKeepsAcks ==
    ASSUME BoardPiecesInv, BoardKept, AcksKept, NEW c \in Clients, spoiled' \subseteq {"collided"},
           \/ WB!InitGet(c) \/ WB!InitCreate(c) \/ WB!InitData(c) \/ WB!AppendLength(c)
           \/ WB!SendMore(c) \/ WB!AppendRefused(c) \/ WB!AppendFails(c) \/ WB!AppendData(c)
           \/ WB!ContinueData(c) \/ WB!Ack(c)
    PROVE  AcksKept'
<1> USE BoardConstants
<1>0. spoiled \subseteq spoiled' /\ spoiled \subseteq {"collided"}
  <2>1. spoiled \subseteq spoiled'
    BY DEF WB!InitGet, WB!InitCreate, WB!InitData, WB!AppendLength, WB!SendMore, WB!AppendRefused,
           WB!AppendFails, WB!AppendData, WB!ContinueData, WB!Ack
  <2>2. QED
    BY <2>1
<1>1. HandsKept(c)
  BY <1>0 DEF AcksKept
<1>2. CASE WB!InitGet(c) \/ WB!InitCreate(c) \/ WB!AppendLength(c) \/ WB!SendMore(c)
  <2>1. /\ UNCHANGED <<appended, spoiled, blob, held, task, acked, refused>>
        /\ board' \in {board, <<>>}
        /\ \A d \in Clients \ {c} : UNCHANGED <<handler[d], follow[d], piece[d]>>
    BY <1>2 DEF WB!InitGet, WB!InitCreate, WB!AppendLength, WB!SendMore, WB!Handler, BoardPiecesInv,
                WB!BoardTypeOK
  <2>2. HandsKept(c)'
    BY <1>1, <1>2, <2>1 DEF WB!InitGet, WB!InitCreate, WB!AppendLength, WB!SendMore, WB!Handler,
                            BoardPiecesInv, WB!BoardTypeOK, HandsKept
  <2>3. \A d \in Clients : HandsKept(d)'
    BY <1>0, <2>1, <2>2 DEF AcksKept, HandsKept
  <2>4. QED
    BY <1>0, <2>1, <2>3 DEF AcksKept, Text
<1>3. CASE WB!Ack(c)
  <2>1. /\ UNCHANGED <<board, appended, spoiled, blob, held, task, piece, refused>>
        /\ handler[c] = "length" \/ follow[c] = "length"
        /\ \A d \in Clients : \/ UNCHANGED <<handler[d], follow[d]>>
                              \/ handler[d] = "length" /\ handler'[d] = "open" /\ follow'[d] = follow[d]
                              \/ follow'[d] = "none" /\ handler'[d] = handler[d]
        /\ acked' = acked \/ (~ended /\ acked' = acked \cup WB!ToSet(piece[c]))
    BY <1>3 DEF WB!Ack, WB!Handler, BoardPiecesInv, WB!BoardTypeOK
  <2>2. \A d \in Clients : HandsKept(d)'
    BY <1>0, <2>1 DEF AcksKept, HandsKept
  <2>3. WB!ToSet(piece[c]) \subseteq WB!ToSet(appended) \cup refused
    BY <1>1, <2>1 DEF HandsKept
  <2>4. task = "upload" \/ blob # None => ended
    BY DEF BoardKept
  <2>5. QED
    BY <1>0, <2>1, <2>2, <2>3, <2>4 DEF AcksKept, Text
<1>4. CASE WB!InitData(c)
  <2>1. /\ \A d \in Clients : \/ handler'[d] = handler[d]
                              \/ handler[d] = "first" /\ handler'[d] = "open"
        /\ UNCHANGED <<follow, piece, blob, held, task, acked, refused>>
    BY <1>4 DEF WB!InitData, WB!Handler, BoardPiecesInv, WB!BoardTypeOK
  <2>2. CASE UNCHANGED <<board, sent, appended, spoiled>>
    <3>1. \A d \in Clients : HandsKept(d)'
      BY <1>0, <2>1, <2>2 DEF AcksKept, HandsKept
    <3>2. QED
      BY <1>0, <2>1, <2>2, <3>1 DEF AcksKept, Text
  <2>3. CASE sent < MaxPieces /\ WB!Extend(sent + 1) /\ spoiled' = spoiled \cup WB!Hazards
    <3> DEFINE n == sent + 1
    <3>1. n \in WB!Pieces /\ WB!Extend(n)
      BY <2>3 DEF WB!Pieces, BoardPiecesInv, WB!BoardTypeOK
    <3> HIDE DEF n
    <3>2. WB!ToSet(appended) \subseteq WB!ToSet(appended')
      BY <3>1, Extended DEF BoardPiecesInv
    <3>3. \A d \in Clients : HandsKept(d)'
      BY <1>0, <2>1, <3>2 DEF AcksKept, HandsKept
    <3>4. QED
      BY <2>1, <2>3, <3>1, <3>3, ExtendKeepsAcks
  <2>4. QED
    BY <1>4, <2>2, <2>3 DEF WB!InitData
<1>5. CASE WB!AppendData(c)
  <2> DEFINE n == piece[c][1]
  <2>1. Pending(c, 1) /\ handler[c] = "append"
    BY <1>5 DEF WB!AppendData, WB!Handler, Pending
  <2>2. n \in WB!Pieces
    BY <2>1, PendingInHands
  <2>3. /\ WB!Extend(n) /\ WB!Hazards \subseteq spoiled'
        /\ UNCHANGED <<follow, piece, blob, held, task, acked, refused>>
    BY <1>5 DEF WB!AppendData
  <2>4. /\ handler'[c] = (IF Len(piece[c]) = 1 THEN "length" ELSE "open")
        /\ \A d \in Clients : d # c => handler'[d] = handler[d]
    BY <1>5 DEF WB!AppendData, WB!Handler, BoardPiecesInv, WB!BoardTypeOK
  <2>5. WB!ToSet(appended') = WB!ToSet(appended) \cup {n}
    BY <2>2, <2>3, Extended DEF BoardPiecesInv
  <2>6. HandsKept(c)'
    <3>1. CASE Len(piece[c]) = 1
      <4>1. follow[c] = "none"
        BY <3>1 DEF BoardPiecesInv, InHands
      <4>2. WB!ToSet(piece[c]) = {n}
        BY <3>1, HandElements
      <4>3. QED
        BY <2>3, <2>4, <2>5, <3>1, <4>1, <4>2 DEF HandsKept
    <3>2. CASE Len(piece[c]) # 1
      BY <1>1, <2>3, <2>4, <2>5, <3>2 DEF HandsKept
    <3>3. QED
      BY <3>1, <3>2
  <2>7. \A d \in Clients : HandsKept(d)'
    BY <1>0, <2>3, <2>4, <2>5, <2>6 DEF AcksKept, HandsKept
  <2> HIDE DEF n
  <2>8. QED
    BY <1>0, <2>2, <2>3, <2>7, ExtendKeepsAcks
<1>6. CASE WB!ContinueData(c)
  <2> DEFINE n == piece[c][2]
  <2>1. Pending(c, 2) /\ follow[c] = "append"
    BY <1>6 DEF WB!ContinueData, Pending
  <2>2. n \in WB!Pieces
    BY <2>1, PendingInHands
  <2>3. /\ WB!Extend(n) /\ WB!Hazards \subseteq spoiled'
        /\ UNCHANGED <<handler, piece, blob, held, task, acked, refused>>
        /\ handler[c] # "append"
    BY <1>6 DEF WB!ContinueData
  <2>4. follow'[c] = "length" /\ \A d \in Clients : d # c => follow'[d] = follow[d]
    BY <1>6 DEF WB!ContinueData, BoardPiecesInv, WB!BoardTypeOK
  <2>5. WB!ToSet(appended') = WB!ToSet(appended) \cup {n}
    BY <2>2, <2>3, Extended DEF BoardPiecesInv
  <2>6. HandsKept(c)'
    <3>1. WB!ToSet(piece[c]) = {piece[c][1], n}
      BY <2>1, HandElements DEF BoardPiecesInv, InHands
    <3>2. piece[c][1] \in WB!ToSet(appended) \cup refused /\ handler[c] = "open"
      BY <1>1, <2>1, <2>3 DEF HandsKept
    <3>3. QED
      BY <2>3, <2>4, <2>5, <3>1, <3>2 DEF HandsKept
  <2>7. \A d \in Clients : HandsKept(d)'
    BY <1>0, <2>3, <2>4, <2>5, <2>6 DEF AcksKept, HandsKept
  <2> HIDE DEF n
  <2>8. QED
    BY <1>0, <2>2, <2>3, <2>7, ExtendKeepsAcks
<1>7. CASE WB!AppendRefused(c)
  <2>1. /\ sent + 1 \in refused' /\ refused \subseteq refused' /\ handler[c] = "open"
        /\ UNCHANGED <<board, handler, appended, spoiled, blob, held, task, acked>>
        /\ piece'[c] = <<sent + 1, sent + 2>> /\ follow'[c] = "append"
        /\ \A d \in Clients \ {c} : UNCHANGED <<follow[d], piece[d]>>
    BY <1>7 DEF WB!AppendRefused, BoardPiecesInv, WB!BoardTypeOK
  <2>2. HandsKept(c)'
    <3>1. piece'[c][1] = sent + 1
      BY <2>1
    <3>2. QED
      BY <2>1, <3>1 DEF HandsKept
  <2>3. \A d \in Clients : HandsKept(d)'
    BY <1>0, <2>1, <2>2 DEF AcksKept, HandsKept
  <2>4. QED
    BY <1>0, <2>1, <2>3 DEF AcksKept, Text
<1>8. CASE WB!AppendFails(c)
  <2>1. /\ refused \subseteq refused'
        /\ UNCHANGED <<board, piece, appended, spoiled, blob, held, task, acked>>
        /\ \A d \in Clients \ {c} : UNCHANGED <<handler[d], follow[d]>>
        /\ \/ /\ handler[c] = "append" /\ handler'[c] = "open" /\ follow'[c] = follow[c]
              /\ piece[c][1] \in refused'
           \/ follow[c] = "append" /\ follow'[c] = "none" /\ handler'[c] = handler[c]
    BY <1>8 DEF WB!AppendFails, WB!Handler, BoardPiecesInv, WB!BoardTypeOK
  <2>2. HandsKept(c)'
    BY <1>1, <2>1 DEF HandsKept
  <2>3. \A d \in Clients : HandsKept(d)'
    BY <1>0, <2>1, <2>2 DEF AcksKept, HandsKept
  <2>4. QED
    BY <1>0, <2>1, <2>3 DEF AcksKept, Text
<1>9. QED
  BY <1>2, <1>3, <1>4, <1>5, <1>6, <1>7, <1>8

LEMMA AcksKeptStep == BoardPiecesInv /\ BoardKept /\ AcksKept /\ WB!BoardNext => AcksKept'
<1> SUFFICES ASSUME BoardPiecesInv, BoardKept, AcksKept, WB!BoardNext, spoiled' \subseteq {"collided"}
             PROVE  AcksKept'
  BY DEF AcksKept
<1>1. CASE WB!BoardEnd
  BY <1>1 DEF WB!BoardEnd, WB!boardVars, AcksKept, HandsKept, Text
<1>2. CASE WB!TaskGet
  <2>1. /\ UNCHANGED <<board, handler, follow, piece, blob, appended, acked, refused, spoiled>>
        /\ task' = "upload" => ~WB!Missing /\ held' = board
    BY <1>2 DEF WB!TaskGet, WB!Task
  <2>2. ~WB!Missing => Text = board /\ Text = appended
    BY <2>1 DEF AcksKept, Text, WB!Missing
  <2>3. QED
    BY <2>1, <2>2 DEF AcksKept, HandsKept, Text
<1>3. CASE WB!TaskUpload
  <2>1. /\ UNCHANGED <<board, handler, follow, piece, held, appended, acked, refused>>
        /\ task = "upload" /\ task' = "flag" /\ blob' = held /\ spoiled' = spoiled
    BY <1>3 DEF WB!TaskUpload, WB!Task
  <2>2. QED
    BY <2>1 DEF AcksKept, HandsKept, Text
<1>4. CASE WB!TaskFlag \/ WB!TaskDelete \/ WB!TaskFails \/ WB!TaskCrash
  <2>1. /\ UNCHANGED <<handler, follow, piece, held, appended, acked, refused, blob, spoiled>>
        /\ task' # "upload" /\ board' \in {board, None}
    BY <1>4 DEF WB!TaskFlag, WB!TaskDelete, WB!TaskFails, WB!TaskCrash, WB!Task
  <2>2. QED
    BY <2>1 DEF AcksKept, HandsKept, Text
<1>5. QED
  BY <1>1, <1>2, <1>3, <1>4, ClientKeepsAcks DEF WB!BoardNext, WB!TaskStep

-----------------------------------------------------------------------------
\* Both versions of the document: types.

Labels2 == {"idle", "read", "seed", "add", "store", "delete", "done", "failed"}

UpdatesTypeOK ==
    /\ version \in {1, 2} /\ worksheet \in BOOLEAN
    /\ updates \subseteq Updates /\ joined \subseteq Sockets
    /\ stored2 \in (SUBSET Updates) \cup {None} /\ found \subseteq Updates
    /\ at2 \in [Procs -> Labels2]
    /\ edits \in 0..MaxUpdates /\ editsAtEnd \in 0..MaxUpdates

LEMMA DocTypes ==
    /\ DocTypeOK <=> TypeOK /\ UpdatesTypeOK
    /\ DocTypeOK' <=> TypeOK' /\ UpdatesTypeOK'
  BY DEF DocTypeOK, UpdatesTypeOK, Labels2

LEMMA DocTypeInit == DocInit => DocTypeOK
<1> SUFFICES ASSUME DocInit PROVE DocTypeOK
  OBVIOUS
<1>1. TypeOK
  BY TypeInit DEF DocInit
<1>2. updates \subseteq Updates /\ edits \in 0..MaxUpdates /\ editsAtEnd \in 0..MaxUpdates
  BY UpdatesOK DEF DocInit, Updates
<1>3. at2 \in [Procs -> Labels2]
  BY DEF DocInit, Labels2
<1>4. UpdatesTypeOK
  <2>1. /\ version \in {1, 2} /\ worksheet \in BOOLEAN
        /\ joined = {} /\ stored2 = None /\ found = {}
    BY DEF DocInit
  <2>2. QED
    BY <1>2, <1>3, <2>1 DEF UpdatesTypeOK
<1>5. QED
  BY <1>1, <1>4, DocTypes

\* The steps of a reader or a socket that only move at2.
LEMMA TypeAsk ==
    ASSUME DocTypeOK, NEW p \in Procs,
           RequestStateV2(p) \/ TransmitDeltaV2(p) \/ BotAskedDoc(p) \/ ReadNothing(p)
             \/ (p = Job /\ JobReads)
    PROVE  DocTypeOK'
<1>1. /\ UNCHANGED <<vars, version, worksheet, updates, joined, stored2, found, edits, editsAtEnd>>
      /\ \E label \in Labels2 : at2' = [at2 EXCEPT ![p] = label]
  BY DEF RequestStateV2, TransmitDeltaV2, BotAskedDoc, ReadNothing, JobReads, Goto2, Labels2
<1>2. TypeOK'
  BY <1>1, DocTypes DEF TypeOK, vars, locals
<1>3. UpdatesTypeOK'
  BY <1>1, DocTypes DEF UpdatesTypeOK
<1>4. QED
  BY <1>2, <1>3, DocTypes

LEMMA TypeAdd ==
    ASSUME DocTypeOK, NEW p \in Sockets, AddUpdate(p)
    PROVE  DocTypeOK'
<1> USE Constants, UpdatesOK
<1>1. TypeOK'
  <2>1. harmed' \subseteq harmed \cup {"revived"}
    BY DEF AddUpdate
  <2>2. QED
    BY <2>1, DocTypes DEF TypeOK, AddUpdate, locals
<1>2. edits + 1 \in 1..MaxUpdates
  BY DocTypes DEF UpdatesTypeOK, AddUpdate
<1>3. updates' \subseteq Updates /\ edits' \in 0..MaxUpdates
  BY <1>2, DocTypes DEF UpdatesTypeOK, AddUpdate, Updates
<1>4. at2' \in [Procs -> Labels2]
  BY DocTypes DEF UpdatesTypeOK, AddUpdate, Goto2, Labels2
<1>5. QED
  BY <1>1, <1>3, <1>4, DocTypes DEF UpdatesTypeOK, AddUpdate

\* What a caller of getDocumentUpdates does with the result.
LEMMA TypeGot ==
    ASSUME DocTypeOK, NEW p \in Procs, NEW us \in SUBSET Updates, Got(p, us)
    PROVE  /\ joined' \subseteq Sockets /\ found' \subseteq Updates /\ at2' \in [Procs -> Labels2]
           /\ pc' \in [Procs -> Labels] /\ retries' \in [Readers -> 0..MaxRetries]
<1> USE Constants, ConstantsOK
<1>1. TypeOK /\ UpdatesTypeOK
  BY DocTypes
<1>2. \E label \in Labels2 : at2' = [at2 EXCEPT ![p] = label]
  BY DEF Got, Goto2, Labels2
<1>3. at2' \in [Procs -> Labels2]
  BY <1>1, <1>2 DEF UpdatesTypeOK
<1>4. pc' \in [Procs -> Labels] /\ retries' \in [Readers -> 0..MaxRetries]
  BY <1>1 DEF Got, TypeOK, Labels
<1>5. joined' \subseteq Sockets /\ found' \subseteq Updates
  BY <1>1 DEF Got, UpdatesTypeOK
<1>6. QED
  BY <1>3, <1>4, <1>5

LEMMA TypeRead ==
    ASSUME DocTypeOK, NEW p \in Procs, ReadUpdates(p) \/ Seed(p)
    PROVE  DocTypeOK'
<1>1. TypeOK /\ UpdatesTypeOK
  BY DocTypes
<1>2. PICK us \in SUBSET Updates : Got(p, us)
  BY <1>1 DEF ReadUpdates, Seed, UpdatesTypeOK, Updates
<1>3. updates' \subseteq Updates /\ harmed' \subseteq harmed \cup {"seeded", "revived"}
  BY <1>1 DEF ReadUpdates, Seed, UpdatesTypeOK, Updates
<1>4. UNCHANGED <<doc, queue, lock, ended, stored, opened, hand, took, faults,
                  pushed, atEnd, version, worksheet, stored2, edits, editsAtEnd>>
  BY DEF ReadUpdates, Seed
<1>5. TypeOK'
  BY <1>1, <1>2, <1>3, <1>4, TypeGot DEF TypeOK
<1>6. UpdatesTypeOK'
  BY <1>1, <1>2, <1>3, <1>4, TypeGot DEF UpdatesTypeOK
<1>7. QED
  BY <1>5, <1>6, DocTypes

LEMMA TypeStore ==
    ASSUME DocTypeOK,
           StoreUpdates \/ StoreV1 \/ DeleteUpdates \/ DeleteV1Fails \/ JobCallFailsV1
             \/ JobCallFailsV2
    PROVE  DocTypeOK'
<1> USE Constants, ConstantsOK
<1>1. TypeOK /\ UpdatesTypeOK
  BY DocTypes
<1>2. CASE StoreUpdates
  <2>1. TypeOK'
    BY <1>1, <1>2 DEF TypeOK, StoreUpdates, Goto, Labels
  <2>2. UpdatesTypeOK'
    BY <1>1, <1>2 DEF UpdatesTypeOK, StoreUpdates, Goto2, Labels2
  <2>3. QED
    BY <2>1, <2>2, DocTypes
<1>3. CASE StoreV1
  <2>1. TypeOK'
    BY <1>1, <1>3, TypeJobStep DEF StoreV1
  <2>2. /\ UNCHANGED <<version, worksheet, updates, joined, at2, found, edits, editsAtEnd>>
        /\ stored2' = None
    BY <1>3 DEF StoreV1
  <2>3. UpdatesTypeOK'
    BY <1>1, <2>2 DEF UpdatesTypeOK
  <2>4. QED
    BY <2>1, <2>3, DocTypes
<1>4. CASE DeleteUpdates
  <2>1. TypeOK'
    BY <1>1, <1>4 DEF TypeOK, DeleteUpdates, vars, locals
  <2>2. UpdatesTypeOK'
    BY <1>1, <1>4 DEF UpdatesTypeOK, DeleteUpdates, Goto2, Labels2
  <2>3. QED
    BY <2>1, <2>2, DocTypes
<1>5. CASE DeleteV1Fails
  BY <1>1, <1>5, TypeJobStep, DocTypes DEF UpdatesTypeOK, DeleteV1Fails, Goto2, Labels2
<1>6. CASE JobCallFailsV1
  <2>1. at2' \in [Procs -> Labels2]
    BY <1>1, <1>6 DEF JobCallFailsV1, UpdatesTypeOK, Goto2, Labels2
  <2>2. QED
    BY <1>1, <1>6, <2>1, TypeJobStep, DocTypes DEF UpdatesTypeOK, JobCallFailsV1
<1>7. CASE JobCallFailsV2
  <2>1. PICK next \in {"done", "failed"} : Goto(Job, next) /\ Goto2(Job, next)
    BY <1>7 DEF JobCallFailsV2
  <2>2. faults' \in 0..MaxFaults
    BY <1>1, <1>7 DEF JobCallFailsV2, TypeOK
  <2>3. TypeOK'
    BY <1>1, <1>7, <2>1, <2>2 DEF TypeOK, JobCallFailsV2, Goto, Labels
  <2>4. UpdatesTypeOK'
    BY <1>1, <1>7, <2>1 DEF UpdatesTypeOK, JobCallFailsV2, Goto2, Labels2
  <2>5. QED
    BY <2>3, <2>4, DocTypes
<1>8. QED
  BY <1>2, <1>3, <1>4, <1>5, <1>6, <1>7

LEMMA TypeCrash ==
    ASSUME DocTypeOK, NEW p \in Procs, CrashDoc(p)
    PROVE  DocTypeOK'
<1> USE Constants, ConstantsOK
<1>1. TypeOK /\ UpdatesTypeOK
  BY DocTypes
<1>2. UpdatesTypeOK'
  <2>1. /\ UNCHANGED <<version, worksheet, updates, joined, stored2, found, edits, editsAtEnd>>
        /\ at2' = [at2 EXCEPT ![p] = "idle"]
    BY DEF CrashDoc, Goto2
  <2>2. at2' \in [Procs -> Labels2]
    BY <1>1, <2>1 DEF UpdatesTypeOK, Labels2
  <2>3. QED
    BY <1>1, <2>1, <2>2 DEF UpdatesTypeOK
<1>3. CASE Crash(p)
  BY <1>1, <1>2, <1>3, TypeEnvironment, DocTypes
<1>4. CASE ~Crash(p)
  <2>1. faults' \in 0..MaxFaults
    BY <1>1, <1>4 DEF CrashDoc, TypeOK
  <2>2. pc' \in [Procs -> Labels]
    BY <1>1, <1>4 DEF CrashDoc, TypeOK, Goto, Labels
  <2>3. TypeOK'
    BY <1>1, <1>4, <2>1, <2>2 DEF CrashDoc, TypeOK
  <2>4. QED
    BY <1>2, <2>3, DocTypes
<1>5. QED
  BY <1>3, <1>4

LEMMA DocTypeStep == DocTypeOK /\ DocNext => DocTypeOK'
<1> SUFFICES ASSUME DocTypeOK, DocNext PROVE DocTypeOK'
  OBVIOUS
<1> USE Constants
<1>1. TypeOK /\ UpdatesTypeOK
  BY DocTypes
<1>2. TypeOK' /\ UNCHANGED vars2 => DocTypeOK'
  BY <1>1, DocTypes DEF UpdatesTypeOK, vars2
<1>3. ASSUME NEW p \in Sockets, RequestStateV1(p) \/ TransmitDeltaV1(p) PROVE DocTypeOK'
  BY <1>1, <1>2, <1>3, TypeSocketStep DEF RequestStateV1, TransmitDeltaV1
<1>4. ASSUME NEW p \in Sockets, RequestStateV2(p) \/ TransmitDeltaV2(p) PROVE DocTypeOK'
  BY <1>4, TypeAsk
<1>5. ASSUME NEW p \in Sockets, Handles(p) PROVE DocTypeOK'
  <2>1. CASE SocketStep(p) /\ UNCHANGED vars2
    BY <1>1, <1>2, <2>1, TypeSocketStep, TypeComposeStep DEF SocketStep
  <2>2. QED
    BY <1>5, <2>1, TypeAdd, TypeRead, TypeAsk DEF Handles
<1>6. ASSUME NEW p \in Readers, GetV1Step(p) /\ UNCHANGED vars2 PROVE DocTypeOK'
  BY <1>1, <1>2, <1>6, TypeComposeStep DEF GetV1Step
<1>7. ASSUME NEW b \in Bots, BotAskedDoc(b) \/ BotHandles(b) PROVE DocTypeOK'
  BY <1>6, <1>7, TypeAsk, TypeRead DEF BotHandles
<1>8. CASE EndDocSession
  BY <1>1, <1>8, TypeEnvironment, DocTypes DEF EndDocSession, UpdatesTypeOK
<1>9. CASE DocJobStep
  <2>1. CASE (DeleteDoc \/ DeleteDeltas) /\ UNCHANGED vars2
    BY <1>1, <1>2, <2>1, TypeJobStep
  <2>2. QED
    BY <1>6, <1>9, <2>1, TypeAsk, TypeRead, TypeStore DEF DocJobStep
<1>10. CASE DeleteV1Fails \/ JobCallFailsV1 \/ JobCallFailsV2
  BY <1>10, TypeStore
<1>11. CASE Expire /\ UNCHANGED vars2
  BY <1>1, <1>2, <1>11, TypeEnvironment
<1>12. QED
  BY <1>3, <1>4, <1>5, <1>7, <1>8, <1>9, <1>10, <1>11, TypeCrash DEF DocNext

-----------------------------------------------------------------------------
\* Both versions of the document: what the job can find.

\* Before the session ends every edit is in Redis and the job has not begun.
BeforeEnd ==
    /\ ~ended => /\ EditsUpto(edits) \subseteq updates
                 /\ pc[Job] = "wait" /\ at2[Job] = "idle" /\ stored2 = None /\ editsAtEnd = 0
    /\ editsAtEnd <= edits

\* The job is in the version 2 part of storeAndDeleteQuillDoc, or after it.
JobParts ==
    /\ pc[Job] \notin {"wait", "done", "failed"} => at2[Job] = "delete"
    /\ at2[Job] \in {"read", "seed", "add", "store"} => pc[Job] = "wait"

\* A session that began with version 2 has no version 1 document.
SecondOnly ==
    version = 2 =>
        /\ doc = None /\ opened = {} /\ \A p \in Sockets : pc[p] = "idle"
        /\ \A p \in Procs : pc[p] \notin {"pop", "save", "release", "create", "store"}

\* A session that began with version 1 and has no worksheet has no updates.
FirstOnly ==
    version = 1 /\ ~worksheet =>
        /\ edits = 0 /\ updates = {} /\ joined = {} /\ \A p \in Sockets : at2[p] = "idle"
        /\ \A p \in Procs : at2[p] # "seed"

\* The steps of the handler of a socket or of the tutor bot.
HandlerStep(p) ==
    \/ RequestStateV1(p) \/ TransmitDeltaV1(p) \/ RequestStateV2(p) \/ TransmitDeltaV2(p)
    \/ BotAskedDoc(p) \/ Handles(p) \/ BotHandles(p) \/ CrashDoc(p)

\* They leave alone where the job is and what it has, and what they add to the set
\* after the job has stored one is recorded.
LEMMA HandlersLeaveJob ==
    ASSUME DocTypeOK, NEW p \in Sockets \cup Bots, HandlerStep(p)
    PROVE  /\ pc'[Job] = pc[Job] /\ at2'[Job] = at2[Job]
           /\ UNCHANGED <<ended, version, worksheet, stored2, found, editsAtEnd>>
           /\ harmed \subseteq harmed' /\ updates \subseteq updates'
           /\ updates' # updates /\ stored2 # None => "revived" \in harmed'
           /\ edits' = edits \/ (edits' = edits + 1 /\ Edit(edits + 1) \in updates')
<1> USE Constants
<1>1. p \in Procs /\ p # Job /\ TypeOK /\ UpdatesTypeOK
  BY DocTypes
<1>2. ASSUME RequestStateV1(p) \/ TransmitDeltaV1(p)
             \/ ((SocketStep(p) \/ GetV1Step(p)) /\ UNCHANGED vars2)
      PROVE  /\ pc'[Job] = pc[Job] /\ harmed \subseteq harmed' /\ ended' = ended
             /\ UNCHANGED vars2
  BY <1>1, <1>2
  DEF TypeOK, RequestStateV1, TransmitDeltaV1, SocketStep, GetV1Step, RequestState, TransmitDelta,
      Acquire, Locked, Get, Pop, Save, Release, Create, Push, Goto
<1>3. CASE RequestStateV2(p) \/ TransmitDeltaV2(p) \/ BotAskedDoc(p) \/ ReadNothing(p)
  BY <1>1, <1>3
  DEF UpdatesTypeOK, RequestStateV2, TransmitDeltaV2, BotAskedDoc, ReadNothing, Goto2, vars, locals
<1>4. CASE AddUpdate(p)
  BY <1>1, <1>4 DEF UpdatesTypeOK, AddUpdate, Goto2, locals
<1>5. CASE ReadUpdates(p) \/ Seed(p)
  <2>1. PICK us : Got(p, us)
    BY <1>5 DEF ReadUpdates, Seed
  <2>2. pc'[Job] = pc[Job] /\ at2'[Job] = at2[Job] /\ found' = found
    BY <1>1, <2>1 DEF TypeOK, UpdatesTypeOK, Got, Goto2
  <2>3. QED
    BY <1>5, <2>2 DEF ReadUpdates, Seed
<1>6. CASE CrashDoc(p)
  <2>1. pc'[Job] = pc[Job] /\ harmed \subseteq harmed' /\ ended' = ended
    BY <1>1, <1>6 DEF TypeOK, CrashDoc, Crash, Goto
  <2>2. at2'[Job] = at2[Job]
    BY <1>1, <1>6 DEF UpdatesTypeOK, CrashDoc, Goto2
  <2>3. QED
    BY <1>6, <2>1, <2>2 DEF CrashDoc
<1>7. QED
  <2>1. \/ RequestStateV1(p) \/ TransmitDeltaV1(p)
             \/ ((SocketStep(p) \/ GetV1Step(p)) /\ UNCHANGED vars2)
        \/ RequestStateV2(p) \/ TransmitDeltaV2(p) \/ BotAskedDoc(p) \/ ReadNothing(p)
        \/ AddUpdate(p) \/ ReadUpdates(p) \/ Seed(p) \/ CrashDoc(p)
    BY DEF HandlerStep, Handles, BotHandles
  <2>2. UNCHANGED vars2 => UNCHANGED <<version, worksheet, updates, stored2, at2, found, edits,
                                     editsAtEnd>>
    BY DEF vars2
  <2>3. QED
    BY <1>2, <1>3, <1>4, <1>5, <1>6, <2>1, <2>2

\* Every step is a handler's, the job's, the end of the session, or a lapse of the lock.
JobAction ==
    \/ DocJobStep \/ DeleteV1Fails \/ JobCallFailsV1 \/ JobCallFailsV2 \/ CrashDoc(Job)

LEMMA DocActions ==
    DocNext => \/ \E p \in Sockets : \/ RequestStateV1(p) \/ TransmitDeltaV1(p) \/ RequestStateV2(p)
                                      \/ TransmitDeltaV2(p) \/ Handles(p) \/ CrashDoc(p)
               \/ \E b \in Bots : BotAskedDoc(b) \/ BotHandles(b) \/ CrashDoc(b)
               \/ JobAction \/ EndDocSession \/ (Expire /\ UNCHANGED vars2)
  BY Constants DEF DocNext, JobAction, Procs, Readers

LEMMA DocCases ==
    DocNext => \/ \E p \in Sockets \cup Bots : HandlerStep(p)
               \/ JobAction \/ EndDocSession \/ (Expire /\ UNCHANGED vars2)
  BY DocActions DEF HandlerStep

\* What the job's steps do, by where it is.
LEMMA JobMoves ==
    ASSUME DocTypeOK, BeforeEnd, JobParts, JobAction
    PROVE  /\ JobParts' /\ ended /\ UNCHANGED <<ended, version, worksheet, edits, editsAtEnd, joined>>
           /\ harmed \subseteq harmed'
<1> USE Constants
<1>1. Job \in Procs /\ TypeOK /\ UpdatesTypeOK
  BY DocTypes
<1>2. CASE JobReads \/ ReadNothing(Job)
  BY <1>1, <1>2 DEF JobReads, ReadNothing, UpdatesTypeOK, JobParts, BeforeEnd, At, At2, Goto2,
                    vars, locals
<1>3. CASE ReadUpdates(Job) \/ Seed(Job)
  <2>1. PICK us : Got(Job, us)
    BY <1>3 DEF ReadUpdates, Seed
  <2>2. /\ pc[Job] = "wait" /\ ended /\ joined' = joined
        /\ \/ pc'[Job] = "lock" /\ at2'[Job] = "delete"
           \/ pc'[Job] = "wait" /\ at2'[Job] = "store"
    BY <1>1, <1>3, <2>1
    DEF Got, Goto2, ReadUpdates, Seed, TypeOK, UpdatesTypeOK, At2, JobParts, BeforeEnd
  <2>3. UNCHANGED <<ended, version, worksheet, edits, editsAtEnd>> /\ harmed \subseteq harmed'
    BY <1>3 DEF ReadUpdates, Seed
  <2>4. QED
    BY <2>2, <2>3 DEF JobParts
<1>4. CASE (GetV1Step(Job) \/ DeleteDoc \/ DeleteDeltas) /\ UNCHANGED vars2
  <2>1. pc[Job] \notin {"wait", "done", "failed"} /\ at2[Job] = "delete"
    BY <1>4 DEF GetV1Step, Acquire, Locked, Get, Pop, Save, Release, DeleteDoc, DeleteDeltas,
                At, JobParts
  <2>2. ended' = ended /\ harmed \subseteq harmed' /\ at2'[Job] = "delete"
    BY <1>4, <2>1 DEF GetV1Step, Acquire, Locked, Get, Pop, Save, Release, DeleteDoc, DeleteDeltas,
                      vars2
  <2>3. QED
    BY <1>4, <2>1, <2>2 DEF JobParts, BeforeEnd, vars2
<1>5. CASE StoreV1 \/ StoreUpdates
  BY <1>1, <1>5 DEF StoreV1, Store, StoreUpdates, TypeOK, UpdatesTypeOK, At, At2, Goto, Goto2,
                    JobParts, BeforeEnd
<1>6. CASE DeleteUpdates
  BY <1>1, <1>6 DEF DeleteUpdates, LastDelete, UpdatesTypeOK, At, At2, Goto2, JobParts, BeforeEnd,
                    vars, locals
<1>7. CASE DeleteV1Fails \/ JobCallFailsV1
  BY <1>1, <1>7 DEF DeleteV1Fails, DeleteFails, JobCallFailsV1, JobCallFails, TypeOK, UpdatesTypeOK,
                    At, Goto, Goto2, JobParts, BeforeEnd
<1>8. CASE JobCallFailsV2
  BY <1>1, <1>8 DEF JobCallFailsV2, LastDelete, TypeOK, UpdatesTypeOK, At, At2, Goto, Goto2,
                    JobParts, BeforeEnd
<1>9. CASE CrashDoc(Job)
  <2>1. pc'[Job] = "wait" /\ at2'[Job] = "idle"
    BY <1>1, <1>9 DEF CrashDoc, Crash, TypeOK, UpdatesTypeOK, Goto, Goto2
  <2>2. ended' = ended /\ harmed \subseteq harmed' /\ ended
    BY <1>1, <1>9 DEF CrashDoc, Crash, BeforeEnd
  <2>3. QED
    BY <1>9, <2>1, <2>2 DEF CrashDoc, JobParts
<1>10. QED
  BY <1>2, <1>3, <1>4, <1>5, <1>6, <1>7, <1>8, <1>9 DEF JobAction, DocJobStep

LEMMA VersionStays == DocNext => UNCHANGED <<version, worksheet>>
  BY DEF DocNext, RequestStateV1, TransmitDeltaV1, RequestStateV2, TransmitDeltaV2, BotAskedDoc,
         Handles, BotHandles, DocJobStep, JobReads, AddUpdate, ReadUpdates, ReadNothing, Seed,
         StoreV1, StoreUpdates, DeleteUpdates, DeleteV1Fails, JobCallFailsV1, JobCallFailsV2,
         EndDocSession, CrashDoc, vars2

LEMMA BeforeEndStep ==
    DocTypeOK /\ BeforeEnd /\ JobParts /\ DocNext => BeforeEnd' /\ JobParts'
<1> SUFFICES ASSUME DocTypeOK, BeforeEnd, JobParts, DocNext PROVE BeforeEnd' /\ JobParts'
  OBVIOUS
<1> USE Constants
<1>1. edits \in Nat /\ editsAtEnd \in Nat
  BY DocTypes DEF UpdatesTypeOK
<1>2. ASSUME NEW p \in Sockets \cup Bots, HandlerStep(p) PROVE BeforeEnd' /\ JobParts'
  <2>1. /\ pc'[Job] = pc[Job] /\ at2'[Job] = at2[Job]
        /\ UNCHANGED <<ended, stored2, editsAtEnd>> /\ updates \subseteq updates'
        /\ edits' = edits \/ (edits' = edits + 1 /\ Edit(edits + 1) \in updates')
    BY <1>2, HandlersLeaveJob
  <2>2. EditsUpto(edits) \subseteq updates => EditsUpto(edits') \subseteq updates'
    <3>1. EditsUpto(edits') \subseteq EditsUpto(edits) \cup {Edit(edits')}
      <4>1. \A i \in 1..edits' : i \in 1..edits \/ i = edits'
        BY <1>1, <2>1
      <4>2. QED
        BY <4>1 DEF EditsUpto
    <3>2. edits' = edits => EditsUpto(edits') = EditsUpto(edits)
      OBVIOUS
    <3>3. QED
      BY <2>1, <3>1, <3>2
  <2>3. editsAtEnd' <= edits'
    BY <1>1, <2>1 DEF BeforeEnd
  <2>4. QED
    BY <2>1, <2>2, <2>3 DEF BeforeEnd, JobParts
<1>3. CASE JobAction
  BY <1>3, JobMoves DEF BeforeEnd
<1>4. CASE EndDocSession
  <2>1. /\ ended' = TRUE /\ editsAtEnd' = edits /\ edits' = edits
        /\ UNCHANGED <<pc, at2>>
    BY <1>4 DEF EndDocSession, EndSession, locals
  <2>2. QED
    BY <1>1, <2>1 DEF BeforeEnd, JobParts
<1>5. CASE Expire /\ UNCHANGED vars2
  BY <1>5 DEF Expire, locals, vars2, BeforeEnd, JobParts
<1>6. QED
  BY <1>2, <1>3, <1>4, <1>5, DocCases

LEMMA SecondOnlyStep == DocTypeOK /\ SecondOnly /\ DocNext => SecondOnly'
<1> SUFFICES ASSUME DocTypeOK, SecondOnly, DocNext PROVE SecondOnly'
  OBVIOUS
<1> USE Constants
<1>1. TypeOK /\ UpdatesTypeOK
  BY DocTypes
<1>2. ASSUME version = 2, NEW p \in Readers, GetV1Step(p) PROVE SecondOnly'
  <2>1. /\ doc' = None /\ opened' = {}
        /\ pc'[p] \in {"idle", "lock", "get", "delete_doc"}
        /\ \A q \in Procs : q # p => pc'[q] = pc[q]
    BY <1>1, <1>2 DEF SecondOnly, TypeOK, GetV1Step, Acquire, Locked, Get, Pop, Save, Release,
                      At, Goto, WithoutDoc
  <2>2. QED
    BY <1>2, <2>1 DEF SecondOnly
<1>3. ASSUME version = 2, NEW p \in Sockets,
             RequestStateV1(p) \/ TransmitDeltaV1(p) \/ SocketStep(p)
      PROVE  FALSE
  BY <1>3 DEF SecondOnly, RequestStateV1, TransmitDeltaV1, TransmitDelta, SocketStep, Acquire,
              Locked, Get, Pop, Save, Release, Create, Push, At
<1>4. ASSUME NEW p \in Procs, RequestStateV2(p) \/ TransmitDeltaV2(p) \/ BotAskedDoc(p)
               \/ ReadNothing(p) \/ AddUpdate(p) \/ (p = Job /\ (JobReads \/ DeleteUpdates))
      PROVE  SecondOnly'
  <2>1. UNCHANGED <<doc, opened, pc, version>>
    BY <1>4 DEF RequestStateV2, TransmitDeltaV2, BotAskedDoc, ReadNothing, AddUpdate, JobReads,
                DeleteUpdates, vars, locals
  <2>2. QED
    BY <2>1 DEF SecondOnly
<1>5. ASSUME NEW p \in Procs, ReadUpdates(p) \/ Seed(p) PROVE SecondOnly'
  <2>1. PICK us : Got(p, us)
    BY <1>5 DEF ReadUpdates, Seed
  <2>2. \A q \in Procs : pc'[q] = pc[q] \/ (q \in Readers /\ pc'[q] = "lock")
    BY <1>1, <2>1 DEF Got, TypeOK
  <2>3. UNCHANGED <<doc, opened, version>>
    BY <1>5 DEF ReadUpdates, Seed
  <2>4. QED
    BY <2>2, <2>3 DEF SecondOnly
<1>6. ASSUME NEW p \in Procs, CrashDoc(p) PROVE SecondOnly'
  <2>1. /\ pc'[p] = IF p = Job THEN "wait" ELSE "idle"
        /\ \A q \in Procs : q # p => pc'[q] = pc[q]
        /\ UNCHANGED <<doc, opened, version>>
    BY <1>1, <1>6 DEF CrashDoc, Crash, TypeOK, Goto
  <2>2. QED
    BY <2>1 DEF SecondOnly
<1>7. CASE StoreUpdates \/ JobCallFailsV1 \/ JobCallFailsV2 \/ DeleteV1Fails
             \/ ((DeleteDoc \/ DeleteDeltas) /\ UNCHANGED vars2)
  <2>1. version = 2 => /\ pc'[Job] \in {"delete_doc", "delete_deltas", "done", "failed"}
                       /\ doc' = None
    BY <1>1, <1>7 DEF StoreUpdates, JobCallFailsV1, JobCallFails, JobCallFailsV2, DeleteV1Fails,
                      DeleteFails, DeleteDoc, DeleteDeltas, TypeOK, Goto, SecondOnly
  <2>2. /\ \A q \in Procs : q # Job => pc'[q] = pc[q]
        /\ UNCHANGED <<opened, version>>
    BY <1>1, <1>7 DEF StoreUpdates, JobCallFailsV1, JobCallFails, JobCallFailsV2, DeleteV1Fails,
                      DeleteFails, DeleteDoc, DeleteDeltas, TypeOK, Goto, vars2
  <2>3. QED
    BY <2>1, <2>2 DEF SecondOnly
<1>8. ASSUME version = 2, StoreV1 PROVE FALSE
  BY <1>8 DEF StoreV1, Store, At, SecondOnly
<1>9. CASE EndDocSession \/ (Expire /\ UNCHANGED vars2)
  BY <1>9 DEF EndDocSession, EndSession, Expire, locals, vars2, SecondOnly
<1>10. version' = version
  BY VersionStays
<1>11. QED
  BY <1>2, <1>3, <1>4, <1>5, <1>6, <1>7, <1>8, <1>9, <1>10
  DEF DocNext, Handles, BotHandles, DocJobStep, SecondOnly, Readers, Procs

LEMMA FirstOnlyStep == DocTypeOK /\ FirstOnly /\ DocNext => FirstOnly'
<1> SUFFICES ASSUME DocTypeOK, FirstOnly, DocNext PROVE FirstOnly'
  OBVIOUS
<1> USE Constants
<1>1. TypeOK /\ UpdatesTypeOK
  BY DocTypes
<1>2. ASSUME version = 1, ~worksheet, NEW p \in Sockets,
             RequestStateV2(p) \/ TransmitDeltaV2(p) \/ AddUpdate(p) \/ ReadUpdates(p)
      PROVE  FALSE
  BY <1>2 DEF FirstOnly, RequestStateV2, TransmitDeltaV2, AddUpdate, ReadUpdates, At2, ToldVersion2
<1>3. ASSUME version = 1, ~worksheet, NEW p \in Procs, ReadNothing(p) \/ Seed(p) PROVE FALSE
  BY <1>3 DEF FirstOnly, ReadNothing, Seed, At2, NeedsWorksheet
<1>4. ASSUME NEW p \in Readers, BotAskedDoc(p) \/ ReadUpdates(p) \/ (p = Job /\ JobReads)
      PROVE  FirstOnly'
  <2>1. UNCHANGED <<version, worksheet, edits, updates, joined>>
    BY <1>4 DEF BotAskedDoc, ReadUpdates, JobReads, Got
  <2>2. \A q \in Procs : at2'[q] = at2[q] \/ (q = p /\ at2'[q] # "seed")
    BY <1>1, <1>4 DEF BotAskedDoc, ReadUpdates, JobReads, Got, Goto2, UpdatesTypeOK
  <2>3. QED
    BY <2>1, <2>2 DEF FirstOnly
<1>5. ASSUME NEW p \in Procs, CrashDoc(p) PROVE FirstOnly'
  <2>1. /\ at2'[p] = "idle" /\ \A q \in Procs : q # p => at2'[q] = at2[q]
        /\ UNCHANGED <<version, worksheet, edits, updates, joined>>
    BY <1>1, <1>5 DEF CrashDoc, UpdatesTypeOK, Goto2
  <2>2. QED
    BY <2>1 DEF FirstOnly
<1>6. CASE StoreUpdates \/ StoreV1 \/ DeleteUpdates \/ DeleteV1Fails \/ JobCallFailsV1
             \/ JobCallFailsV2
  <2>1. /\ at2'[Job] # "seed" \/ at2'[Job] = at2[Job]
        /\ \A q \in Procs : q # Job => at2'[q] = at2[q]
        /\ updates' \in {updates, {}} /\ UNCHANGED <<version, worksheet, edits, joined>>
    BY <1>1, <1>6 DEF StoreUpdates, StoreV1, DeleteUpdates, DeleteV1Fails, JobCallFailsV1,
                      JobCallFailsV2, Goto2, UpdatesTypeOK
  <2>2. QED
    BY <2>1 DEF FirstOnly
<1>7. CASE EndDocSession \/ UNCHANGED vars2
  BY <1>7 DEF EndDocSession, vars2, FirstOnly
<1>8. UNCHANGED <<version, worksheet>>
  BY VersionStays
<1>9. QED
  BY <1>2, <1>3, <1>4, <1>5, <1>6, <1>7, <1>8
  DEF DocNext, RequestStateV1, TransmitDeltaV1, Handles, BotHandles, DocJobStep, FirstOnly, Readers,
      Procs

-----------------------------------------------------------------------------
\* No edit is lost.

Wanted == EditsUpto(editsAtEnd)

\* They are in the set, and the job is about to store them, or has done so.
InRedis ==
    /\ Wanted \subseteq updates /\ at2[Job] # "seed"
    /\ at2[Job] = "store" => Wanted \subseteq found
    /\ at2[Job] = "delete" => /\ stored2 # None /\ Wanted \subseteq stored2
                              /\ pc[Job] \in {"delete_doc", "delete_deltas", "done"}

\* The set is deleted, and the job, run again, finds nothing to store.
OnlyStored ==
    /\ updates = {} /\ stored2 # None /\ Wanted \subseteq stored2
    /\ at2[Job] # "store" /\ pc[Job] \notin {"pop", "save", "release", "store"}
    /\ pc[Job] \in {"lock", "get"} => ~worksheet

EditsKept ==
    "revived" \notin harmed /\ ended /\ editsAtEnd > 0 => InRedis \/ OnlyStored

LEMMA WantedNotEmpty ==
    ASSUME DocTypeOK, editsAtEnd > 0
    PROVE  Edit(1) \in Wanted /\ SET_EXISTS \notin Wanted
<1>1. 1 \in 1..editsAtEnd
  BY DocTypes DEF UpdatesTypeOK
<1>2. QED
  BY <1>1 DEF Wanted, EditsUpto, Edit, SET_EXISTS

LEMMA HandlersKeepEdits ==
    ASSUME DocTypeOK, EditsKept, NEW p \in Sockets \cup Bots, HandlerStep(p)
    PROVE  EditsKept'
<1>1. /\ pc'[Job] = pc[Job] /\ at2'[Job] = at2[Job]
      /\ UNCHANGED <<ended, worksheet, stored2, found, editsAtEnd>>
      /\ harmed \subseteq harmed' /\ updates \subseteq updates'
      /\ updates' # updates /\ stored2 # None => "revived" \in harmed'
  BY HandlersLeaveJob
<1>2. Wanted' = Wanted
  BY <1>1 DEF Wanted
<1>3. QED
  BY <1>1, <1>2 DEF EditsKept, InRedis, OnlyStored

LEMMA JobKeepsEdits ==
    ASSUME DocTypeOK, BeforeEnd, JobParts, SecondOnly, FirstOnly, EditsKept, JobAction
    PROVE  EditsKept'
<1> USE Constants
<1>1. Job \in Procs /\ TypeOK /\ UpdatesTypeOK
  BY DocTypes
<1>2. /\ UNCHANGED <<ended, worksheet, editsAtEnd>> /\ harmed \subseteq harmed'
      /\ Wanted' = Wanted
  BY JobMoves DEF Wanted
<1>3. SUFFICES ASSUME "revived" \notin harmed', editsAtEnd > 0, ended
               PROVE  InRedis' \/ OnlyStored'
  BY <1>2 DEF EditsKept
<1>4. InRedis \/ OnlyStored
  BY <1>2, <1>3 DEF EditsKept
<1>5. ~worksheet => doc = None
  BY <1>1, <1>3 DEF FirstOnly, SecondOnly, BeforeEnd, UpdatesTypeOK
<1>6. Edit(1) \in Wanted /\ SET_EXISTS \notin Wanted
  BY <1>3, WantedNotEmpty
<1>7. CASE JobReads
  <2>1. /\ at2'[Job] = "read" /\ pc[Job] = "wait"
        /\ UNCHANGED <<pc, updates, stored2, found>>
    BY <1>1, <1>7 DEF JobReads, UpdatesTypeOK, At, Goto2, vars, locals
  <2>2. QED
    BY <1>2, <1>4, <2>1 DEF InRedis, OnlyStored
<1>8. CASE ReadNothing(Job)
  <2>1. /\ updates = {} /\ at2'[Job] = "seed" /\ pc[Job] = "wait"
        /\ UNCHANGED <<pc, updates, stored2, found>>
    BY <1>1, <1>8 DEF ReadNothing, NeedsWorksheet, UpdatesTypeOK, At2, Goto2, vars, locals, JobParts
  <2>2. OnlyStored
    BY <1>4, <1>6, <2>1 DEF InRedis
  <2>3. QED
    BY <1>2, <2>1, <2>2 DEF OnlyStored
<1>9. CASE ReadUpdates(Job)
  <2>1. /\ at2[Job] = "read" /\ pc[Job] = "wait" /\ ~NeedsWorksheet
        /\ Got(Job, updates \ {SET_EXISTS}) /\ UNCHANGED <<updates, stored2>>
    BY <1>9 DEF ReadUpdates, At2, JobParts
  <2>2. CASE InRedis
    <3>1. Wanted \subseteq updates \ {SET_EXISTS} /\ updates \ {SET_EXISTS} # {}
      BY <1>6, <2>2 DEF InRedis
    <3>2. found' = updates \ {SET_EXISTS} /\ at2'[Job] = "store"
      BY <1>1, <2>1, <3>1 DEF Got, Goto2, UpdatesTypeOK
    <3>3. QED
      BY <1>2, <2>1, <2>2, <3>1, <3>2 DEF InRedis
  <2>3. CASE OnlyStored
    <3>1. ~worksheet /\ updates \ {SET_EXISTS} = {}
      BY <2>1, <2>3 DEF OnlyStored, NeedsWorksheet
    <3>2. pc'[Job] = "lock" /\ at2'[Job] = "delete"
      BY <1>1, <2>1, <3>1 DEF Got, Goto2, TypeOK, UpdatesTypeOK
    <3>3. QED
      BY <1>2, <2>1, <2>3, <3>1, <3>2 DEF OnlyStored
  <2>4. QED
    BY <1>4, <2>2, <2>3
<1>10. CASE Seed(Job)
  <2>1. at2[Job] = "seed" /\ stored2 = None
    BY <1>3, <1>10 DEF Seed, At2
  <2>2. QED
    BY <1>4, <2>1 DEF InRedis, OnlyStored
<1>11. CASE GetV1Step(Job) /\ UNCHANGED vars2
  <2>1. /\ at2[Job] = "delete"
        /\ pc[Job] \in {"lock", "get", "pop", "save", "release"}
    BY <1>11 DEF JobParts, GetV1Step, Acquire, Locked, Get, Pop, Save, Release, At
  <2>2. OnlyStored /\ pc[Job] \in {"lock", "get"} /\ ~worksheet
    BY <1>4, <2>1 DEF InRedis, OnlyStored
  <2>3. pc'[Job] \in {"lock", "get", "delete_doc"}
    BY <1>1, <1>5, <1>11, <2>2 DEF GetV1Step, Acquire, Locked, Get, Pop, Save, Release, At, Goto,
                                   WithoutDoc, TypeOK
  <2>4. QED
    BY <1>2, <1>11, <2>2, <2>3 DEF OnlyStored, vars2
<1>12. CASE (DeleteDoc \/ DeleteDeltas) /\ UNCHANGED vars2
  <2>1. /\ pc[Job] \in {"delete_doc", "delete_deltas"} /\ pc'[Job] \in {"delete_deltas", "done"}
        /\ UNCHANGED <<updates, stored2, found, at2>>
    BY <1>1, <1>12 DEF DeleteDoc, DeleteDeltas, At, Goto, TypeOK, vars2
  <2>2. QED
    BY <1>2, <1>4, <2>1 DEF InRedis, OnlyStored
<1>13. CASE StoreV1
  <2>1. pc[Job] = "store" /\ at2[Job] = "delete"
    BY <1>13 DEF StoreV1, Store, At, JobParts
  <2>2. QED
    BY <1>4, <2>1 DEF InRedis, OnlyStored
<1>14. CASE StoreUpdates
  <2>1. /\ at2[Job] = "store" /\ at2'[Job] = "delete" /\ pc'[Job] = "delete_doc"
        /\ stored2' = found /\ updates' = updates
    BY <1>1, <1>14 DEF StoreUpdates, At2, Goto, Goto2, TypeOK, UpdatesTypeOK
  <2>2. InRedis /\ found # None
    BY <1>1, <1>4, <2>1, UpdatesOK DEF OnlyStored, UpdatesTypeOK
  <2>3. QED
    BY <1>2, <2>1, <2>2 DEF InRedis
<1>15. CASE DeleteUpdates
  <2>1. /\ at2[Job] = "delete" /\ at2'[Job] = "done" /\ pc[Job] = "done"
        /\ updates' = {} /\ UNCHANGED <<pc, stored2>>
    BY <1>1, <1>15 DEF DeleteUpdates, LastDelete, At, At2, Goto2, UpdatesTypeOK, vars, locals
  <2>2. QED
    BY <1>2, <1>4, <2>1 DEF InRedis, OnlyStored
<1>16. CASE DeleteV1Fails \/ JobCallFailsV2
  <2>1. /\ at2'[Job] \in {"done", "failed"} /\ pc'[Job] \in {"done", "failed"}
        /\ UNCHANGED <<updates, stored2>>
    BY <1>1, <1>16 DEF DeleteV1Fails, DeleteFails, JobCallFailsV2, Goto, Goto2, TypeOK, UpdatesTypeOK
  <2>2. QED
    BY <1>2, <1>4, <2>1 DEF InRedis, OnlyStored
<1>17. CASE JobCallFailsV1
  <2>1. pc[Job] \in {"get", "pop", "save", "release", "store"} /\ at2[Job] = "delete"
    BY <1>17 DEF JobCallFailsV1, JobCallFails, JobParts
  <2>2. OnlyStored /\ pc[Job] = "get"
    BY <1>4, <2>1 DEF InRedis, OnlyStored
  <2>3. pc'[Job] = "delete_doc" /\ UNCHANGED <<at2, updates, stored2>>
    BY <1>1, <1>17, <2>2 DEF JobCallFailsV1, JobCallFails, At, Goto, TypeOK
  <2>4. QED
    BY <1>2, <2>2, <2>3 DEF OnlyStored
<1>18. CASE CrashDoc(Job)
  <2>1. /\ at2'[Job] = "idle" /\ pc'[Job] = "wait" /\ UNCHANGED <<updates, stored2>>
    BY <1>1, <1>18 DEF CrashDoc, Crash, Goto, Goto2, TypeOK, UpdatesTypeOK
  <2>2. QED
    BY <1>2, <1>4, <2>1 DEF InRedis, OnlyStored
<1>19. QED
  BY <1>7, <1>8, <1>9, <1>10, <1>11, <1>12, <1>13, <1>14, <1>15, <1>16, <1>17, <1>18
  DEF JobAction, DocJobStep

LEMMA EditsKeptStep ==
    DocTypeOK /\ BeforeEnd /\ JobParts /\ SecondOnly /\ FirstOnly /\ EditsKept /\ DocNext
        => EditsKept'
<1> SUFFICES ASSUME DocTypeOK, BeforeEnd, JobParts, SecondOnly, FirstOnly, EditsKept, DocNext
             PROVE  EditsKept'
  OBVIOUS
<1>1. CASE EndDocSession
  <2>1. /\ ~ended /\ editsAtEnd' = edits /\ UNCHANGED <<updates, at2>>
    BY <1>1 DEF EndDocSession, EndSession
  <2>2. Wanted' \subseteq updates' /\ at2'[Job] = "idle"
    BY <2>1 DEF BeforeEnd, Wanted, EditsUpto
  <2>3. QED
    BY <2>2 DEF EditsKept, InRedis
<1>2. CASE Expire /\ UNCHANGED vars2
  <2>1. /\ UNCHANGED <<pc, at2, ended, worksheet, stored2, found, editsAtEnd, updates>>
        /\ harmed \subseteq harmed'
    BY <1>2 DEF Expire, locals, vars2
  <2>2. Wanted' = Wanted
    BY <2>1 DEF Wanted
  <2>3. QED
    BY <2>1, <2>2 DEF EditsKept, InRedis, OnlyStored
<1>3. QED
  BY <1>1, <1>2, DocCases, HandlersKeepEdits, JobKeepsEdits

-----------------------------------------------------------------------------
\* The version 1 document in a session that knows both versions.

\* The tutor bot looks for updates before it looks for a document.
BotsRead == \A b \in Bots : at2[b] # "idle" => pc[b] = "idle"

\* A session that began with version 1 has no updates until one is made of the worksheet.
Unseeded ==
    version = 1 /\ "seeded" \notin harmed =>
        /\ edits = 0 /\ updates = {} /\ joined = {}
        /\ \A p \in Sockets : at2[p] = "idle"
        /\ at2[Job] # "store"

\* A session that began with version 2 has no deltas.
NoDeltas == version = 2 => pushed = 0 /\ stored = None

QuillKept == Basics /\ (version = 1 /\ harmed = {} => Unharmed)

LEMMA BotsReadStep == DocTypeOK /\ BotsRead /\ DocNext => BotsRead'
<1> SUFFICES ASSUME DocTypeOK, BotsRead, DocNext PROVE BotsRead'
  OBVIOUS
<1> USE Constants
<1>1. TypeOK /\ UpdatesTypeOK
  BY DocTypes
<1>2. ASSUME NEW p \in Procs, \A q \in Procs : q # p => pc'[q] = pc[q] /\ at2'[q] = at2[q],
             p \in Bots => pc'[p] = "idle" \/ at2'[p] = "idle"
      PROVE  BotsRead'
  BY <1>2 DEF BotsRead
<1>3. ASSUME NEW p \in Procs, HandlerStep(p) \/ CrashDoc(p), p # Job PROVE BotsRead'
  <2>1. CASE RequestStateV1(p) \/ TransmitDeltaV1(p)
               \/ ((SocketStep(p) \/ GetV1Step(p)) /\ UNCHANGED vars2)
    <3>1. \A q \in Procs : (q # p => pc'[q] = pc[q]) /\ at2'[q] = at2[q]
      BY <1>1, <2>1
      DEF TypeOK, RequestStateV1, TransmitDeltaV1, SocketStep, GetV1Step, RequestState, TransmitDelta,
          Acquire, Locked, Get, Pop, Save, Release, Create, Push, Goto, vars2
    <3>2. pc[p] # "idle" \/ at2[p] = "idle"
      BY <2>1 DEF RequestStateV1, TransmitDeltaV1, SocketStep, GetV1Step, Acquire, Locked, Get, Pop,
                  Save, Release, Create, Push, At, At2
    <3>3. p \in Bots => at2'[p] = "idle"
      BY <3>1, <3>2 DEF BotsRead
    <3>4. QED
      BY <1>2, <3>1, <3>3
  <2>2. CASE RequestStateV2(p) \/ TransmitDeltaV2(p) \/ BotAskedDoc(p)
    <3>1. /\ \A q \in Procs : q # p => pc'[q] = pc[q] /\ at2'[q] = at2[q]
          /\ pc'[p] = "idle"
      BY <1>1, <2>2 DEF RequestStateV2, TransmitDeltaV2, BotAskedDoc, Free, At, Goto2, UpdatesTypeOK,
                        vars, locals
    <3>2. QED
      BY <1>2, <3>1
  <2>3. CASE AddUpdate(p)
    <3>1. /\ \A q \in Procs : q # p => pc'[q] = pc[q] /\ at2'[q] = at2[q]
          /\ at2'[p] = "idle"
      BY <1>1, <2>3 DEF AddUpdate, Goto2, UpdatesTypeOK, locals
    <3>2. QED
      BY <1>2, <3>1
  <2>4. CASE ReadNothing(p)
    <3>1. /\ \A q \in Procs : q # p => pc'[q] = pc[q] /\ at2'[q] = at2[q]
          /\ pc'[p] = pc[p] /\ at2[p] = "read"
      BY <1>1, <2>4 DEF ReadNothing, At2, Goto2, UpdatesTypeOK, vars, locals
    <3>2. QED
      BY <1>2, <3>1 DEF BotsRead
  <2>5. CASE ReadUpdates(p) \/ Seed(p)
    <3>1. PICK us : Got(p, us)
      BY <2>5 DEF ReadUpdates, Seed
    <3>2. /\ \A q \in Procs : q # p => pc'[q] = pc[q] /\ at2'[q] = at2[q]
          /\ at2'[p] = "idle"
      BY <1>1, <1>3, <3>1 DEF Got, Goto2, TypeOK, UpdatesTypeOK
    <3>3. QED
      BY <1>2, <3>2
  <2>6. CASE CrashDoc(p)
    <3>1. /\ \A q \in Procs : q # p => pc'[q] = pc[q] /\ at2'[q] = at2[q]
          /\ at2'[p] = "idle"
      BY <1>1, <2>6 DEF CrashDoc, Crash, Goto, Goto2, TypeOK, UpdatesTypeOK
    <3>2. QED
      BY <1>2, <3>1
  <2>7. QED
    BY <1>3, <2>1, <2>2, <2>3, <2>4, <2>5, <2>6 DEF HandlerStep, Handles, BotHandles
<1>4. CASE JobAction
  <2>1. \A q \in Procs : q # Job => pc'[q] = pc[q] /\ at2'[q] = at2[q]
    <3>1. CASE JobReads \/ ReadNothing(Job) \/ DeleteUpdates
      BY <1>1, <3>1 DEF JobReads, ReadNothing, DeleteUpdates, Goto2, UpdatesTypeOK, vars, locals
    <3>2. CASE ReadUpdates(Job) \/ Seed(Job)
      <4>1. PICK us : Got(Job, us)
        BY <3>2 DEF ReadUpdates, Seed
      <4>2. QED
        BY <1>1, <4>1 DEF Got, Goto2, TypeOK, UpdatesTypeOK
    <3>3. CASE (GetV1Step(Job) \/ DeleteDoc \/ DeleteDeltas) /\ UNCHANGED vars2
      BY <1>1, <3>3 DEF GetV1Step, Acquire, Locked, Get, Pop, Save, Release, DeleteDoc, DeleteDeltas,
                        Goto, TypeOK, vars2
    <3>4. CASE StoreV1 \/ StoreUpdates \/ DeleteV1Fails \/ JobCallFailsV1 \/ JobCallFailsV2
                 \/ CrashDoc(Job)
      BY <1>1, <3>4 DEF StoreV1, Store, StoreUpdates, DeleteV1Fails, DeleteFails, JobCallFailsV1,
                        JobCallFails, JobCallFailsV2, CrashDoc, Crash, Goto, Goto2, TypeOK,
                        UpdatesTypeOK
    <3>5. QED
      BY <1>4, <3>1, <3>2, <3>3, <3>4 DEF JobAction, DocJobStep
  <2>2. QED
    BY <1>2, <2>1
<1>5. CASE EndDocSession \/ (Expire /\ UNCHANGED vars2)
  BY <1>5 DEF EndDocSession, EndSession, Expire, locals, vars2, BotsRead
<1>6. QED
  BY <1>3, <1>4, <1>5, DocCases

\* What may lose edits or deltas is never forgotten.
LEMMA HarmsAreKnown == DocTypeOK /\ BeforeEnd /\ JobParts /\ DocNext => harmed \subseteq harmed'
<1> SUFFICES ASSUME DocTypeOK, BeforeEnd, JobParts, DocNext PROVE harmed \subseteq harmed'
  OBVIOUS
<1>1. CASE EndDocSession \/ (Expire /\ UNCHANGED vars2)
  BY <1>1 DEF EndDocSession, EndSession, Expire
<1>2. QED
  BY <1>1, DocCases, HandlersLeaveJob, JobMoves

LEMMA UnseededStep == DocTypeOK /\ BeforeEnd /\ JobParts /\ Unseeded /\ DocNext => Unseeded'
<1> SUFFICES ASSUME DocTypeOK, BeforeEnd, JobParts, Unseeded, DocNext, version' = 1,
                    "seeded" \notin harmed'
             PROVE  Unseeded'
  BY DEF Unseeded
<1> USE Constants
<1>1. TypeOK /\ UpdatesTypeOK
  BY DocTypes
<1>2. version = 1
  BY VersionStays
<1>3. "seeded" \notin harmed
  BY HarmsAreKnown
<1>4. /\ edits = 0 /\ updates = {} /\ joined = {}
      /\ \A p \in Sockets : at2[p] = "idle"
      /\ at2[Job] # "store"
  BY <1>2, <1>3 DEF Unseeded
<1>5. \A p \in Sockets : ~RequestStateV2(p) /\ ~TransmitDeltaV2(p) /\ ~AddUpdate(p)
                         /\ ~ReadUpdates(p) /\ ~ReadNothing(p)
  BY <1>4 DEF RequestStateV2, TransmitDeltaV2, AddUpdate, ReadUpdates, ReadNothing, At2, ToldVersion2
<1>6. \A p \in Procs : ~Seed(p)
  BY DEF Seed
<1>7. ASSUME NEW p \in Readers, BotAskedDoc(p) \/ ReadUpdates(p) \/ ReadNothing(p)
                                  \/ (p = Job /\ JobReads)
      PROVE  Unseeded'
  <2>1. UNCHANGED <<edits, updates, joined>>
    BY <1>7 DEF BotAskedDoc, ReadUpdates, ReadNothing, JobReads, Got
  <2>2. \A q \in Procs : at2'[q] = at2[q] \/ (q = p /\ at2'[q] # "store")
    BY <1>1, <1>4, <1>7 DEF BotAskedDoc, ReadUpdates, ReadNothing, JobReads, Got, Goto2, UpdatesTypeOK
  <2>3. QED
    BY <1>4, <2>1, <2>2 DEF Unseeded
<1>8. ASSUME NEW p \in Procs, CrashDoc(p) PROVE Unseeded'
  <2>1. /\ at2'[p] = "idle" /\ \A q \in Procs : q # p => at2'[q] = at2[q]
        /\ UNCHANGED <<edits, updates, joined>>
    BY <1>1, <1>8 DEF CrashDoc, UpdatesTypeOK, Goto2
  <2>2. QED
    BY <1>4, <2>1 DEF Unseeded
<1>9. CASE StoreUpdates \/ StoreV1 \/ DeleteUpdates \/ DeleteV1Fails \/ JobCallFailsV1
             \/ JobCallFailsV2
  <2>1. /\ at2'[Job] # "store"
        /\ \A q \in Procs : q # Job => at2'[q] = at2[q]
        /\ updates' = {} /\ UNCHANGED <<edits, joined>>
    BY <1>1, <1>4, <1>9 DEF StoreUpdates, StoreV1, DeleteUpdates, DeleteV1Fails, JobCallFailsV1,
                            JobCallFailsV2, Goto2, UpdatesTypeOK
  <2>2. QED
    BY <1>4, <2>1 DEF Unseeded
<1>10. CASE EndDocSession \/ UNCHANGED vars2
  BY <1>4, <1>10 DEF EndDocSession, vars2, Unseeded
<1>11. QED
  BY <1>5, <1>6, <1>7, <1>8, <1>9, <1>10
  DEF DocNext, RequestStateV1, TransmitDeltaV1, Handles, BotHandles, DocJobStep, Readers, Procs

LEMMA NoDeltasStep == DocTypeOK /\ SecondOnly /\ NoDeltas /\ DocNext => NoDeltas'
<1> SUFFICES ASSUME DocTypeOK, SecondOnly, NoDeltas, DocNext, version = 2
             PROVE  pushed' = 0 /\ stored' = None
  BY VersionStays DEF NoDeltas
<1> USE Constants
<1>1. pushed = 0 /\ stored = None
  BY DEF NoDeltas
<1>2. ~Store /\ \A p \in Sockets : ~Push(p)
  BY DEF SecondOnly, Store, Push, At
<1>3. QED
  BY <1>1, <1>2
  DEF DocNext, RequestStateV1, TransmitDeltaV1, RequestState, TransmitDelta, RequestStateV2,
      TransmitDeltaV2, BotAskedDoc, Handles, BotHandles, SocketStep, GetV1Step, Acquire, Locked, Get,
      Pop, Save, Release, Create, DocJobStep, JobReads, AddUpdate, ReadUpdates, ReadNothing, Seed,
      StoreV1, StoreUpdates, DeleteUpdates, DeleteDoc, DeleteDeltas, DeleteV1Fails, DeleteFails,
      JobCallFailsV1, JobCallFails, JobCallFailsV2, EndDocSession, EndSession, Expire, CrashDoc, Crash,
      vars, locals

\* A fault of the version 2 part of the job, seen from version 1.
Aside ==
    /\ UNCHANGED pc \/ (At(Job, "wait") /\ ended /\ Goto(Job, "failed"))
    /\ UNCHANGED <<doc, queue, lock, ended, stored, opened, hand, took, retries, pushed, atEnd,
                   harmed>>

\* A session that begins with version 1 takes QuillDoc's steps until it is seeded.
LEMMA QuillSteps ==
    ASSUME DocTypeOK, BeforeEnd, JobParts, BotsRead, Unseeded, version = 1,
           "seeded" \notin harmed, "seeded" \notin harmed', DocNext
    PROVE  [Next]_vars \/ Aside
<1> USE Constants
<1>1. TypeOK /\ UpdatesTypeOK
  BY DocTypes
<1>2. /\ updates = {} /\ joined = {} /\ at2[Job] # "store"
      /\ \A p \in Sockets : at2[p] = "idle"
  BY DEF Unseeded
<1>3. \A p \in Procs : ~Seed(p)
  BY DEF Seed
<1>4. ASSUME NEW p \in Procs, RequestStateV2(p) \/ TransmitDeltaV2(p) \/ BotAskedDoc(p)
                                \/ ReadNothing(p) \/ (p = Job /\ (JobReads \/ DeleteUpdates))
      PROVE  UNCHANGED vars
  BY <1>4 DEF RequestStateV2, TransmitDeltaV2, BotAskedDoc, ReadNothing, JobReads, DeleteUpdates
<1>5. ASSUME NEW p \in Sockets, AddUpdate(p) \/ ReadUpdates(p) PROVE FALSE
  BY <1>2, <1>5 DEF AddUpdate, ReadUpdates, At2
<1>6. ASSUME NEW p \in Readers, ReadUpdates(p) PROVE ReadV1(p) /\ at2[p] = "read"
  <2>1. Got(p, {}) /\ at2[p] = "read"
        /\ UNCHANGED <<doc, queue, lock, ended, stored, opened, hand, took, faults, pushed, atEnd,
                       harmed>>
    BY <1>2, <1>6 DEF ReadUpdates, At2
  <2>2. QED
    BY <2>1 DEF Got, ReadV1, Goto
<1>7. ASSUME NEW p \in Sockets, RequestStateV1(p) \/ TransmitDeltaV1(p) \/ Handles(p)
      PROVE  [Next]_vars
  BY <1>3, <1>4, <1>5, <1>7 DEF RequestStateV1, TransmitDeltaV1, Handles, Next
<1>8. ASSUME NEW b \in Bots, BotHandles(b) PROVE [Next]_vars
  <2>1. ReadUpdates(b) => BotAsked(b)
    BY <1>6 DEF BotsRead, BotAsked, At
  <2>2. QED
    BY <1>3, <1>4, <1>8, <2>1 DEF BotHandles, Next
<1>9. CASE DocJobStep
  <2>1. ReadUpdates(Job) => JobStart
    BY <1>6 DEF JobParts, BeforeEnd, JobStart, At
  <2>2. ~StoreUpdates
    BY <1>2 DEF StoreUpdates, At2
  <2>3. QED
    BY <1>3, <1>4, <1>9, <2>1, <2>2 DEF DocJobStep, StoreV1, Next, JobStep
<1>10. CASE DeleteV1Fails \/ JobCallFailsV1 \/ EndDocSession \/ (Expire /\ UNCHANGED vars2)
  BY <1>10 DEF DeleteV1Fails, JobCallFailsV1, EndDocSession, Next
<1>11. CASE JobCallFailsV2
  <2>1. CASE LastDelete(Job)
    <3>1. pc[Job] = "done" /\ pc' = [pc EXCEPT ![Job] = "done"]
      BY <1>11, <2>1 DEF JobCallFailsV2, LastDelete, At, At2, Goto
    <3>2. pc' = pc
      BY <1>1, <3>1 DEF TypeOK
    <3>3. QED
      BY <1>11, <3>2 DEF JobCallFailsV2, Aside
  <2>2. CASE at2[Job] \in {"read", "seed", "store"}
    <3>1. pc[Job] = "wait" /\ ended
      BY <2>2 DEF JobParts, BeforeEnd
    <3>2. Goto(Job, "failed")
      BY <1>11, <2>2 DEF JobCallFailsV2, At2
    <3>3. QED
      BY <1>11, <3>1, <3>2 DEF JobCallFailsV2, Aside, At
  <2>3. QED
    BY <1>11, <2>1, <2>2 DEF JobCallFailsV2
<1>12. ASSUME NEW p \in Procs, CrashDoc(p) PROVE [Next]_vars \/ Aside
  <2>1. CASE Crash(p)
    BY <2>1 DEF Next
  <2>2. CASE ~Crash(p)
    <3>1. /\ at2[p] \in {"read", "seed", "add", "store"}
          /\ pc' = [pc EXCEPT ![p] = IF p = Job THEN "wait" ELSE "idle"]
          /\ UNCHANGED <<doc, queue, lock, ended, stored, opened, hand, took, retries, pushed, atEnd,
                         harmed>>
      BY <1>12, <2>2 DEF CrashDoc, Goto
    <3>2. pc[p] = IF p = Job THEN "wait" ELSE "idle"
      BY <1>2, <3>1 DEF JobParts, BotsRead, Procs
    <3>3. pc' = pc
      BY <1>1, <3>1, <3>2 DEF TypeOK
    <3>4. QED
      BY <3>1, <3>3 DEF Aside
  <2>3. QED
    BY <2>1, <2>2
<1>13. QED
  BY <1>4, <1>7, <1>8, <1>9, <1>10, <1>11, <1>12 DEF DocNext

LEMMA AsideKeeps ==
    ASSUME TypeOK, Basics, Aside
    PROVE  Basics' /\ (Unharmed => Unharmed')
<1> USE Constants
<1>1. /\ \A q \in Procs : pc'[q] = pc[q] \/ (q = Job /\ pc[q] = "wait" /\ pc'[q] = "failed")
      /\ ended \/ pc' = pc
      /\ UNCHANGED <<doc, queue, lock, ended, stored, opened, hand, took, pushed, atEnd>>
  BY DEF Aside, At, Goto, TypeOK
<1>2. Basics'
  BY <1>1 DEF Basics
<1>3. ASSUME Unharmed PROVE Unharmed'
  <2>1. \A q \in Procs : Working(q)' = Working(q)
    BY <1>1 DEF Working
  <2>2. Held' /\ InHand'
    BY <1>1, <1>3 DEF Held, Relies, InHand, Unharmed
  <2>3. Kept'
    BY <1>1, <1>3, <2>1 DEF Kept, Whole, Unharmed
  <2>4. Exists' /\ Stored'
    BY <1>1, <1>3, <2>1 DEF Exists, Began, Deleting, Stored, Complete, Beyond, Unharmed
  <2>5. QED
    BY <2>2, <2>3, <2>4 DEF Unharmed
<1>4. QED
  BY <1>2, <1>3

LEMMA BasicsTogether ==
    DocTypeOK /\ BeforeEnd /\ JobParts /\ Basics /\ DocNext => Basics'
<1> SUFFICES ASSUME DocTypeOK, BeforeEnd, JobParts, Basics, DocNext PROVE Basics'
  OBVIOUS
<1> USE Constants
<1>1. TypeOK
  BY DocTypes
<1>2. CASE [Next]_vars
  BY <1>1, <1>2, BasicsStep
<1>3. ASSUME NEW p \in Sockets \cup Bots, AddUpdate(p) \/ ReadUpdates(p) \/ Seed(p) \/ CrashDoc(p)
      PROVE  Basics'
  <2>1. pc'[Job] = pc[Job] /\ ended' = ended
    BY <1>3, HandlersLeaveJob DEF HandlerStep, Handles, BotHandles
  <2>2. UNCHANGED <<stored, atEnd, pushed, queue>>
    BY <1>3 DEF AddUpdate, ReadUpdates, Seed, CrashDoc, Crash
  <2>3. QED
    BY <2>1, <2>2 DEF Basics
<1>4. CASE \/ ReadUpdates(Job) \/ Seed(Job) \/ StoreUpdates \/ JobCallFailsV2 \/ CrashDoc(Job)
  <2>1. ended /\ ended' = ended
    BY <1>4, JobMoves DEF JobAction, DocJobStep
  <2>2. UNCHANGED <<atEnd, pushed, queue>>
    BY <1>4 DEF ReadUpdates, Seed, StoreUpdates, JobCallFailsV2, CrashDoc, Crash
  <2>3. QED
    BY <2>1, <2>2 DEF Basics
<1>5. QED
  <2>1. ASSUME NEW p \in Procs, RequestStateV2(p) \/ TransmitDeltaV2(p) \/ BotAskedDoc(p)
                                  \/ ReadNothing(p) \/ (p = Job /\ (JobReads \/ DeleteUpdates))
        PROVE  UNCHANGED vars
    BY <2>1 DEF RequestStateV2, TransmitDeltaV2, BotAskedDoc, ReadNothing, JobReads, DeleteUpdates
  <2>2. ASSUME NEW p \in Sockets, RequestStateV1(p) \/ TransmitDeltaV1(p) \/ SocketStep(p)
        PROVE  Next
    BY <2>2 DEF RequestStateV1, TransmitDeltaV1, Next
  <2>3. ASSUME NEW p \in Readers, GetV1Step(p) PROVE Next
    BY <2>3 DEF Next, JobStep, Readers
  <2>4. DeleteDoc \/ DeleteDeltas \/ StoreV1 \/ DeleteV1Fails \/ JobCallFailsV1 \/ EndDocSession
          \/ Expire => Next
    BY DEF Next, JobStep, StoreV1, DeleteV1Fails, JobCallFailsV1, EndDocSession
  <2>5. \A p \in Procs : p = Job \/ p \in Sockets \cup Bots
    BY DEF Procs
  <2>6. QED
    BY <1>2, <1>3, <1>4, <2>1, <2>2, <2>3, <2>4, <2>5 DEF DocNext, Handles, BotHandles, DocJobStep

LEMMA QuillKeptStep ==
    ASSUME DocTypeOK, BeforeEnd, JobParts, BotsRead, Unseeded, QuillKept, DocNext
    PROVE  QuillKept'
<1>1. Basics'
  BY BasicsTogether DEF QuillKept
<1>2. SUFFICES ASSUME version = 1, harmed' = {} PROVE Unharmed'
  BY <1>1, VersionStays DEF QuillKept
<1>3. harmed = {}
  BY <1>2, HarmsAreKnown
<1>4. QuillInv
  BY <1>2, <1>3, DocTypes DEF QuillKept, QuillInv
<1>5. CASE [Next]_vars
  BY <1>2, <1>4, <1>5, QuillInvStep DEF QuillInv
<1>6. CASE Aside
  BY <1>3, <1>4, <1>6, AsideKeeps DEF QuillInv
<1>7. QED
  BY <1>2, <1>3, <1>5, <1>6, QuillSteps

-----------------------------------------------------------------------------
\* The editors of a session.

\* A session with a whiteboard has nothing in its document.
OneEditor == tool = "whiteboard" => version = 1 /\ ~worksheet

DocInv ==
    /\ DocTypeOK /\ BeforeEnd /\ JobParts /\ SecondOnly /\ FirstOnly /\ EditsKept
    /\ NoDeltas /\ BotsRead /\ Unseeded /\ QuillKept
BoardInv == BoardPiecesInv /\ BoardKept /\ AcksKept

EditorsInv == tool \in {"documenteditor", "whiteboard"} /\ OneEditor /\ DocInv /\ BoardInv

LEMMA DocInvInit == DocInit => DocInv
<1> SUFFICES ASSUME DocInit PROVE DocInv
  OBVIOUS
<1> USE Constants
<1>1. DocTypeOK
  BY DocTypeInit
<1>2. \A p \in Procs : pc[p] = (IF p = Job THEN "wait" ELSE "idle") /\ at2[p] = "idle"
  BY DEF DocInit, Init
<1>3. /\ doc = None /\ opened = {} /\ ended = FALSE /\ joined = {} /\ stored2 = None
      /\ edits = 0 /\ editsAtEnd = 0 /\ (version = 1 => updates = {})
  BY DEF DocInit, Init
<1>4. BeforeEnd
  BY <1>2, <1>3 DEF BeforeEnd, EditsUpto
<1>5. JobParts /\ SecondOnly /\ FirstOnly /\ EditsKept
  BY <1>2, <1>3 DEF JobParts, SecondOnly, FirstOnly, EditsKept
<1>6. BotsRead /\ Unseeded
  BY <1>2, <1>3 DEF BotsRead, Unseeded
<1>7. NoDeltas /\ QuillKept
  BY QuillInvInit DEF DocInit, Init, NoDeltas, QuillKept, QuillInv
<1>8. QED
  BY <1>1, <1>4, <1>5, <1>6, <1>7 DEF DocInv

LEMMA BoardInvInit == WB!Init => BoardInv
<1> SUFFICES ASSUME WB!Init PROVE BoardInv
  OBVIOUS
<1> USE BoardConstants
<1>1. /\ board = None /\ task = "wait" /\ held = <<>> /\ uploaded = FALSE /\ blob = None
      /\ hasDoc = FALSE /\ faults = 0 /\ sent = 0 /\ appended = <<>> /\ acked = {}
      /\ refused = {} /\ spoiled = {} /\ ended = FALSE
  BY DEF WB!Init
<1>2. \A c \in Clients : handler[c] = "closed" /\ follow[c] = "none" /\ piece[c] = <<>>
  BY DEF WB!Init
<1>3. WB!BoardTypeOK
  <2>1. /\ handler \in [Clients -> {"closed", "create", "first", "open", "append", "length"}]
        /\ follow \in [Clients -> {"none", "append", "length"}]
    BY DEF WB!Init
  <2>2. piece \in [Clients -> Seq(WB!Pieces)] /\ offset \in [Clients -> 0..MaxPieces]
    BY DEF WB!Init
  <2>3. /\ ended \in BOOLEAN /\ uploaded \in BOOLEAN /\ hasDoc \in BOOLEAN
        /\ board \in Seq(WB!Pieces) \cup {None} /\ blob \in Seq(WB!Pieces) \cup {None}
        /\ held \in Seq(WB!Pieces) /\ appended \in Seq(WB!Pieces)
    BY <1>1
  <2>4. faults \in 0..MaxFaults /\ sent \in 0..MaxPieces /\ acked \subseteq WB!Pieces
        /\ refused \subseteq WB!Pieces
    BY <1>1
  <2>5. QED
    BY <1>1, <2>1, <2>2, <2>3, <2>4 DEF WB!BoardTypeOK
<1>4. InHands
  BY <1>2 DEF InHands
<1>5. PiecesOnce
  BY <1>1, <1>2 DEF PiecesOnce, Pending
<1>6. BoardKept
  BY <1>1, <1>2 DEF BoardKept, Creating, Text
<1>7. AcksKept
  BY <1>1, <1>2 DEF AcksKept, HandsKept, Text
<1>8. QED
  BY <1>3, <1>4, <1>5, <1>6, <1>7 DEF BoardInv, BoardPiecesInv

\* The whiteboard goes on as it was when the document's part of the session takes a step.
LEMMA BoardStays ==
    ASSUME BoardInv, UNCHANGED ownBoardVars, ended => ended', ended' \in BOOLEAN,
           faults' \in 0..MaxFaults
    PROVE  BoardInv'
<1>1. UNCHANGED <<board, handler, follow, piece, offset, task, held, uploaded, blob,
                  hasDoc, sent, appended, acked, refused, spoiled>>
  BY DEF ownBoardVars
<1>2. WB!BoardTypeOK'
  BY <1>1 DEF BoardInv, BoardPiecesInv, WB!BoardTypeOK
<1>3. InHands' /\ PiecesOnce'
  BY <1>1 DEF BoardInv, BoardPiecesInv, InHands, PiecesOnce, Pending
<1>4. BoardKept'
  BY <1>1 DEF BoardInv, BoardKept, Creating, Text, WB!Missing
<1>5. AcksKept'
  BY <1>1 DEF BoardInv, AcksKept, HandsKept, Text
<1>6. QED
  BY <1>2, <1>3, <1>4, <1>5 DEF BoardInv, BoardPiecesInv

\* The same, the other way round: a session with a whiteboard has no edits to lose.
LEMMA DocStays ==
    ASSUME DocInv, version = 1 /\ ~worksheet, UNCHANGED ownDocVars, ended => ended',
           ended' \in BOOLEAN, faults' \in 0..MaxFaults
    PROVE  DocInv'
<1>1. UNCHANGED <<doc, queue, lock, stored, opened, pc, hand, took, retries, pushed, atEnd, harmed>>
  BY DEF ownDocVars, locals
<1>2. UNCHANGED <<version, worksheet, updates, joined, stored2, at2, found, edits, editsAtEnd>>
  BY DEF ownDocVars, vars2
<1>3. DocTypeOK'
  <2>1. TypeOK'
    BY <1>1, DocTypes DEF DocInv, TypeOK
  <2>2. UpdatesTypeOK'
    BY <1>2, DocTypes DEF DocInv, UpdatesTypeOK
  <2>3. QED
    BY <2>1, <2>2, DocTypes
<1>4. edits = 0 /\ editsAtEnd = 0
  BY DocTypes DEF DocInv, FirstOnly, BeforeEnd, UpdatesTypeOK
<1>5. BeforeEnd'
  <2>1. ended \in BOOLEAN
    BY DocTypes DEF DocInv, TypeOK
  <2>2. EditsUpto(edits)' = EditsUpto(edits)
    BY <1>2
  <2>3. QED
    BY <1>1, <1>2, <2>1, <2>2 DEF DocInv, BeforeEnd
<1>6. JobParts' /\ SecondOnly' /\ FirstOnly'
  BY <1>1, <1>2 DEF DocInv, JobParts, SecondOnly, FirstOnly
<1>7. EditsKept'
  BY <1>2, <1>4 DEF EditsKept
<1>8. NoDeltas' /\ BotsRead' /\ Unseeded'
  BY <1>1, <1>2 DEF DocInv, NoDeltas, BotsRead, Unseeded
<1>9. Basics'
  BY <1>1, DocTypes DEF DocInv, QuillKept, Basics, TypeOK
<1>10. ASSUME Unharmed PROVE Unharmed'
  <2>1. \A p \in Procs : Working(p)' = Working(p)
    BY <1>1 DEF Working
  <2>2. Held' /\ Kept'
    BY <1>1, <1>10, <2>1 DEF Held, Relies, Kept, Whole, Unharmed
  <2>3. InHand' /\ Exists'
    BY <1>1, <1>10 DEF InHand, Exists, Began, Deleting, Unharmed
  <2>4. Stored'
    BY <1>1, <1>10, <2>1 DEF Stored, Complete, Beyond, Unharmed
  <2>5. QED
    BY <2>2, <2>3, <2>4 DEF Unharmed
<1>11. QuillKept'
  BY <1>1, <1>2, <1>9, <1>10 DEF DocInv, QuillKept
<1>12. QED
  BY <1>3, <1>5, <1>6, <1>7, <1>8, <1>11 DEF DocInv

LEMMA DocStutters == DocInv /\ UNCHANGED <<vars, vars2>> => DocInv'
<1> SUFFICES ASSUME DocInv, UNCHANGED <<vars, vars2>> PROVE DocInv'
  OBVIOUS
<1>1. UNCHANGED <<doc, queue, lock, ended, stored, opened, pc, hand, took, retries, faults, pushed,
                  atEnd, harmed>>
  BY DEF vars, locals
<1>2. UNCHANGED <<version, worksheet, updates, joined, stored2, at2, found, edits, editsAtEnd>>
  BY DEF vars2
<1>3. DocTypeOK'
  BY <1>1, <1>2, DocTypes DEF DocInv, TypeOK, UpdatesTypeOK
<1>4. BeforeEnd' /\ JobParts' /\ SecondOnly' /\ FirstOnly'
  BY <1>1, <1>2 DEF DocInv, BeforeEnd, JobParts, SecondOnly, FirstOnly
<1>5. EditsKept'
  BY <1>1, <1>2 DEF DocInv, EditsKept, InRedis, OnlyStored, Wanted
<1>6. NoDeltas' /\ BotsRead' /\ Unseeded'
  BY <1>1, <1>2 DEF DocInv, NoDeltas, BotsRead, Unseeded
<1>7. QuillKept'
  BY <1>1, <1>2 DEF DocInv, QuillKept, Basics, Unharmed, Held, Relies, Kept, Whole, Working, InHand,
                    Exists, Began, Deleting, Stored, Complete, Beyond
<1>8. QED
  BY <1>3, <1>4, <1>5, <1>6, <1>7 DEF DocInv

LEMMA DocInvStep == DocInv /\ DocNext => DocInv' /\ (ended => ended')
<1> SUFFICES ASSUME DocInv, DocNext PROVE DocInv' /\ (ended => ended')
  OBVIOUS
<1>1. DocTypeOK' /\ BeforeEnd' /\ JobParts' /\ SecondOnly' /\ FirstOnly' /\ EditsKept'
  BY DocTypeStep, BeforeEndStep, SecondOnlyStep, FirstOnlyStep, EditsKeptStep DEF DocInv
<1>2. NoDeltas' /\ BotsRead' /\ Unseeded' /\ QuillKept'
  BY NoDeltasStep, BotsReadStep, UnseededStep, QuillKeptStep DEF DocInv
<1>3. ended => ended'
  BY DocCases, HandlersLeaveJob, JobMoves
  DEF DocInv, EndDocSession, EndSession, Expire
<1>4. QED
  BY <1>1, <1>2, <1>3 DEF DocInv

LEMMA BoardInvStep == BoardInv /\ WB!BoardNext => BoardInv' /\ (ended => ended')
<1> SUFFICES ASSUME BoardInv, WB!BoardNext PROVE BoardInv' /\ (ended => ended')
  OBVIOUS
<1>1. BoardInv'
  BY BoardStep, BoardKeptStep, AcksKeptStep DEF BoardInv
<1>2. ended => ended'
  BY DEF WB!BoardNext, WB!InitGet, WB!InitCreate, WB!InitData, WB!AppendLength, WB!SendMore,
         WB!AppendRefused, WB!AppendFails, WB!AppendData, WB!ContinueData, WB!Ack, WB!BoardEnd, WB!TaskStep, WB!TaskGet,
         WB!TaskUpload, WB!TaskFlag, WB!TaskDelete, WB!TaskFails, WB!TaskCrash
<1>3. QED
  BY <1>1, <1>2

LEMMA EditorsInvStep == EditorsInv /\ [EditorsNext]_editorVars => EditorsInv'
<1> SUFFICES ASSUME EditorsInv, [EditorsNext]_editorVars PROVE EditorsInv'
  OBVIOUS
<1>1. CASE tool = "documenteditor" /\ DocNext /\ UNCHANGED <<tool, ownBoardVars>>
  <2>1. DocInv' /\ (ended => ended')
    BY <1>1, DocInvStep DEF EditorsInv
  <2>2. ended' \in BOOLEAN /\ faults' \in 0..MaxFaults
    BY <2>1, DocTypes DEF DocInv, TypeOK
  <2>3. BoardInv'
    BY <1>1, <2>1, <2>2, BoardStays DEF EditorsInv
  <2>4. QED
    BY <1>1, <2>1, <2>3 DEF EditorsInv, OneEditor
<1>2. CASE tool = "whiteboard" /\ WB!BoardNext /\ UNCHANGED <<tool, ownDocVars>>
  <2>1. BoardInv' /\ (ended => ended')
    BY <1>2, BoardInvStep DEF EditorsInv
  <2>2. ended' \in BOOLEAN /\ faults' \in 0..MaxFaults
    BY <2>1 DEF BoardInv, BoardPiecesInv, WB!BoardTypeOK
  <2>3. DocInv'
    BY <1>2, <2>1, <2>2, DocStays DEF EditorsInv, OneEditor
  <2>4. QED
    BY <1>2, <2>1, <2>3 DEF EditorsInv, OneEditor, ownDocVars, vars2
<1>3. CASE UNCHANGED editorVars
  <2>1. UNCHANGED <<tool, vars, vars2>> /\ UNCHANGED ownBoardVars /\ UNCHANGED <<ended, faults>>
    BY <1>3 DEF editorVars, vars
  <2>2. ended' \in BOOLEAN /\ faults' \in 0..MaxFaults
    BY <2>1, DocTypes DEF EditorsInv, DocInv, TypeOK
  <2>3. BoardInv'
    BY <2>1, <2>2, BoardStays DEF EditorsInv
  <2>4. DocInv'
    BY <2>1, DocStutters DEF EditorsInv
  <2>5. QED
    BY <2>1, <2>3, <2>4 DEF EditorsInv, OneEditor, vars2
<1>4. QED
  BY <1>1, <1>2, <1>3 DEF EditorsNext

\* The inductive invariant of both editors together holds in every reachable state.
THEOREM EditorsInvariance == EditorsSpec => []EditorsInv
<1>1. EditorsInit => EditorsInv
  BY DocInvInit, BoardInvInit DEF EditorsInit, EditorsInv, OneEditor
<1>2. EditorsInv /\ [EditorsNext]_editorVars => EditorsInv'
  BY EditorsInvStep
<1>3. QED
  BY <1>1, <1>2, PTL DEF EditorsSpec

\* Every variable of the three documents keeps its type, whatever fails.
THEOREM EditorsTypeCorrect == EditorsSpec => []EditorsTypeOK
<1>1. EditorsInv => EditorsTypeOK
  BY DEF EditorsInv, DocInv, BoardInv, BoardPiecesInv, EditorsTypeOK
<1>2. QED
  BY <1>1, EditorsInvariance, PTL

\* Every version 2 edit from before the end is in the set or in the stored document,
\* however the job fails and runs again: it never deletes a set it has not stored.
THEOREM NoEditIsLost == EditorsSpec => []EditsAreStored
<1>1. EditorsInv => EditsAreStored
  <2>1. SUFFICES ASSUME DocInv, "revived" \notin harmed
                 PROVE  EditsUpto(editsAtEnd) \subseteq updates \cup (IF stored2 = None THEN {} ELSE stored2)
    BY DEF EditorsInv, EditsAreStored
  <2>2. CASE ended /\ editsAtEnd > 0
    BY <2>1, <2>2 DEF DocInv, EditsKept, InRedis, OnlyStored, Wanted
  <2>3. CASE ~ended \/ editsAtEnd = 0
    <3>1. editsAtEnd = 0
      BY <2>1, <2>3 DEF DocInv, BeforeEnd
    <3>2. QED
      BY <3>1 DEF EditsUpto
  <2>4. QED
    BY <2>1, <2>2, <2>3, DocTypes DEF DocInv, UpdatesTypeOK
<1>2. QED
  BY <1>1, EditorsInvariance, PTL

\* The whiteboard is all that was ever appended, in that order, until the job deletes it.
THEOREM WhiteboardIsWhole == EditorsSpec => []BoardIsWhole
<1>1. EditorsInv => BoardIsWhole
  BY DEF EditorsInv, BoardInv, BoardKept, Text, BoardIsWhole, WB!BoardIsWhole
<1>2. QED
  BY <1>1, EditorsInvariance, PTL

\* What a client was told is saved before the end is in storage, or still in Redis,
\* but for an APPEND refused before its CONTINUATION was acknowledged.
THEOREM AcksAreStored == EditorsSpec => []AckedIsStored
<1>1. EditorsInv => AckedIsStored
  <2> SUFFICES ASSUME BoardInv, task \in {"done", "failed"}, spoiled \subseteq {"collided"}
               PROVE  \/ blob # None /\ acked \ refused \subseteq WB!ToSet(blob)
                      \/ ~hasDoc /\ board # None /\ acked \ refused \subseteq WB!ToSet(board)
                      \/ acked \ refused = {}
    BY DEF EditorsInv, AckedIsStored, WB!AckedIsStored
  <2>1. CASE blob # None
    BY <2>1 DEF BoardInv, AcksKept
  <2>2. CASE blob = None
    <3>1. ~hasDoc /\ acked \ refused \subseteq WB!ToSet(appended) /\ Text = appended
      BY <2>2 DEF BoardInv, BoardKept, AcksKept
    <3>2. CASE board = None
      <4>1. appended = <<>>
        BY <3>1, <3>2 DEF Text
      <4>2. QED
        BY <3>1, <4>1 DEF WB!ToSet
    <3>3. QED
      BY <3>1, <3>2 DEF Text
  <2>3. QED
    BY <2>1, <2>2
<1>2. QED
  BY <1>1, EditorsInvariance, PTL

\* What QuillDoc promises of the version 1 document it promises of every session.
LEMMA QuillInSession ==
    DocInv => NoDeltaLost /\ StoredIsComplete
<1> SUFFICES ASSUME DocInv PROVE NoDeltaLost /\ StoredIsComplete
  OBVIOUS
<1>1. CASE version = 1
  <2>1. QuillInv
    BY <1>1, DocTypes DEF DocInv, QuillKept, QuillInv
  <2>2. QED
    BY <2>1, NoneIsLost, CompleteIsStored
<1>2. CASE version = 2
  <2>1. /\ pushed = 0 /\ queue = <<>> /\ atEnd = 0 /\ doc = None
        /\ \A p \in Procs : pc[p] \notin {"pop", "save"}
    BY <1>2, DocTypes DEF DocInv, SecondOnly, NoDeltas, QuillKept, Basics, TypeOK
  <2>2. Composed = <<>>
    BY <2>1 DEF Composed
  <2>3. QED
    BY <2>1, <2>2 DEF NoDeltaLost, StoredIsComplete, Upto
<1>3. QED
  BY <1>1, <1>2, DocTypes DEF DocInv, UpdatesTypeOK

\* Only the job writes the stored document.
LEMMA OnlyJobStores == DocNext => StoreV1 \/ StoreUpdates \/ stored' = stored
  BY DEF DocNext, RequestStateV1, TransmitDeltaV1, RequestState, TransmitDelta, RequestStateV2,
         TransmitDeltaV2, BotAskedDoc, Handles, BotHandles, SocketStep, GetV1Step, Acquire, Locked,
         Get, Pop, Save, Release, Create, Push, DocJobStep, JobReads, AddUpdate, ReadUpdates,
         ReadNothing, Seed, DeleteUpdates, DeleteDoc, DeleteDeltas, DeleteV1Fails, DeleteFails,
         JobCallFailsV1, JobCallFails, JobCallFailsV2, EndDocSession, EndSession, Expire, CrashDoc,
         Crash, vars, locals

\* However version 2 clients and the tutor bot read, and turn the session into a version
\* 2 one, no delta of version 1 is lost, doubled or composed out of order.
THEOREM DeltasAreKeptTogether == EditorsSpec => []NoDeltaLost
<1>1. EditorsInv => NoDeltaLost
  BY QuillInSession DEF EditorsInv
<1>2. QED
  BY <1>1, EditorsInvariance, PTL

\* In every session the job has stored every delta from before the end when it deletes
\* the keys.
THEOREM AllIsStoredTogether == EditorsSpec => []StoredIsComplete
<1>1. EditorsInv => StoredIsComplete
  BY QuillInSession DEF EditorsInv
<1>2. QED
  BY <1>1, EditorsInvariance, PTL

LEMMA StoredGrowsTogether ==
    EditorsInv /\ EditorsInv' /\ [EditorsNext]_editorVars
        => (harmed = {} /\ stored # None => IsPrefix(stored, stored'))
<1> SUFFICES ASSUME EditorsInv, EditorsInv', [EditorsNext]_editorVars, harmed = {}, stored # None
             PROVE  IsPrefix(stored, stored')
  OBVIOUS
<1>1. TypeOK /\ UpdatesTypeOK
  BY DocTypes DEF EditorsInv, DocInv
<1>2. version = 1 /\ QuillInv
  BY <1>1 DEF EditorsInv, DocInv, NoDeltas, QuillKept, QuillInv, UpdatesTypeOK
<1>3. CASE stored' = stored
  <2>1. Len(stored) \in Nat
    BY <1>1 DEF TypeOK, Docs
  <2>2. QED
    BY <1>3, <2>1 DEF IsPrefix
<1>4. CASE StoreV1
  <2>1. Store /\ harmed' = {}
    BY <1>4 DEF StoreV1, Store
  <2>2. QuillInv'
    BY <1>2, <1>4, DocTypes DEF EditorsInv, DocInv, QuillKept, QuillInv, StoreV1
  <2>3. QED
    BY <1>2, <2>1, <2>2, StoredGrows DEF Next, JobStep
<1>5. ~StoreUpdates
  BY <1>2 DEF EditorsInv, DocInv, Unseeded, StoreUpdates, At2
<1>6. QED
  BY <1>3, <1>4, <1>5, OnlyJobStores DEF EditorsNext, ownDocVars, editorVars, vars

\* A second run of the job never stores less than the first, in any session.
THEOREM StoredNeverShrinksTogether == EditorsSpec => StoredOnlyGrows
<1>1. EditorsInv /\ EditorsInv' /\ [EditorsNext]_editorVars
        => [harmed = {} /\ stored # None => IsPrefix(stored, stored')]_vars
  BY StoredGrowsTogether
<1>2. QED
  BY <1>1, EditorsInvariance, PTL DEF EditorsSpec, StoredOnlyGrows

\* No piece of a whiteboard is ever appended twice, whatever its handlers do out of order.
THEOREM PiecesAreAppendedOnce ==
    EditorsSpec => [](\A i, j \in 1..Len(appended) : appended[i] = appended[j] => i = j)
<1>1. EditorsInv => \A i, j \in 1..Len(appended) : appended[i] = appended[j] => i = j
  BY DEF EditorsInv, BoardInv, BoardPiecesInv, PiecesOnce
<1>2. QED
  BY <1>1, EditorsInvariance, PTL

=============================================================================
