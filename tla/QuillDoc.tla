------------------------------ MODULE QuillDoc ------------------------------
(***************************************************************************)
(* The shared document of one session (editor version 1) in Redis: the     *)
(* document key, the list of deltas not composed into it yet, and the lock *)
(* around both; the sockets that load and edit it, the tutor bot that reads*)
(* it, and the post-session task that stores it in PostgreSQL and deletes  *)
(* the keys.                                                               *)
(*                                                                         *)
(* Code: src/server/services/QuillDocService.ts, the handlers              *)
(* requestQuillState and transmitQuillDelta of router/api/sockets.ts, and  *)
(* storeAndDeleteQuillDoc in SessionService.ts.                            *)
(*                                                                         *)
(* Deltas are numbered in the order in which Redis appends them, and a     *)
(* document is the sequence of the deltas composed into it.                *)
(***************************************************************************)
EXTENDS Integers, Sequences, SequencesExt

CONSTANTS
    Sockets,        \* socket handlers that may run at once
    Bots,           \* tutor bot requests, which read the document too
    Job,            \* the processSessionEnded job of the session
    None,           \* no key, no lock holder, no stored document
    MaxDeltas,      \* bound on the deltas transmitted
    MaxRetries,     \* retries of getQuillDocV1 (10 in the code)
    MaxFaults       \* bound on crashes and failed deletions

ASSUME ConstantsOK ==
    /\ Job \notin Sockets \cup Bots /\ Sockets \cap Bots = {}
    /\ None \notin Sockets \cup Bots \cup {Job} /\ None \notin Seq(1..MaxDeltas)
    /\ MaxDeltas \in Nat /\ MaxRetries \in Nat /\ MaxFaults \in Nat

Procs   == Sockets \cup Bots \cup {Job}
Readers == Bots \cup {Job}          \* the callers of getQuillDocV1

VARIABLES
    doc,        \* Redis key quill-<session>
    queue,      \* Redis list quill-<session>-deltas
    lock,       \* holder of lock:quill-<session>; it expires after 5 seconds
    ended,      \* sessions.ended_at IS NOT NULL
    stored,     \* sessions.quill_doc
    opened,     \* sockets that have been sent the document
    pc,         \* the next call of every handler, and of the job
    hand,       \* its variable doc in processDoc
    took,       \* its variable isUpdateNeeded
    retries,    \* the variable retries of getQuillDocV1
    faults,     \* crashes and failed deletions so far
    pushed,     \* history: number of deltas appended
    atEnd,      \* history: pushed when the session ended
    harmed      \* history: the crashes, failed calls, lapses of the lock and late
                \* creations and saves that may lose deltas

locals == <<pc, hand, took, retries>>
vars == <<doc, queue, lock, ended, stored, opened, locals, faults, pushed,
          atEnd, harmed>>

Labels == {"idle", "lock", "get", "pop", "save", "release", "create", "push",
           "wait", "store", "delete_doc", "delete_deltas", "done", "failed"}

Init ==
    /\ doc = None /\ queue = <<>> /\ lock = None
    /\ ended = FALSE /\ stored = None /\ opened = {}
    /\ pc = [p \in Procs |-> IF p = Job THEN "wait" ELSE "idle"]
    /\ hand = [p \in Procs |-> <<>>]
    /\ took = [p \in Procs |-> FALSE]
    /\ retries = [p \in Readers |-> 0] /\ faults = 0
    /\ pushed = 0 /\ atEnd = 0 /\ harmed = {}

At(p, label)   == pc[p] = label
Goto(p, label) == pc' = [pc EXCEPT ![p] = label]

-----------------------------------------------------------------------------
\* The socket handlers.  Both read whether the session has ended first.

RequestState(p) ==
    /\ At(p, "idle") /\ ~ended
    /\ Goto(p, "lock")
    /\ UNCHANGED <<doc, queue, lock, ended, stored, opened, hand, took, retries,
                   faults, pushed, atEnd, harmed>>

\* The client edits a document it has been sent.
TransmitDelta(p) ==
    /\ At(p, "idle") /\ ~ended
    /\ p \in opened
    /\ Goto(p, "push")
    /\ UNCHANGED <<doc, queue, lock, ended, stored, opened, hand, took, retries,
                   faults, pushed, atEnd, harmed>>

\* appendToDoc: RPUSH, without the lock.
Push(p) ==
    /\ At(p, "push") /\ pushed < MaxDeltas
    /\ queue' = Append(queue, pushed + 1)
    /\ pushed' = pushed + 1
    /\ Goto(p, "idle")
    /\ UNCHANGED <<doc, lock, ended, stored, opened, hand, took, retries,
                   faults, atEnd, harmed>>

\* createDoc overwrites the document key.  A handler that has seen the session
\* open may do so when the job has stored and deleted the document already.
Create(p) ==
    /\ At(p, "create")
    /\ doc' = <<>>
    /\ opened' = opened \cup {p}
    /\ harmed' = IF stored # None THEN harmed \cup {"revived"} ELSE harmed
    /\ Goto(p, "idle")
    /\ UNCHANGED <<queue, lock, ended, stored, hand, took, retries, faults,
                   pushed, atEnd>>

-----------------------------------------------------------------------------
\* lockAndGetDocCacheState and processDoc, by a socket or the job.

\* Mutant of Acquire: the lock is not looked at.
AcquireAnyway(p) ==
    /\ At(p, "lock")
    /\ lock' = p
    /\ Goto(p, "get")
    /\ UNCHANGED <<doc, queue, ended, stored, opened, hand, took, retries,
                   faults, pushed, atEnd, harmed>>

Acquire(p) ==
    /\ At(p, "lock")
    /\ lock = None
    /\ lock' = p
    /\ Goto(p, "get")
    /\ UNCHANGED <<doc, queue, ended, stored, opened, hand, took, retries,
                   faults, pushed, atEnd, harmed>>

\* Where a caller of getQuillDocV1 goes on without a document.
WithoutDoc(p) == IF p = Job THEN "delete_doc" ELSE "idle"

\* Mutant of Locked: one retry too many.
LockedOnceMore(p) ==
    /\ At(p, "lock")
    /\ lock # None
    /\ \/ p \in Sockets /\ Goto(p, "idle") /\ UNCHANGED <<retries, harmed>>
       \/ /\ p \in Readers /\ retries[p] <= MaxRetries
          /\ retries' = [retries EXCEPT ![p] = @ + 1]
          /\ UNCHANGED <<pc, harmed>>
       \/ /\ p \in Readers
          /\ Goto(p, WithoutDoc(p))
          /\ harmed' = IF p = Job THEN harmed \cup {"gave_up"} ELSE harmed
          /\ UNCHANGED retries
    /\ UNCHANGED <<doc, queue, lock, ended, stored, opened, hand, took, faults,
                   pushed, atEnd>>

\* The lock is taken.  A socket is told to retry; getQuillDocV1 tries again when
\* the error is a ResourceLockedError, and otherwise, or when it has run out of
\* retries, goes on without a document.
Locked(p) ==
    /\ At(p, "lock")
    /\ lock # None
    /\ \/ p \in Sockets /\ Goto(p, "idle") /\ UNCHANGED <<retries, harmed>>
       \/ /\ p \in Readers /\ retries[p] < MaxRetries
          /\ retries' = [retries EXCEPT ![p] = @ + 1]
          /\ UNCHANGED <<pc, harmed>>
       \/ /\ p \in Readers
          /\ Goto(p, WithoutDoc(p))
          /\ harmed' = IF p = Job THEN harmed \cup {"gave_up"} ELSE harmed
          /\ UNCHANGED retries
    /\ UNCHANGED <<doc, queue, lock, ended, stored, opened, hand, took, faults,
                   pushed, atEnd>>

\* Mutant of Get: the job stores a document although it has found none.
GetStoresAnyway(p) ==
    /\ At(p, "get")
    /\ hand' = [hand EXCEPT ![p] = IF doc = None THEN <<>> ELSE doc]
    /\ took' = [took EXCEPT ![p] = FALSE]
    /\ Goto(p, IF doc # None THEN "pop" ELSE IF p = Job THEN "store" ELSE
               IF p \in Bots THEN "idle" ELSE "create")
    /\ UNCHANGED <<doc, queue, lock, ended, stored, opened, retries, faults,
                   pushed, atEnd, harmed>>

\* Mutant of Get: the error of a missing document fails the job, which is retried.
GetThrows(p) ==
    /\ At(p, "get")
    /\ hand' = [hand EXCEPT ![p] = IF doc = None THEN <<>> ELSE doc]
    /\ took' = [took EXCEPT ![p] = FALSE]
    /\ Goto(p, IF doc # None THEN "pop" ELSE IF p = Job THEN "wait" ELSE
               IF p \in Bots THEN "idle" ELSE "create")
    /\ UNCHANGED <<doc, queue, lock, ended, stored, opened, retries, faults,
                   pushed, atEnd, harmed>>

\* GET of the document key.  When it throws KeyNotFoundError the lock is not
\* released: a socket creates the document, the others have none.
Get(p) ==
    /\ At(p, "get")
    /\ hand' = [hand EXCEPT ![p] = IF doc = None THEN <<>> ELSE doc]
    /\ took' = [took EXCEPT ![p] = FALSE]
    /\ Goto(p, IF doc # None THEN "pop" ELSE
               IF p \in Readers THEN WithoutDoc(p) ELSE "create")
    /\ UNCHANGED <<doc, queue, lock, ended, stored, opened, retries, faults,
                   pushed, atEnd, harmed>>

\* Mutant of Pop: only the first delta of the list is composed.
PopOne(p) ==
    /\ At(p, "pop")
    /\ \/ /\ queue # <<>> /\ ~took[p]
          /\ hand' = [hand EXCEPT ![p] = Append(@, Head(queue))]
          /\ took' = [took EXCEPT ![p] = TRUE]
          /\ queue' = Tail(queue)
          /\ UNCHANGED pc
       \/ /\ queue = <<>> \/ took[p]
          /\ Goto(p, IF took[p] THEN "save" ELSE "release")
          /\ UNCHANGED <<queue, hand, took>>
    /\ UNCHANGED <<doc, lock, ended, stored, opened, retries, faults, pushed,
                   atEnd, harmed>>

\* LPOP, composing what it returns, until the list is empty.
Pop(p) ==
    /\ At(p, "pop")
    /\ \/ /\ queue # <<>>
          /\ hand' = [hand EXCEPT ![p] = Append(@, Head(queue))]
          /\ took' = [took EXCEPT ![p] = TRUE]
          /\ queue' = Tail(queue)
          /\ UNCHANGED pc
       \/ /\ queue = <<>>
          /\ Goto(p, IF took[p] THEN "save" ELSE "release")
          /\ UNCHANGED <<queue, hand, took>>
    /\ UNCHANGED <<doc, lock, ended, stored, opened, retries, faults, pushed,
                   atEnd, harmed>>

\* A handler that has read the document before the job deleted it brings it back.
Save(p) ==
    /\ At(p, "save")
    /\ doc' = hand[p]
    /\ harmed' = IF doc = None THEN harmed \cup {"revived"} ELSE harmed
    /\ Goto(p, "release")
    /\ UNCHANGED <<queue, lock, ended, stored, opened, hand, took, retries,
                   faults, pushed, atEnd>>

\* A release after the lock has expired throws: the caller then has no
\* document, and the job goes on to delete what there is.
Release(p) ==
    /\ At(p, "release")
    /\ \/ /\ lock = p /\ lock' = None
          /\ Goto(p, IF p = Job THEN "store" ELSE "idle")
          /\ opened' = IF p \in Sockets THEN opened \cup {p} ELSE opened
       \/ /\ lock # p
          /\ Goto(p, WithoutDoc(p))
          /\ UNCHANGED <<lock, opened>>
    /\ UNCHANGED <<doc, queue, ended, stored, hand, took, retries, faults,
                   pushed, atEnd, harmed>>

-----------------------------------------------------------------------------
\* The session ends, and its job runs storeAndDeleteQuillDoc.

EndSession ==
    /\ ~ended
    /\ ended' = TRUE
    /\ atEnd' = pushed
    /\ UNCHANGED <<doc, queue, lock, stored, opened, locals, faults, pushed,
                   harmed>>

\* getCurrentSessionDocEditor, when there are no version 2 updates.
ReadV1(p) ==
    /\ Goto(p, "lock")
    /\ retries' = [retries EXCEPT ![p] = 0]
    /\ UNCHANGED <<doc, queue, lock, ended, stored, opened, hand, took, faults,
                   pushed, atEnd, harmed>>

JobStart == At(Job, "wait") /\ ended /\ ReadV1(Job)

\* The tutor bot is asked about the session, which may have ended.
BotAsked(b) == At(b, "idle") /\ ReadV1(b)

Store ==
    /\ At(Job, "store")
    /\ stored' = hand[Job]
    /\ Goto(Job, "delete_doc")
    /\ UNCHANGED <<doc, queue, lock, ended, opened, hand, took, retries, faults,
                   pushed, atEnd, harmed>>

\* deleteDoc: one DEL per key; the one of the version 2 key changes nothing.
DeleteDoc ==
    /\ At(Job, "delete_doc")
    /\ doc' = None
    /\ Goto(Job, "delete_deltas")
    /\ UNCHANGED <<queue, lock, ended, stored, opened, hand, took, retries,
                   faults, pushed, atEnd, harmed>>

DeleteDeltas ==
    /\ At(Job, "delete_deltas")
    /\ queue' = <<>>
    /\ Goto(Job, "done")
    /\ UNCHANGED <<doc, lock, ended, stored, opened, hand, took, retries,
                   faults, pushed, atEnd, harmed>>

\* A DEL throws: logged, the keys that are left stay.
DeleteFails ==
    /\ pc[Job] \in {"delete_doc", "delete_deltas"}
    /\ faults < MaxFaults /\ faults' = faults + 1
    /\ Goto(Job, "done")
    /\ UNCHANGED <<doc, queue, lock, ended, stored, opened, hand, took, retries,
                   pushed, atEnd, harmed>>

-----------------------------------------------------------------------------
\* The environment.

\* Where p relies on holding the lock.
Relies(p) == pc[p] \in {"get", "pop", "save", "release", "create"}

\* Redis expires the lock: it was leaked, or its holder took too long.
Expire ==
    /\ lock # None
    /\ lock' = None
    /\ harmed' = IF Relies(lock) THEN harmed \cup {"lapse"} ELSE harmed
    /\ UNCHANGED <<doc, queue, ended, stored, opened, locals, faults, pushed,
                   atEnd>>

\* The process of a handler dies, or the worker, here or in a later task of the
\* job (hence also when it is done): Bull runs the job again.
Crash(p) ==
    /\ pc[p] \notin {"idle", "wait", "failed"}
    /\ faults < MaxFaults /\ faults' = faults + 1
    /\ Goto(p, IF p = Job THEN "wait" ELSE "idle")
    /\ harmed' = IF pc[p] \in {"pop", "save"} /\ took[p]
                 THEN harmed \cup {"crash"} ELSE harmed
    /\ UNCHANGED <<doc, queue, lock, ended, stored, opened, hand, took, retries,
                   pushed, atEnd>>

\* A call of the job to Redis or PostgreSQL throws.  getQuillDocV1 logs it and
\* has no document, so the keys are deleted; a failed UPDATE fails the job,
\* which nothing runs again.
JobCallFails ==
    /\ pc[Job] \in {"get", "pop", "save", "release", "store"}
    /\ faults < MaxFaults /\ faults' = faults + 1
    /\ Goto(Job, IF pc[Job] = "store" THEN "failed" ELSE "delete_doc")
    /\ harmed' = harmed \cup {"gave_up"}
    /\ UNCHANGED <<doc, queue, lock, ended, stored, opened, hand, took, retries,
                   pushed, atEnd>>

SocketStep(p) ==
    \/ Acquire(p) \/ Locked(p) \/ Get(p) \/ Pop(p) \/ Save(p) \/ Release(p)
    \/ Create(p) \/ Push(p)

\* getQuillDocV1, by the tutor bot or the job.
GetV1Step(p) ==
    Acquire(p) \/ Locked(p) \/ Get(p) \/ Pop(p) \/ Save(p) \/ Release(p)

JobStep ==
    \/ JobStart \/ GetV1Step(Job) \/ Store \/ DeleteDoc \/ DeleteDeltas

Next ==
    \/ \E p \in Sockets : RequestState(p) \/ TransmitDelta(p) \/ SocketStep(p)
    \/ \E b \in Bots : BotAsked(b) \/ GetV1Step(b)
    \/ EndSession \/ JobStep \/ DeleteFails \/ JobCallFails
    \/ Expire
    \/ \E p \in Procs : Crash(p)

Spec == Init /\ [][Next]_vars

-----------------------------------------------------------------------------
\* Properties.

Docs == Seq(1..MaxDeltas)

\* Every variable has its type.
TypeOK ==
    /\ doc \in Docs \cup {None} /\ queue \in Docs /\ lock \in Procs \cup {None}
    /\ ended \in BOOLEAN /\ stored \in Docs \cup {None} /\ opened \subseteq Sockets
    /\ pc \in [Procs -> Labels] /\ hand \in [Procs -> Docs]
    /\ took \in [Procs -> BOOLEAN] /\ retries \in [Readers -> 0..MaxRetries]
    /\ faults \in 0..MaxFaults
    /\ pushed \in 0..MaxDeltas /\ atEnd \in 0..MaxDeltas
    /\ harmed \subseteq {"crash", "lapse", "gave_up", "revived", "seeded"}

Upto(n) == [i \in 1..n |-> i]

Deleting == pc[Job] \in {"delete_doc", "delete_deltas", "done"}

\* The text as composed so far: in the hands of the process that is popping,
\* or else under the document key.
Composed ==
    IF \E p \in Procs : pc[p] \in {"pop", "save"}
    THEN hand[CHOOSE p \in Procs : pc[p] \in {"pop", "save"}]
    ELSE IF doc = None THEN <<>> ELSE doc

\* No delta is lost, doubled or composed out of order, however sockets append
\* while others compose or create the document, as long as nobody who composes
\* or creates dies or outlives the lock.  The lock that lockAndGetDocCacheState
\* leaks on KeyNotFoundError is what keeps two createDoc calls apart.
NoDeltaLost ==
    \/ harmed # {} \/ Deleting \/ stored # None
    \/ Composed \o queue = Upto(pushed)

\* When the job deletes the keys, the document it has stored holds every delta
\* that was appended before the session ended, in order.
StoredIsComplete ==
    Deleting /\ harmed = {} /\ atEnd > 0 =>
        /\ stored # None
        /\ IsPrefix(Upto(atEnd), stored)
        /\ IsPrefix(stored, Upto(pushed))

\* The stored document is never replaced by one with fewer of the deltas, also
\* when the job stalls and runs again after it had begun to delete, or in a later
\* task, unless a late createDoc or processDoc has put a document where the job
\* will find it.
StoredOnlyGrows ==
    [][harmed = {} /\ stored # None => IsPrefix(stored, stored')]_vars
=============================================================================
