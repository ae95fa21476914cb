---------------------------- MODULE QuillUpdates ----------------------------
(***************************************************************************)
(* Both versions of the document editor of one session.  A version 2       *)
(* document is a Redis set of Yjs updates, which commute; the set holds a  *)
(* dummy member from the start of the session, and its existence is what   *)
(* tells a client which version to load.                                   *)
(*                                                                         *)
(* Code: src/server/services/QuillDocService.ts (getDocumentUpdates,       *)
(* addDocumentUpdate, getDocEditorVersion, getCurrentSessionDocEditor,     *)
(* deleteDoc), requestQuillStateV2 and transmitQuillDeltaV2 of             *)
(* router/api/sockets.ts, storeAndDeleteQuillDoc in SessionService.ts and  *)
(* getDocumentEditorContext in TutorBotService.ts.  Version 1 is QuillDoc. *)
(***************************************************************************)
EXTENDS QuillDoc

CONSTANT MaxUpdates     \* bound on the version 2 updates transmitted

SET_EXISTS   == <<"SET_EXISTS", None>>
Edit(n)      == <<"edit", n>>
Worksheet(p) == <<"worksheet", p>>     \* every call makes a Yjs update of its own

Updates == {SET_EXISTS} \cup {Edit(n) : n \in 1..MaxUpdates}
           \cup {Worksheet(p) : p \in Procs}

ASSUME UpdatesOK == MaxUpdates \in Nat /\ \A us \in SUBSET Updates : us # None

VARIABLES
    version,    \* docEditorVersion of the start request
    worksheet,  \* the subject is collegeList and the student has the worksheet flag
    updates,    \* Redis set quill-<session>-document-updates
    joined,     \* sockets that have been sent the updates
    stored2,    \* sessions.quill_doc, when it was made from updates: which ones
    at2,        \* the next call of the version 2 part of every process
    found,      \* the job's variable v2Updates
    edits,      \* history: number of updates added
    editsAtEnd  \* history: edits when the session ended

vars2 == <<version, worksheet, updates, joined, stored2, at2, found, edits,
           editsAtEnd>>

DocInit ==
    /\ Init
    /\ version \in {1, 2} /\ worksheet \in BOOLEAN
    /\ updates = IF version = 2 THEN {SET_EXISTS} ELSE {}
    /\ joined = {} /\ stored2 = None
    /\ at2 = [p \in Procs |-> "idle"]
    /\ found = {} /\ edits = 0 /\ editsAtEnd = 0

At2(p, label)   == at2[p] = label
Goto2(p, label) == at2' = [at2 EXCEPT ![p] = label]

\* A socket or the tutor bot that can take the next message.
Free(p) == At(p, "idle") /\ At2(p, "idle")

-----------------------------------------------------------------------------
\* The socket handlers.  A client uses the version it has last been told.

RequestStateV1(p) == version = 1 /\ At2(p, "idle") /\ RequestState(p) /\ UNCHANGED vars2
TransmitDeltaV1(p) == At2(p, "idle") /\ TransmitDelta(p) /\ UNCHANGED vars2

\* getDocEditorVersion
ToldVersion2 == updates # {}

RequestStateV2(p) ==
    /\ Free(p) /\ ~ended
    /\ ToldVersion2
    /\ Goto2(p, "read")
    /\ UNCHANGED <<vars, version, worksheet, updates, joined, stored2, found,
                   edits, editsAtEnd>>

TransmitDeltaV2(p) ==
    /\ Free(p) /\ ~ended
    /\ p \in joined
    /\ Goto2(p, "add")
    /\ UNCHANGED <<vars, version, worksheet, updates, joined, stored2, found,
                   edits, editsAtEnd>>

\* addDocumentUpdate: SADD, also into a set that the job has deleted.
AddUpdate(p) ==
    /\ At2(p, "add") /\ edits < MaxUpdates
    /\ updates' = updates \cup {Edit(edits + 1)}
    /\ edits' = edits + 1
    /\ harmed' = IF stored2 # None THEN harmed \cup {"revived"} ELSE harmed
    /\ Goto2(p, "idle")
    /\ UNCHANGED <<doc, queue, lock, ended, stored, opened, locals, faults,
                   pushed, atEnd, version, worksheet, joined, stored2, found,
                   editsAtEnd>>

-----------------------------------------------------------------------------
\* getDocumentUpdates, called by a socket, the tutor bot or the job, and what
\* each of them does with the result.

BotAskedDoc(b) ==
    /\ Free(b)
    /\ Goto2(b, "read")
    /\ UNCHANGED <<vars, version, worksheet, updates, joined, stored2, found,
                   edits, editsAtEnd>>

JobReads ==
    /\ At(Job, "wait") /\ At2(Job, "idle") /\ ended
    /\ Goto2(Job, "read")
    /\ UNCHANGED <<vars, version, worksheet, updates, joined, stored2, found,
                   edits, editsAtEnd>>

\* The caller p has got the updates us, none of them the dummy.
Got(p, us) ==
    \/ /\ p \in Sockets
       /\ joined' = joined \cup {p}
       /\ Goto2(p, "idle")
       /\ UNCHANGED <<pc, retries, found>>
    \/ /\ p \in Readers /\ us = {}
       /\ pc' = [pc EXCEPT ![p] = "lock"] /\ retries' = [retries EXCEPT ![p] = 0]
       /\ Goto2(p, IF p = Job THEN "delete" ELSE "idle")
       /\ UNCHANGED <<joined, found>>
    \/ /\ p \in Readers /\ us # {}
       /\ found' = IF p = Job THEN us ELSE found
       /\ Goto2(p, IF p = Job THEN "store" ELSE "idle")
       /\ UNCHANGED <<joined, pc, retries>>

NeedsWorksheet == updates = {} /\ worksheet

\* Mutant of ReadUpdates: a set that holds the dummy counts as empty.
ReadUpdatesDummy(p) ==
    /\ At2(p, "read") /\ ~NeedsWorksheet
    /\ Got(p, IF SET_EXISTS \in updates THEN {} ELSE updates)
    /\ UNCHANGED <<doc, queue, lock, ended, stored, opened, hand, took, faults,
                   pushed, atEnd, harmed, version, worksheet, updates, stored2,
                   edits, editsAtEnd>>

ReadUpdates(p) ==
    /\ At2(p, "read") /\ ~NeedsWorksheet
    /\ Got(p, updates \ {SET_EXISTS})
    /\ UNCHANGED <<doc, queue, lock, ended, stored, opened, hand, took, faults,
                   pushed, atEnd, harmed, version, worksheet, updates, stored2,
                   edits, editsAtEnd>>

\* The set was empty: the flag is asked before the worksheet is added.
ReadNothing(p) ==
    /\ At2(p, "read") /\ NeedsWorksheet
    /\ Goto2(p, "seed")
    /\ UNCHANGED <<vars, version, worksheet, updates, joined, stored2, found,
                   edits, editsAtEnd>>

\* The worksheet becomes an update: a session that has begun with version 1 is
\* a version 2 session from here on, and its version 1 document is not looked at.
Seed(p) ==
    /\ At2(p, "seed")
    /\ updates' = updates \cup {Worksheet(p)}
    /\ harmed' = harmed \cup (IF stored2 = None THEN {"seeded"} ELSE {"seeded", "revived"})
    /\ Got(p, {Worksheet(p)})
    /\ UNCHANGED <<doc, queue, lock, ended, stored, opened, hand, took, faults,
                   pushed, atEnd, version, worksheet, stored2, edits, editsAtEnd>>

-----------------------------------------------------------------------------
\* The job stores what it has found and deletes the three keys.

StoreUpdates ==
    /\ At2(Job, "store")
    /\ stored2' = found /\ stored' = None
    /\ Goto(Job, "delete_doc") /\ Goto2(Job, "delete")
    /\ UNCHANGED <<doc, queue, lock, ended, opened, hand, took, retries, faults,
                   pushed, atEnd, harmed, version, worksheet, updates, joined,
                   found, edits, editsAtEnd>>

StoreV1 ==
    /\ Store
    /\ stored2' = None
    /\ UNCHANGED <<version, worksheet, updates, joined, at2, found, edits, editsAtEnd>>

LastDelete(p) == p = Job /\ At(p, "done") /\ At2(p, "delete")

DeleteUpdates ==
    /\ LastDelete(Job)
    /\ updates' = {}
    /\ Goto2(Job, "done")
    /\ UNCHANGED <<vars, version, worksheet, joined, stored2, found, edits, editsAtEnd>>

\* A DEL throws: what is left is left.
DeleteV1Fails ==
    /\ DeleteFails
    /\ Goto2(Job, "done")
    /\ UNCHANGED <<version, worksheet, updates, joined, stored2, found, edits, editsAtEnd>>

\* A call throws in the version 1 part; a failed UPDATE fails the job, before it
\* deletes anything.
JobCallFailsV1 ==
    /\ JobCallFails
    /\ IF At(Job, "store") THEN Goto2(Job, "failed") ELSE UNCHANGED at2
    /\ UNCHANGED <<version, worksheet, updates, joined, stored2, found, edits, editsAtEnd>>

\* The same in the version 2 part; a failed DEL is only logged.
JobCallFailsV2 ==
    /\ at2[Job] \in {"read", "seed", "store"} \/ LastDelete(Job)
    /\ faults < MaxFaults /\ faults' = faults + 1
    /\ LET next == IF At2(Job, "delete") THEN "done" ELSE "failed" IN
          Goto(Job, next) /\ Goto2(Job, next)
    /\ UNCHANGED <<doc, queue, lock, ended, stored, opened, hand, took, retries,
                   pushed, atEnd, harmed, version, worksheet, updates, joined,
                   stored2, found, edits, editsAtEnd>>

-----------------------------------------------------------------------------
EndDocSession ==
    /\ EndSession
    /\ editsAtEnd' = edits
    /\ UNCHANGED <<version, worksheet, updates, joined, stored2, at2, found, edits>>

CrashDoc(p) ==
    /\ faults < MaxFaults
    /\ \/ Crash(p)
       \/ /\ at2[p] \in {"read", "seed", "add", "store"}
          /\ faults' = faults + 1
          /\ Goto(p, IF p = Job THEN "wait" ELSE "idle")
          /\ UNCHANGED <<doc, queue, lock, ended, stored, opened, hand, took,
                         retries, pushed, atEnd, harmed>>
    /\ Goto2(p, "idle")
    /\ UNCHANGED <<version, worksheet, updates, joined, stored2, found, edits, editsAtEnd>>

Handles(p) ==
    \/ SocketStep(p) /\ UNCHANGED vars2
    \/ AddUpdate(p) \/ ReadUpdates(p) \/ ReadNothing(p) \/ Seed(p)

BotHandles(b) ==
    \/ GetV1Step(b) /\ UNCHANGED vars2
    \/ ReadUpdates(b) \/ ReadNothing(b) \/ Seed(b)

DocJobStep ==
    \/ JobReads \/ ReadUpdates(Job) \/ ReadNothing(Job) \/ Seed(Job)
    \/ GetV1Step(Job) /\ UNCHANGED vars2
    \/ (DeleteDoc \/ DeleteDeltas) /\ UNCHANGED vars2
    \/ StoreV1 \/ StoreUpdates \/ DeleteUpdates

DocNext ==
    \/ \E p \in Sockets : \/ RequestStateV1(p) \/ TransmitDeltaV1(p)
                          \/ RequestStateV2(p) \/ TransmitDeltaV2(p) \/ Handles(p)
    \/ \E b \in Bots : BotAskedDoc(b) \/ BotHandles(b)
    \/ EndDocSession \/ DocJobStep \/ DeleteV1Fails \/ JobCallFailsV2
    \/ JobCallFailsV1 \/ (Expire /\ UNCHANGED vars2)
    \/ \E p \in Procs : CrashDoc(p)

-----------------------------------------------------------------------------
\* Properties.

DocTypeOK ==
    /\ TypeOK
    /\ version \in {1, 2} /\ worksheet \in BOOLEAN
    /\ updates \subseteq Updates /\ joined \subseteq Sockets
    /\ stored2 \in (SUBSET Updates) \cup {None} /\ found \subseteq Updates
    /\ at2 \in [Procs -> {"idle", "read", "seed", "add", "store", "delete", "done",
                       "failed"}]
    /\ edits \in 0..MaxUpdates /\ editsAtEnd \in 0..MaxUpdates

EditsUpto(n) == {Edit(i) : i \in 1..n}

\* Every version 2 edit that was added before the session ended is in the stored
\* document, or still in Redis, also when a call of the job fails or it is run
\* again, unless something is added to the deleted set (a late edit, or the
\* worksheet) and the job, run again, stores that instead.
EditsAreStored ==
    "revived" \notin harmed =>
        EditsUpto(editsAtEnd) \subseteq
            updates \cup (IF stored2 = None THEN {} ELSE stored2)
=============================================================================
