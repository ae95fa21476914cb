----------------------------- MODULE Whiteboard -----------------------------
(***************************************************************************)
(* The whiteboard document of one session, a Redis string that clients     *)
(* append to over web sockets, and the post-session task that uploads and  *)
(* deletes it.  Every message has a handler of its own, and the handlers   *)
(* of one socket do not wait for each other.                               *)
(*                                                                         *)
(* Code: the handlers INIT, APPEND and CONTINUATION of                     *)
(* src/server/router/whiteboard/index.ts, WhiteboardService.ts, and        *)
(* storeAndDeleteWhiteboardDoc in SessionService.ts.                       *)
(*                                                                         *)
(* The data of a message is a number: they count the pieces that clients   *)
(* send.  A client splits a long one into an APPEND and one CONTINUATION.  *)
(***************************************************************************)
EXTENDS Integers, Sequences, SequencesExt

CONSTANTS
    Clients,        \* web sockets in the room of the session
    None,           \* no key, no blob
    MaxPieces,      \* bound on the pieces sent
    MaxFaults       \* bound on crashes and failed calls

BoardConstants ==
    /\ None \notin Clients /\ None \notin Seq(1..MaxPieces)
    /\ MaxPieces \in Nat /\ MaxFaults \in Nat

VARIABLES
    ended,      \* sessions.ended_at IS NOT NULL
    board,      \* Redis key zwibbler-<session>
    handler,    \* the next call of the handler of each client's INIT or APPEND
    follow,     \* the same of its CONTINUATION
    piece,      \* the data of the client's messages in flight, one or two
    offset,     \* documentLength in the APPEND handler
    task,       \* the next call of storeAndDeleteWhiteboardDoc
    held,       \* its variable whiteboardDoc
    uploaded,   \* its variable hasWhiteboardDoc
    blob,       \* the document in Azure storage
    hasDoc,     \* sessions.has_whiteboard_doc
    faults,     \* crashes and failed calls so far
    sent,       \* history: pieces sent
    appended,   \* history: the pieces appended, in order
    acked,      \* history: the pieces acknowledged before the session ended
    refused,    \* history: the pieces whose APPEND was answered with a NACK or failed
    spoiled     \* history: the races and failures that may lose or mix pieces

boardVars == <<board, handler, follow, piece, offset, task, held, uploaded, blob,
               hasDoc, sent, appended, acked, refused, spoiled>>
wvars == <<ended, faults, boardVars>>

Init ==
    /\ ended = FALSE /\ board = None
    /\ handler = [c \in Clients |-> "closed"]
    /\ follow = [c \in Clients |-> "none"]
    /\ piece = [c \in Clients |-> <<>>] /\ offset = [c \in Clients |-> 0]
    /\ task = "wait" /\ held = <<>> /\ uploaded = FALSE
    /\ blob = None /\ hasDoc = FALSE /\ faults = 0
    /\ sent = 0 /\ appended = <<>> /\ acked = {}
    /\ refused = {} /\ spoiled = {}

Handler(c, from, to) == handler[c] = from /\ handler' = [handler EXCEPT ![c] = to]

\* The document as the handlers test it: the empty string is no document.
Missing == board \in {None, <<>>}

\* Redis APPEND creates the key.
Extend(n) ==
    /\ board' = IF board = None THEN <<n>> ELSE Append(board, n)
    /\ appended' = Append(appended, n)

\* What an append can spoil: an INIT has found no document and is about to write
\* an empty one; or the job has uploaded the document.
Hazards ==
    (IF \E c \in Clients : handler[c] = "create" THEN {"overwritten"} ELSE {})
    \cup (IF task \in {"flag", "delete", "done"} \/ blob # None THEN {"revived"} ELSE {})

-----------------------------------------------------------------------------
\* INIT.

\* Mutant of InitGet: an existing document is created again.
InitGetAgain(c) ==
    /\ \/ Handler(c, "closed", "create")
       \/ ~Missing /\ Handler(c, "closed", "open")
    /\ UNCHANGED <<ended, board, follow, piece, offset, task, held, uploaded,
                   blob, hasDoc, faults, sent, appended, acked, refused, spoiled>>

\* Without a document only the mode POSSIBLY_CREATE has an effect: the other two
\* are answered with an error.
InitGet(c) ==
    /\ \/ Missing /\ Handler(c, "closed", "create")
       \/ ~Missing /\ Handler(c, "closed", "open")
    /\ UNCHANGED <<ended, board, follow, piece, offset, task, held, uploaded,
                   blob, hasDoc, faults, sent, appended, acked, refused, spoiled>>

\* createDoc: SET, whatever is there by now.
InitCreate(c) ==
    /\ Handler(c, "create", "first")
    /\ board' = <<>>
    /\ UNCHANGED <<ended, follow, piece, offset, task, held, uploaded, blob,
                   hasDoc, faults, sent, appended, acked, refused, spoiled>>

\* The data of the INIT message, if it has any.
InitData(c) ==
    /\ Handler(c, "first", "open")
    /\ \/ UNCHANGED <<board, sent, appended, spoiled>>
       \/ /\ sent < MaxPieces /\ sent' = sent + 1
          /\ Extend(sent + 1)
          /\ spoiled' = spoiled \cup Hazards
    /\ UNCHANGED <<ended, follow, piece, offset, task, held, uploaded, blob,
                   hasDoc, faults, acked, refused>>

-----------------------------------------------------------------------------
\* APPEND and CONTINUATION.  A client sends the next APPEND when it has the answer
\* to all of the last message.

\* getDocLength agrees with the offset of the message.
AppendLength(c) ==
    /\ follow[c] = "none" /\ board # None
    /\ sent < MaxPieces /\ sent' = sent + 1
    /\ Handler(c, "open", "append")
    /\ piece' = [piece EXCEPT ![c] = <<sent + 1>>]
    /\ offset' = [offset EXCEPT ![c] = Len(board)]
    /\ UNCHANGED <<ended, board, follow, task, held, uploaded, blob, hasDoc,
                   faults, appended, acked, refused, spoiled>>

\* The message has `more`: the client sends its CONTINUATION at once.
SendMore(c) ==
    /\ handler[c] = "append" /\ Len(piece[c]) = 1
    /\ sent < MaxPieces /\ sent' = sent + 1
    /\ follow' = [follow EXCEPT ![c] = "append"]
    /\ piece' = [piece EXCEPT ![c] = Append(@, sent + 1)]
    /\ UNCHANGED <<ended, board, handler, offset, task, held, uploaded, blob,
                   hasDoc, faults, appended, acked, refused, spoiled>>

\* The offset is not the length, and the answer is a NACK; or there is no document,
\* and getDocLength throws.  Of a message with `more` the CONTINUATION comes all the
\* same; without, nothing is changed.
AppendRefused(c) ==
    /\ handler[c] = "open" /\ follow[c] = "none" /\ board # <<>>
    /\ sent + 1 < MaxPieces /\ sent' = sent + 2
    /\ piece' = [piece EXCEPT ![c] = <<sent + 1, sent + 2>>]
    /\ follow' = [follow EXCEPT ![c] = "append"]
    /\ refused' = refused \cup {sent + 1}
    /\ UNCHANGED <<ended, board, handler, offset, task, held, uploaded, blob,
                   hasDoc, faults, appended, acked, spoiled>>

\* appendToDoc throws: of an APPEND, whose CONTINUATION goes on, or of that.
AppendFails(c) ==
    /\ faults < MaxFaults /\ faults' = faults + 1
    /\ \/ /\ Handler(c, "append", "open") /\ UNCHANGED follow
          /\ refused' = refused \cup {piece[c][1]}
       \/ /\ follow[c] = "append" /\ follow' = [follow EXCEPT ![c] = "none"]
          /\ UNCHANGED <<handler, refused>>
    /\ UNCHANGED <<ended, board, piece, offset, task, held, uploaded, blob, hasDoc,
                   sent, appended, acked, spoiled>>

AppendData(c) ==
    /\ Handler(c, "append", IF Len(piece[c]) = 1 THEN "length" ELSE "open")
    /\ Extend(piece[c][1])
    /\ spoiled' = spoiled \cup Hazards \cup
                  (IF board = None \/ Len(board) # offset[c] THEN {"collided"} ELSE {})
    /\ UNCHANGED <<ended, follow, piece, offset, task, held, uploaded, blob,
                   hasDoc, faults, sent, acked, refused>>

\* The handler of the CONTINUATION neither waits for the one of the APPEND nor asks
\* what has become of it.
ContinueData(c) ==
    /\ follow[c] = "append" /\ follow' = [follow EXCEPT ![c] = "length"]
    /\ Extend(piece[c][2])
    /\ spoiled' = spoiled \cup Hazards \cup
                  (IF handler[c] = "append" THEN {"overtaken"} ELSE {})
    /\ UNCHANGED <<ended, handler, piece, offset, task, held, uploaded, blob,
                   hasDoc, faults, sent, acked, refused>>

\* getDocLength again, and the acknowledgement; it throws when the document has
\* been deleted meanwhile.
Ack(c) ==
    /\ \/ follow[c] = "none" /\ Handler(c, "length", "open") /\ UNCHANGED follow
       \/ /\ follow[c] = "length" /\ follow' = [follow EXCEPT ![c] = "none"]
          /\ UNCHANGED handler
    /\ acked' = IF board = None \/ ended THEN acked ELSE acked \cup ToSet(piece[c])
    /\ UNCHANGED <<ended, board, piece, offset, task, held, uploaded, blob, hasDoc,
                   faults, sent, appended, refused, spoiled>>

-----------------------------------------------------------------------------
\* The session ends and the job runs.  No handler asks whether it has ended.

BoardEnd ==
    /\ ~ended /\ ended' = TRUE
    /\ UNCHANGED <<faults, boardVars>>

Task(from, to) == task = from /\ task' = to

TaskGet ==
    /\ ended
    /\ Task("wait", IF Missing THEN "done" ELSE "upload")
    /\ held' = IF Missing THEN <<>> ELSE board
    /\ UNCHANGED <<ended, board, handler, follow, piece, offset, uploaded, blob,
                   hasDoc, faults, sent, appended, acked, refused, spoiled>>

\* Mutant of TaskUpload: a failed upload counts as one.
TaskUploadAnyway ==
    /\ Task("upload", "flag")
    /\ \/ /\ uploaded' = TRUE /\ blob' = held
          /\ UNCHANGED <<faults, spoiled>>
       \/ /\ uploaded' = TRUE
          /\ faults < MaxFaults /\ faults' = faults + 1
          /\ UNCHANGED <<blob, spoiled>>
    /\ UNCHANGED <<ended, board, handler, follow, piece, offset, held, hasDoc,
                   sent, appended, acked, refused>>

\* uploadedToStorage tries twice, and returns false when both have failed.
TaskUpload ==
    /\ Task("upload", "flag")
    /\ \/ /\ uploaded' = TRUE /\ blob' = held
          /\ UNCHANGED <<faults, spoiled>>
       \/ /\ uploaded' = FALSE
          /\ faults < MaxFaults /\ faults' = faults + 1
          /\ spoiled' = spoiled \cup {"not_uploaded"}
          /\ UNCHANGED blob
    /\ UNCHANGED <<ended, board, handler, follow, piece, offset, held, hasDoc,
                   sent, appended, acked, refused>>

TaskFlag ==
    /\ Task("flag", "delete")
    /\ hasDoc' = uploaded
    /\ UNCHANGED <<ended, board, handler, follow, piece, offset, held, uploaded,
                   blob, faults, sent, appended, acked, refused, spoiled>>

\* deleteDoc, also when nothing was uploaded.
TaskDelete ==
    /\ Task("delete", "done")
    /\ board' = None
    /\ UNCHANGED <<ended, handler, follow, piece, offset, held, uploaded, blob,
                   hasDoc, faults, sent, appended, acked, refused, spoiled>>

\* A GET or the UPDATE throws and the job fails, or the DEL does and is logged.
TaskFails ==
    /\ (task \in {"flag", "delete"}) \/ (ended /\ task = "wait")
    /\ faults < MaxFaults /\ faults' = faults + 1
    /\ task' = IF task = "delete" THEN "done" ELSE "failed"
    /\ UNCHANGED <<ended, board, handler, follow, piece, offset, held, uploaded,
                   blob, hasDoc, sent, appended, acked, refused, spoiled>>

\* The worker dies, here or in a later task of the job, and Bull runs it again.
TaskCrash ==
    /\ task \notin {"wait", "failed"}
    /\ faults < MaxFaults /\ faults' = faults + 1
    /\ task' = "wait"
    /\ UNCHANGED <<ended, board, handler, follow, piece, offset, held, uploaded,
                   blob, hasDoc, sent, appended, acked, refused, spoiled>>

TaskStep == TaskGet \/ TaskUpload \/ TaskFlag \/ TaskDelete

BoardNext ==
    \/ \E c \in Clients :
          \/ InitGet(c) \/ InitCreate(c) \/ InitData(c)
          \/ AppendLength(c) \/ SendMore(c) \/ AppendRefused(c) \/ AppendFails(c)
          \/ AppendData(c) \/ ContinueData(c) \/ Ack(c)
    \/ BoardEnd \/ TaskStep \/ TaskFails \/ TaskCrash

BoardSpec == Init /\ [][BoardNext]_wvars

-----------------------------------------------------------------------------
\* Properties.

Pieces == 1..MaxPieces

BoardTypeOK ==
    /\ ended \in BOOLEAN /\ board \in Seq(Pieces) \cup {None}
    /\ handler \in [Clients -> {"closed", "create", "first", "open", "append", "length"}]
    /\ follow \in [Clients -> {"none", "append", "length"}]
    /\ piece \in [Clients -> Seq(Pieces)] /\ offset \in [Clients -> 0..MaxPieces]
    /\ task \in {"wait", "upload", "flag", "delete", "done", "failed"}
    /\ held \in Seq(Pieces) /\ uploaded \in BOOLEAN
    /\ blob \in Seq(Pieces) \cup {None} /\ hasDoc \in BOOLEAN
    /\ faults \in 0..MaxFaults /\ sent \in 0..MaxPieces
    /\ appended \in Seq(Pieces) /\ acked \subseteq Pieces /\ refused \subseteq Pieces
    /\ spoiled \subseteq {"overwritten", "revived", "collided", "overtaken",
                          "not_uploaded"}

\* Until the job deletes it the document is all that was ever appended, in that
\* order: an INIT never clears it, except one that had found it missing before.
\* (After two failed uploads it is deleted all the same.)
BoardIsWhole ==
    task \in {"wait", "upload"} /\ blob = None
    /\ spoiled \cap {"overwritten", "not_uploaded"} = {} =>
        (IF board = None THEN <<>> ELSE board) = appended

\* What a client was told is saved before the session ended is in storage, or
\* still in Redis, when the job is through, and in storage if the session says
\* that it has a document; except when both uploads failed, the job ran again
\* over a document that a late append had brought back, or a CONTINUATION was
\* acknowledged before the APPEND it follows was done.  The acknowledgement of a
\* CONTINUATION says nothing of an APPEND that was refused: that piece is nowhere.
AckedIsStored ==
    task \in {"done", "failed"} /\ spoiled \subseteq {"collided"} =>
        LET saved == acked \ refused IN
        \/ blob # None /\ saved \subseteq ToSet(blob)
        \/ ~hasDoc /\ board # None /\ saved \subseteq ToSet(board)
        \/ saved = {}
=============================================================================
