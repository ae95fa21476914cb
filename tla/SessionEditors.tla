--------------------------- MODULE SessionEditors ---------------------------
(***************************************************************************)
(* A session has one editor, chosen by the toolType of its subject, and    *)
(* its post-session job stores the document of that one.                   *)
(*                                                                         *)
(* Code: processSessionEditors in src/server/services/SessionService.ts.   *)
(***************************************************************************)
EXTENDS QuillUpdates

CONSTANTS
    Clients,        \* web sockets of the whiteboard
    MaxPieces       \* bound on the pieces of a whiteboard document

VARIABLES tool, board, handler, follow, piece, offset, task, held, uploaded,
          blob, hasDoc, sent, appended, acked, refused, spoiled

WB == INSTANCE Whiteboard

ASSUME BoardConstantsOK == WB!BoardConstants

ownBoardVars == <<board, handler, follow, piece, offset, task, held, uploaded, blob,
                  hasDoc, sent, appended, acked, refused, spoiled>>
ownDocVars == <<doc, queue, lock, stored, opened, locals, pushed, atEnd, harmed, vars2>>
editorVars == <<tool, vars, vars2, ownBoardVars>>

EditorsInit ==
    /\ tool \in {"documenteditor", "whiteboard"}
    /\ DocInit /\ WB!Init
    /\ tool = "whiteboard" => version = 1 /\ ~worksheet

EditorsNext ==
    \/ tool = "documenteditor" /\ DocNext /\ UNCHANGED <<tool, ownBoardVars>>
    \/ tool = "whiteboard" /\ WB!BoardNext /\ UNCHANGED <<tool, ownDocVars>>

EditorsSpec == EditorsInit /\ [][EditorsNext]_editorVars

\* processSessionEditors dispatches on the tool.
ProcessSessionEditors ==
    \/ tool = "documenteditor" /\ DocJobStep /\ UNCHANGED <<tool, ownBoardVars>>
    \/ tool = "whiteboard" /\ WB!TaskStep /\ UNCHANGED <<tool, ownDocVars>>

EditorsFairSpec ==
    /\ EditorsSpec
    /\ \A p \in Sockets : WF_editorVars(Handles(p) /\ UNCHANGED <<tool, ownBoardVars>>)
    /\ \A b \in Bots : WF_editorVars(BotHandles(b) /\ UNCHANGED <<tool, ownBoardVars>>)
    /\ WF_editorVars(ProcessSessionEditors)
    /\ WF_editorVars(Expire /\ UNCHANGED <<tool, vars2, ownBoardVars>>)

-----------------------------------------------------------------------------
\* Properties.

\* Every variable of the three documents has its type.
EditorsTypeOK == DocTypeOK /\ WB!BoardTypeOK

\* The whiteboard's two properties, explained in Whiteboard.
BoardIsWhole  == WB!BoardIsWhole
AckedIsStored == WB!AckedIsStored

\* Whichever editor the session uses, its job gets through, although the lock is
\* leaked or somebody else holds it.
EditorsEventuallyStored ==
    ended ~> \/ tool = "documenteditor" /\ at2[Job] \in {"done", "failed"}
             \/ tool = "whiteboard" /\ task \in {"done", "failed"}
=============================================================================
