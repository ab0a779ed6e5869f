--------------------------- MODULE MCNotebookCollab ---------------------------
(***************************************************************************)
(* Two users in one notebook of one cell, each of whom changes it once:    *)
(* anna, who can have a WebSocket, and cleo, who polls. One of a restart,  *)
(* a failed request, a lost socket and a save behind the state's back. The *)
(* cell has an output; an added one has none and is shown with a space.    *)
(***************************************************************************)
EXTENDS NotebookCollab

CONSTANTS anna, cleo, first, added, space, text

MCFirstOrder == <<first>>
MCFirstOutput == [c \in Cell |-> text]
MCMaxEdits == [u \in User |-> 1]
MCDisplayed == [o \in Output |-> IF o = NoOutput THEN space ELSE o]
=============================================================================
