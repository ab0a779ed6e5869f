---------------------------- MODULE NotebookCollab ----------------------------
(***************************************************************************)
(* One project's notebook, edited by several users at once:                *)
(* NotebookCollaborationService (collaboration.py), the routes and the     *)
(* WebSocket handler that call it, and what the browser does with their    *)
(* answers (static/app.js).                                                *)
(*                                                                         *)
(* The server keeps the newest state, a snapshot of every revision and the *)
(* file notebook.json. A request reads the state in one transaction, the   *)
(* base in another, merges, stores in a third and then writes the file;    *)
(* requests of different users interleave between these steps. A browser   *)
(* sends all its cells with the revision it believes they come from.       *)
(*                                                                         *)
(* A cell has a code and an output. Merging compares whole cells, and the  *)
(* output a page sends is the one it shows: that of a run of its own, a    *)
(* notice in a cell its user has edited, something in the place of no      *)
(* output, or the first output it was sent for that cell. So a cell nobody *)
(* touched may count as changed; what holds is about codes.                *)
(*                                                                         *)
(* Titles, languages, inputs and presence are left out.                    *)
(***************************************************************************)
EXTENDS Integers, Sequences

CONSTANTS
  User,        (* users with the right notebook.collaborate, one page each *)
  OnSocket,    (* those whose network lets a WebSocket through             *)
  Cell,
  FirstOrder,  (* the cells of the first notebook.json ...                 *)
  FirstOutput, (* ... and their outputs                                    *)
  Original, Elsewhere, Absent,  (* codes: first, of a plain save, no cell  *)
  Output, NoOutput,  (* outputs, and the empty one                         *)
  Notice,            (* "Zelle geaendert ...", in an edited cell           *)
  RunOutput,         (* what runs print                                    *)
  Displayed,         (* what a page shows, and sends, of a given output    *)
  MaxEdits,    (* bound: changes each user makes                           *)
  MaxRev,      (* bound: revisions                                         *)
  MaxFaults    (* bound: restarts, failures, lost sockets and plain saves  *)

Code == {Original, Elsewhere, Absent} \cup (User \X (Nat \ {0}))
Content == [code: Code, out: Output]
Gone == [code |-> Absent, out |-> NoOutput]
Doc == [order: Seq(Cell), cell: [Cell -> Content]]
State == [rev: 0 .. MaxRev, doc: Doc]

(* No document, which is without a single cell, and no row of the table.   *)
NoDoc == [order |-> <<>>, cell |-> [c \in {} |-> c]]
NoState == [rev |-> -1, doc |-> NoDoc]

(* A terminal shows an empty line as a space, so never nothing at all, and *)
(* shows again what it has shown.                                          *)
ASSUME NotebookAssumption ==
  /\ OnSocket \subseteq User
  /\ Cell # {}
  /\ FirstOrder \in Seq(Cell)
  /\ NoOutput \in Output /\ FirstOutput \in [Cell -> Output]
  /\ RunOutput \subseteq Output \ {NoOutput} /\ Notice \in Output \ {NoOutput}
  /\ Displayed \in [Output -> Output \ {NoOutput}]
  /\ \A o \in Output : Displayed[Displayed[o]] = Displayed[o]
  /\ MaxEdits \in [User -> Nat] /\ MaxRev \in Nat /\ MaxFaults \in Nat
  /\ {Original, Elsewhere, Absent} \cap (User \X Nat) = {}  (* not typed by a user *)

VARIABLES
  state,    (* notebook_collab_state: NoState or the newest revision       *)
  snap,     (* notebook_collab_snapshots: per revision its document        *)
  file,     (* notebook.json                                               *)
  thread,   (* per user: the thread that serves its request                *)
  browser,  (* per user: what its page holds                               *)
  online,   (* users whose page has a socket that is open and registered   *)
  edits,    (* per user: changes it may still make                         *)
  faults,   (* restarts, failures, lost sockets and plain saves so far     *)
  overwritten,  (* history: a store replaced a state it had not read       *)
  alone     (* history: syncs during which nobody else has written         *)

tables == <<state, snap, overwritten>>
vars == <<tables, file, thread, browser, online, edits, faults, alone>>

InOrder(order) == {order[k] : k \in DOMAIN order}

(* The cells of an order that are in `which`, in that order.               *)
Ordered(order, which) ==
  LET ids[k \in 0 .. Len(order)] ==
        IF k = 0 THEN <<>>
        ELSE IF order[k] \in which THEN Append(ids[k - 1], order[k]) ELSE ids[k - 1]
  IN ids[Len(order)]

(* A document with other content in one of its cells.                      *)
Put(doc, c, content) == [doc EXCEPT !.cell = [doc.cell EXCEPT ![c] = content]]

FirstDoc ==
  [order |-> FirstOrder,
   cell |-> [c \in Cell |-> IF c \in InOrder(FirstOrder)
                            THEN [code |-> Original, out |-> FirstOutput[c]] ELSE Gone]]

(* A request, over the `socket` or over HTTP: `sent` are the cells a sync   *)
(* carries, `base` its base_revision, `cur` the current state as it was    *)
(* read, `new` the merged document, `left` who is still to be sent the     *)
(* result. For the properties it remembers `own`, the cells its user has   *)
(* changed, and `mixed`, whether the page was out of step with its         *)
(* revision.                                                               *)
Idle == [at |-> "idle", kind |-> "none", socket |-> FALSE, base |-> 0, sent |-> NoDoc,
         cur |-> NoState, new |-> NoDoc, left |-> {}, own |-> {}, mixed |-> FALSE]
Asking(kind) == [Idle EXCEPT !.at = "read", !.kind = kind]

(* A page: `cells` is what collectCells returns, `kept` what the terminals *)
(* of its cells hold, whatever it is sent later; `dirty` while its sync    *)
(* timer runs; `loop` is "poll" or "socket" once the page has loaded.      *)
(* `touched` are the cells typed, added or deleted since it last took an   *)
(* answer, `lost` whether a sync of its own has failed since then.         *)
Blank == [open |-> FALSE, loop |-> "none", rev |-> 0, cells |-> NoDoc,
          kept |-> [c \in Cell |-> NoOutput], dirty |-> FALSE,
          touched |-> {}, mixed |-> FALSE, lost |-> FALSE]

Init ==
  /\ state = NoState
  /\ snap = [n \in 0 .. MaxRev |-> NoDoc]
  /\ file = FirstDoc
  /\ thread = [u \in User |-> Idle]
  /\ browser = [u \in User |-> Blank]
  /\ online = {}
  /\ edits = MaxEdits
  /\ faults = 0
  /\ overwritten = FALSE
  /\ alone = {}

-----------------------------------------------------------------------------
(* The browser.                                                            *)

(* renderNotebook: a terminal that holds something keeps it, the others    *)
(* take the output they are given.                                         *)
Rendered(b, doc) ==
  LET kept == [c \in Cell |->
                 IF b.kept[c] = NoOutput /\ doc.cell[c].out # NoOutput
                 THEN Displayed[doc.cell[c].out] ELSE b.kept[c]]
      shown == [c \in Cell |->
                  IF doc.cell[c].code = Absent THEN Gone
                  ELSE [code |-> doc.cell[c].code,
                        out |-> IF kept[c] = NoOutput THEN Displayed[NoOutput] ELSE kept[c]]]
  IN [b EXCEPT !.open = TRUE, !.kept = kept,
               !.cells = [order |-> doc.order, cell |-> shown]]

(* selectProject: once it has tried to connect, the page loads the state.  *)
Open(u) ==
  /\ browser[u].loop = "none" /\ thread[u] = Idle
  /\ thread' = [thread EXCEPT ![u] = Asking("load")]
  /\ UNCHANGED <<tables, file, browser, online, edits, faults, alone>>

(* connectProjectSocket, at first or again: what the terminals hold is     *)
(* dropped, though still shown, and the server sends the state to the      *)
(* socket that it has registered. Bound: connecting takes no time.         *)
Connect(u) ==
  /\ u \in OnSocket \ online /\ thread[u] = Idle
  /\ online' = online \cup {u}
  /\ thread' = [thread EXCEPT ![u] = [Asking("load") EXCEPT !.socket = TRUE]]
  /\ LET b == browser[u]
         shown == [c \in Cell |->
                     IF b.cells.cell[c].code = Absent THEN Gone
                     ELSE [code |-> b.cells.cell[c].code, out |-> Displayed[b.cells.cell[c].out]]]
     IN browser' = [browser EXCEPT
          ![u] = [b EXCEPT !.kept = Blank.kept,
                           !.cells = IF b.open THEN [b.cells EXCEPT !.cell = shown] ELSE b.cells]]
  /\ UNCHANGED <<tables, file, edits, faults, alone>>

(* A user changes something, ...                                           *)
Changing(u) == browser[u].open /\ edits[u] > 0 /\ edits' = [edits EXCEPT ![u] = @ - 1]

(* ... which makes its page b.                                             *)
Change(u, b) ==
  /\ Changing(u)
  /\ browser' = [browser EXCEPT ![u] = b]
  /\ UNCHANGED <<tables, file, thread, online, faults, alone>>

(* setCellOutput: the terminal of a cell shows, and keeps, an output.      *)
Showing(b, c, code, out) ==
  [b EXCEPT !.kept = [b.kept EXCEPT ![c] = out],
            !.cells = Put(b.cells, c, [code |-> code, out |-> out])]

(* The user types into a cell: the notice takes the place of its output,   *)
(* and scheduleNotebookSync starts the timer.                              *)
Edit(u, c) ==
  /\ browser[u].open /\ c \in InOrder(browser[u].cells.order)
  /\ Change(u, [Showing(browser[u], c, <<u, edits[u]>>, Notice)
                  EXCEPT !.dirty = TRUE, !.touched = @ \cup {c}])

(* A cell's run prints something. A run over HTTP starts the timer, a live *)
(* one does not. Bound: the cell is still shown.                           *)
RunCell(u, c, out, live) ==
  /\ browser[u].open /\ c \in InOrder(browser[u].cells.order)
  /\ live => u \in online
  /\ Change(u, [Showing(browser[u], c, browser[u].cells.cell[c].code, out)
                  EXCEPT !.dirty = @ \/ ~live])

(* addCell: the page is rendered again from its own cells and a new one,   *)
(* that nobody has seen.                                                   *)
Documents ==
  {state.doc, file} \cup {snap[n] : n \in DOMAIN snap}
    \cup UNION {{browser[u].cells, thread[u].sent, thread[u].cur.doc, thread[u].new} : u \in User}
AddCell(u, c) ==
  /\ browser[u].open
  /\ \A d \in Documents : c \notin InOrder(d.order)
  /\ \A v \in User : browser[v].kept[c] = NoOutput
  /\ LET cells == browser[u].cells
         new == [code |-> <<u, edits[u]>>, out |-> NoOutput]
         more == [Put(cells, c, new) EXCEPT !.order = Append(cells.order, c)]
     IN Change(u, [Rendered(browser[u], more) EXCEPT !.dirty = TRUE, !.touched = @ \cup {c}])

(* syncNotebookNow, of the page b: the timer is cleared as the cells are   *)
(* sent, over the socket if it is open. Bound: one request of a page at a  *)
(* time.                                                                   *)
Sync(u, b) ==
  /\ thread[u] = Idle
  /\ browser' = [browser EXCEPT ![u] = [b EXCEPT !.dirty = FALSE]]
  /\ thread' = [thread EXCEPT
       ![u] = [Asking("sync") EXCEPT !.socket = (u \in online),
                                     !.base = b.rev, !.sent = b.cells,
                                     !.own = b.touched, !.mixed = b.mixed]]
  /\ alone' = alone \cup {u}

(* The timer fires.                                                        *)
Send(u) ==
  /\ browser[u].dirty
  /\ Sync(u, browser[u])
  /\ UNCHANGED <<tables, file, online, edits, faults>>

(* The user deletes a cell: the page is rendered without it and saved at   *)
(* once.                                                                   *)
DeleteCell(u, c) ==
  /\ Changing(u) /\ c \in InOrder(browser[u].cells.order)
  /\ LET cells == browser[u].cells
         fewer == [Put(cells, c, Gone) EXCEPT !.order = Ordered(cells.order, Cell \ {c})]
     IN Sync(u, [Rendered(browser[u], fewer) EXCEPT !.touched = @ \cup {c}])
  /\ UNCHANGED <<tables, file, online, faults>>

(* pollNotebookState; only pages that loaded without a socket poll.        *)
Poll(u) ==
  /\ browser[u].loop = "poll" /\ thread[u] = Idle
  /\ thread' = [thread EXCEPT ![u] = Asking("poll")]
  /\ UNCHANGED <<tables, file, browser, online, edits, faults, alone>>

(* An answer has been taken.                                               *)
Took(b, rev, mixed) ==
  [b EXCEPT !.rev = rev, !.touched = {}, !.mixed = mixed, !.lost = FALSE]

(* Mutant: an answer is rendered and its revision forgotten.               *)
RenderOnlyCells(b, answer, own) == Took(Rendered(b, answer.doc), b.rev, FALSE)

(* An answer is rendered, over unsent changes too, but that of an own sync *)
(* only if it differs from what is shown. `payload.revision ||             *)
(* state.collab.revision` keeps the old revision when the new one is 0.    *)
Render(b, answer, own) ==
  Took(IF own /\ answer.doc = b.cells THEN b ELSE Rendered(b, answer.doc),
       IF answer.rev = 0 THEN b.rev ELSE answer.rev,
       answer.rev = 0 /\ b.rev # 0)

(* The load is rendered, and decides once whether the page will poll.      *)
Load(b, answer, connected) ==
  [Took(Rendered(b, answer.doc), answer.rev, FALSE)
    EXCEPT !.loop = IF connected THEN "socket" ELSE "poll"]

(* Mutant: a poll adopts the revision without the cells.                   *)
AdoptRevisionOnly(b, answer) ==
  IF answer.rev <= b.rev THEN b ELSE [b EXCEPT !.rev = answer.rev]

(* A poll adopts a newer revision; while the sync timer runs it adopts the *)
(* number alone and keeps its cells.                                       *)
Adopt(b, answer) ==
  IF answer.rev <= b.rev THEN b
  ELSE IF b.dirty /\ answer.doc # b.cells
       THEN [b EXCEPT !.rev = answer.rev, !.mixed = TRUE]
  ELSE Took(IF answer.doc = b.cells THEN b ELSE Rendered(b, answer.doc), answer.rev, FALSE)

-----------------------------------------------------------------------------
(* The server.                                                             *)

At(u, place) == thread[u].at = place
Step(u, t) == thread' = [thread EXCEPT ![u] = t]

(* Mutant: every cell the page holds replaces the current one.             *)
MergeTwoWay(base, current, incoming) ==
  LET cell == [c \in Cell |-> IF incoming.cell[c] # Gone THEN incoming.cell[c]
                              ELSE current.cell[c]]
      rest == Ordered(current.order, Cell \ InOrder(incoming.order))
  IN [order |-> incoming.order \o rest, cell |-> cell]

(* _merge_cells: what differs between the incoming cells and their base,   *)
(* in code or output or by being there, replaces the current cell. The     *)
(* order is the incoming one, then that of the current cells it does not   *)
(* know.                                                                   *)
Merge(base, current, incoming) ==
  LET cell == [c \in Cell |-> IF incoming.cell[c] # base.cell[c] THEN incoming.cell[c]
                              ELSE current.cell[c]]
      there == {c \in Cell : cell[c].code # Absent}
      known == Ordered(incoming.order, there)
      rest == Ordered(current.order, there \ InOrder(incoming.order))
  IN [order |-> known \o rest, cell |-> cell]

(* What a request does with the current state. sync takes the snapshot of   *)
(* its base revision as the base, or the current state if there is none,   *)
(* and merges. Snapshots are never changed or deleted, so reading the base *)
(* one transaction later makes no difference.                              *)
WithState(t, s) ==
  LET base == IF snap[t.base] = NoDoc THEN s.doc ELSE snap[t.base]
      merged == Merge(base, s.doc, t.sent)
  IN IF t.kind = "sync"
     THEN [t EXCEPT !.cur = s, !.new = merged,
                    !.at = IF merged = s.doc THEN "save" ELSE "store"]
     ELSE [t EXCEPT !.cur = s, !.at = "answer"]

(* _ensure_state: the row, or else ...                                     *)
ReadState(u) ==
  /\ At(u, "read")
  /\ Step(u, IF state = NoState THEN [thread[u] EXCEPT !.at = "load file"]
             ELSE [WithState(thread[u], state) EXCEPT !.left = {u}])
  /\ UNCHANGED <<tables, file, browser, online, edits, faults, alone>>

(* ... the notebook's file, ...                                            *)
LoadFile(u) ==
  /\ At(u, "load file")
  /\ Step(u, [thread[u] EXCEPT !.at = "create", !.cur = [rev |-> 0, doc |-> file]])
  /\ UNCHANGED <<tables, file, browser, online, edits, faults, alone>>

(* Mutant: no snapshot is kept.                                            *)
StoreWithoutSnapshot(read, s) ==
  /\ state' = s
  /\ UNCHANGED snap
  /\ overwritten' = (overwritten \/ state \notin {read, s})

(* _store_state: the state is replaced whatever it is by now; the snapshot *)
(* of a revision is kept if there is one. One transaction.                 *)
StoreState(read, s) ==
  /\ state' = s
  /\ snap' = IF snap[s.rev] = NoDoc THEN [snap EXCEPT ![s.rev] = s.doc] ELSE snap
  /\ overwritten' = (overwritten \/ state \notin {read, s})

(* ... which becomes revision 0.                                           *)
Create(u) ==
  /\ At(u, "create")
  /\ StoreState(NoState, thread[u].cur)
  /\ Step(u, [WithState(thread[u], thread[u].cur) EXCEPT !.left = {u}])
  /\ alone' = alone \cap {u}
  /\ UNCHANGED <<file, browser, online, edits, faults>>

StoreMerged(u) ==
  /\ At(u, "store")
  /\ thread[u].cur.rev < MaxRev
  /\ LET t == thread[u]
         s == [rev |-> t.cur.rev + 1, doc |-> t.new]
     IN /\ StoreState(t.cur, s)
        /\ Step(u, [t EXCEPT !.at = "save", !.cur = s])
  /\ alone' = alone \cap {u}
  /\ UNCHANGED <<file, browser, online, edits, faults>>

(* Who is sent the result of a sync: over the socket every page registered,*)
(* which may be none, over HTTP the one that asked.                        *)
Answering(u) ==
  IF ~thread[u].socket THEN [thread[u] EXCEPT !.at = "answer", !.left = {u}]
  ELSE IF online = {} THEN Idle
  ELSE [thread[u] EXCEPT !.at = "answer", !.left = online]

(* Mutant: the file gets the cells as the page sent them.                  *)
SaveIncoming(u) ==
  /\ At(u, "save")
  /\ file' = thread[u].sent
  /\ Step(u, Answering(u))
  /\ alone' = alone \cap {u}
  /\ UNCHANGED <<tables, browser, online, edits, faults>>

(* save_notebook writes the file after the state.                          *)
SaveFile(u) ==
  /\ At(u, "save")
  /\ file' = thread[u].cur.doc
  /\ Step(u, Answering(u))
  /\ alone' = alone \cap {u}
  /\ UNCHANGED <<tables, browser, online, edits, faults>>

(* The answer, or the broadcast, reaches one page after the other.         *)
Deliver(u, v) ==
  /\ At(u, "answer") /\ v \in thread[u].left
  /\ LET t == thread[u]
         b == browser[v]
     IN /\ browser' = [browser EXCEPT
             ![v] = IF t.socket /\ v \notin online THEN b
                    ELSE IF t.kind = "poll" THEN Adopt(b, t.cur)
                    ELSE IF t.kind = "load" /\ ~t.socket THEN Load(b, t.cur, v \in online)
                    ELSE Render(b, t.cur, t.kind = "sync" /\ u = v)]
        /\ Step(u, IF t.left = {v} THEN Idle ELSE [t EXCEPT !.left = @ \ {v}])
  /\ UNCHANGED <<tables, file, online, edits, faults, alone>>

Faulty == faults < MaxFaults /\ faults' = faults + 1

(* PUT .../notebook, of a user with files.write but not the right to       *)
(* collaborate: the file is replaced behind the state's back. Bound: one   *)
(* code, and the cells the file has.                                       *)
PlainSave(c) ==
  /\ c \in InOrder(file.order)
  /\ file' = Put(file, c, [code |-> Elsewhere, out |-> file.cell[c].out])
  /\ Faulty
  /\ alone' = {}
  /\ UNCHANGED <<tables, thread, browser, online, edits>>

Losing(b, t) == IF t.kind = "sync" THEN [b EXCEPT !.lost = TRUE] ELSE b

(* What is still to be sent to a page is not, once its socket is gone.     *)
Without(t, u) ==
  IF ~(t.at = "answer" /\ t.socket) THEN t
  ELSE IF t.left \subseteq {u} THEN Idle
  ELSE [t EXCEPT !.left = @ \ {u}]

(* A request fails on its way, in the server (a locked table, a full disk) *)
(* or with its answer. The page tells its user and does no more; a socket  *)
(* that cannot be sent its first state is closed.                          *)
Fail(u) ==
  LET t == thread[u]
      closed == t.kind = "load" /\ t.socket
  IN /\ t # Idle
     /\ t.at = "answer" => closed \/ ~t.socket
     /\ Faulty
     /\ thread' = [v \in User |-> IF v = u THEN Idle
                                  ELSE IF closed THEN Without(thread[v], u) ELSE thread[v]]
     /\ browser' = [browser EXCEPT ![u] = Losing(@, t)]
     /\ online' = IF closed THEN online \ {u} ELSE online
     /\ UNCHANGED <<tables, file, edits, alone>>

(* A page loses its socket; what its thread has begun goes on.             *)
Disconnect(u) ==
  /\ u \in online
  /\ Faulty
  /\ online' = online \ {u}
  /\ thread' = [v \in User |-> Without(thread[v], u)]
  /\ browser' = [browser EXCEPT ![u] = Losing(@, thread[u])]
  /\ UNCHANGED <<tables, file, edits, alone>>

(* The server dies and is started again: tables and file stay, requests    *)
(* and sockets are gone.                                                   *)
Crash ==
  /\ Faulty
  /\ thread' = [u \in User |-> Idle]
  /\ browser' = [u \in User |-> Losing(browser[u], thread[u])]
  /\ online' = {}
  /\ alone' = {}
  /\ UNCHANGED <<tables, file, edits>>

Serve(u) ==
  \/ ReadState(u)
  \/ LoadFile(u)
  \/ Create(u)
  \/ StoreMerged(u)
  \/ SaveFile(u)
  \/ \E v \in User : Deliver(u, v)

Next ==
  \/ \E u \in User : \/ Open(u) \/ Connect(u) \/ Send(u) \/ Poll(u)
                     \/ Serve(u) \/ Fail(u) \/ Disconnect(u)
  \/ \E u \in User, c \in Cell : Edit(u, c) \/ AddCell(u, c) \/ DeleteCell(u, c)
  \/ \E u \in User, c \in Cell, out \in RunOutput, live \in BOOLEAN : RunCell(u, c, out, live)
  \/ \E c \in Cell : PlainSave(c)
  \/ Crash

(* Threads are scheduled, open pages poll, and a sync timer that has been  *)
(* started fires: 650 ms against 4 s between polls, so it finds the moment *)
(* between two requests that the bound of Send makes it wait for.          *)
Fairness == \A u \in User : WF_vars(Serve(u)) /\ SF_vars(Send(u)) /\ WF_vars(Poll(u))

Spec == Init /\ [][Next]_vars /\ Fairness

-----------------------------------------------------------------------------
(* Properties.                                                             *)

Place == {"idle", "read", "load file", "create", "store", "save", "answer"}
Thread == [at: Place, kind: {"none", "load", "poll", "sync"}, socket: BOOLEAN,
           base: 0 .. MaxRev, sent: Doc \cup {NoDoc}, cur: State \cup {NoState},
           new: Doc \cup {NoDoc}, left: SUBSET User, own: SUBSET Cell, mixed: BOOLEAN]
Page == [open: BOOLEAN, loop: {"none", "poll", "socket"}, rev: 0 .. MaxRev,
         cells: Doc \cup {NoDoc}, kept: [Cell -> Output], dirty: BOOLEAN,
         touched: SUBSET Cell, mixed: BOOLEAN, lost: BOOLEAN]

(* Types. Beyond them: a request that is past reading has a state, an open *)
(* page has cells, and a revision the table holds has its snapshot.        *)
TypeOK ==
  /\ state \in State \cup {NoState}
  /\ snap \in [0 .. MaxRev -> Doc \cup {NoDoc}]
  /\ file \in Doc
  /\ thread \in [User -> Thread]
  /\ browser \in [User -> Page]
  /\ online \subseteq OnSocket
  /\ edits \in [User -> Nat]
  /\ faults \in 0 .. MaxFaults
  /\ overwritten \in BOOLEAN
  /\ alone \subseteq User
  /\ state # NoState => snap[state.rev] # NoDoc
  /\ \A u \in User :
       /\ browser[u].open => browser[u].cells # NoDoc
       /\ browser[u].dirty => browser[u].open
       /\ thread[u].at \in {"create", "store", "save", "answer"} =>
            thread[u].cur # NoState
       /\ thread[u].at \in {"store", "save"} => thread[u].kind = "sync"
       /\ thread[u].kind = "sync" => thread[u].sent # NoDoc
       /\ thread[u].at = "store" => thread[u].new # NoDoc

(* Revisions identify codes: as long as no store has replaced a state that *)
(* its thread had not read, the cells whose code a page shows and has not  *)
(* changed itself are, with that code, those of the snapshot that the      *)
(* server will take as the base of the page's next sync, whatever requests *)
(* have failed. The exceptions are pages that took a revision number       *)
(* without its cells, or cells without their number. Outputs are not those *)
(* of the snapshot: a page shows its own.                                  *)
BasesAreTrue ==
  \A u \in User :
    (~overwritten /\ browser[u].open /\ ~browser[u].mixed) =>
      LET b == browser[u] IN
      /\ snap[b.rev] # NoDoc
      /\ \A c \in Cell \ b.touched : b.cells.cell[c].code = snap[b.rev].cell[c].code

(* A sync changes what its user changed: storing a merge leaves a cell     *)
(* that the user has not touched as it is in the newest state, edited,     *)
(* added or deleted by whomever, however old the base was, if the page     *)
(* also showed the output that this base has. (With another output the     *)
(* page replaces the whole cell, and takes a newer code back.) This is     *)
(* what the three-way merge is for; it needs that the merge is stored on   *)
(* the state it was made for, and that the page was in step.               *)
SyncsKeepOthersEdits ==
  [][\A u \in User :
       LET t == thread[u] IN
       (At(u, "store") /\ thread'[u].at = "save" /\ ~t.mixed /\ ~overwritten' /\ state = t.cur)
       => \A c \in Cell \ t.own :
            t.sent.cell[c].out = snap[t.base].cell[c].out =>
              state'.doc.cell[c] = state.doc.cell[c]]_vars

(* A sync during which nobody else wrote is complete: when it is answered, *)
(* table, file and answer agree, and they contain every change its user    *)
(* made to a page in step with its revision: each cell typed or added, and *)
(* not a cell deleted, unless its adding had been lost by the page.        *)
SoloSyncIsExact ==
  \A u \in alone :
    LET t == thread[u] IN
    (At(u, "answer") /\ t.kind = "sync") =>
      /\ state = t.cur
      /\ file = state.doc
      /\ (~overwritten /\ ~t.mixed) =>
           \A c \in t.own :
             t.sent.cell[c].code # Absent \/ snap[t.base].cell[c].code # Absent =>
               state.doc.cell[c].code = t.sent.cell[c].code

(* Once the edits cease, every page that polls shows the server's cells,   *)
(* with their codes and in their order, and goes on showing them, unless   *)
(* two stores of one revision have crossed. A page whose last sync has     *)
(* failed keeps what it did not get rid of, for nothing sends it again:    *)
(* the cells its user had not touched are the server's even so, unless it  *)
(* had taken a number without its cells.                                   *)
PollersConverge ==
  <>[](\/ overwritten
       \/ \A u \in User :
            browser[u].loop = "poll" =>
              LET b == browser[u]
                  differ == {c \in Cell : b.cells.cell[c].code # state.doc.cell[c].code}
              IN \/ differ = {} /\ b.cells.order = state.doc.order
                 \/ b.lost /\ (b.mixed \/ differ \subseteq b.touched))
=============================================================================
