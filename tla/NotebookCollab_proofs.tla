------------------------- MODULE NotebookCollab_proofs -------------------------
(***************************************************************************)
(* Proofs about NotebookCollab, for any users, cells, outputs and bounds.  *)
(*                                                                         *)
(* Types first: everything that is merged, stored, saved or shown is a     *)
(* document. For that, collecting cells from an order gives an order, which*)
(* is an induction over the order.                                         *)
(*                                                                         *)
(* Then, as long as no store has replaced a state that its thread had not  *)
(* read, a revision identifies the codes on every page (Agreement), and a  *)
(* sync leaves what its user has not touched. The argument: the snapshot of*)
(* the newest revision is the state and no later revision has one, so a    *)
(* store fills an empty snapshot or finds its own; a snapshot that is there*)
(* never changes; what a thread has read or stored is what the snapshot of *)
(* its revision holds, and what a page shows has the codes of it.          *)
(*                                                                         *)
(* Last, a sync during which nobody else wrote is complete (Solo).         *)
(***************************************************************************)
EXTENDS NotebookCollab, SequenceTheorems, WellFoundedInduction, TLAPS

-----------------------------------------------------------------------------
(* Orders of cells.                                                        *)

LEMMA LeastNumber ==
    ASSUME NEW S, S \subseteq Nat, S # {}
    PROVE  \E n \in S : \A k \in S : n <= k
  <1>1. IsWellFoundedOn(OpToRel(<, Nat), Nat)
    BY NatLessThanWellFounded
  <1>2. PICK n \in S : \A k \in S : ~(<<k, n>> \in OpToRel(<, Nat))
    BY <1>1, WFMin
  <1>3. \A k \in S : k \in Nat
    OBVIOUS
  <1>4. \A k \in S : ~(k < n)
    BY <1>2, <1>3 DEF OpToRel
  <1>5. \A k \in S : n <= k
    BY <1>3, <1>4
  <1> QED BY <1>2, <1>5

\* Induction, for a set in the place of a predicate.
LEMMA Induction ==
    ASSUME NEW S, 0 \in S, \A n \in Nat : n \in S => n + 1 \in S
    PROVE  Nat \subseteq S
  <1> SUFFICES ASSUME Nat \ S # {} PROVE FALSE
    OBVIOUS
  <1>1. PICK n \in Nat \ S : \A k \in Nat \ S : n <= k
    BY LeastNumber
  <1>2. n # 0 /\ n - 1 \in Nat
    BY <1>1
  <1>3. n - 1 \in S
    BY <1>1, <1>2
  <1> QED BY <1>1, <1>2, <1>3

\* ids holds what is collected of the first cells of an order.
Collects(ids, order, which, m) ==
  ids = [k \in 0 .. m |->
           IF k = 0 THEN <<>>
           ELSE IF order[k] \in which THEN Append(ids[k - 1], order[k]) ELSE ids[k - 1]]

LEMMA CollectionExists ==
    ASSUME NEW order, NEW which, NEW m \in Nat
    PROVE  \E ids : Collects(ids, order, which, m)
  <1> DEFINE S == {n \in Nat : \E ids : Collects(ids, order, which, n)}
  <1>1. 0 \in S
    <2>1. PICK ids : ids = [k \in 0 .. 0 |-> <<>>]
      OBVIOUS
    <2>2. Collects(ids, order, which, 0)
      BY <2>1 DEF Collects
    <2> QED BY <2>2
  <1>2. ASSUME NEW n \in Nat, n \in S PROVE n + 1 \in S
    <2>1. PICK ids : Collects(ids, order, which, n)
      BY <1>2
    <2>2. PICK last : last = IF order[n + 1] \in which THEN Append(ids[n], order[n + 1]) ELSE ids[n]
      OBVIOUS
    <2>3. PICK more : more = [k \in 0 .. n + 1 |-> IF k = n + 1 THEN last ELSE ids[k]]
      OBVIOUS
    <2>4. ASSUME NEW k \in 0 .. n + 1
          PROVE  more[k] = IF k = 0 THEN <<>>
                           ELSE IF order[k] \in which THEN Append(more[k - 1], order[k])
                           ELSE more[k - 1]
      <3>1. CASE k = n + 1
        <4>1. more[k] = last /\ more[k - 1] = ids[n]
          BY <2>3, <3>1
        <4> QED BY <2>2, <3>1, <4>1
      <3>2. CASE k \in 0 .. n
        <4>1. more[k] = ids[k] /\ (k # 0 => more[k - 1] = ids[k - 1])
          BY <2>3, <3>2
        <4>2. ids[k] = IF k = 0 THEN <<>>
                       ELSE IF order[k] \in which THEN Append(ids[k - 1], order[k])
                       ELSE ids[k - 1]
          BY <2>1, <3>2 DEF Collects
        <4> QED BY <4>1, <4>2
      <3> QED BY <3>1, <3>2
    <2>5. more = [k \in 0 .. n + 1 |-> more[k]]
      BY <2>3
    <2>6. Collects(more, order, which, n + 1)
      BY <2>4, <2>5 DEF Collects
    <2> QED BY <2>6
  <1> HIDE DEF S
  <1>3. m \in S
    BY <1>1, <1>2, Induction
  <1> QED BY <1>3 DEF S

LEMMA OrderedCollects ==
    ASSUME NEW order \in Seq(Cell), NEW which
    PROVE  \E ids : Collects(ids, order, which, Len(order)) /\ Ordered(order, which) = ids[Len(order)]
  <1> DEFINE ids[k \in 0 .. Len(order)] ==
               IF k = 0 THEN <<>>
               ELSE IF order[k] \in which THEN Append(ids[k - 1], order[k]) ELSE ids[k - 1]
  <1>1. Ordered(order, which) = ids[Len(order)]
    BY DEF Ordered
  <1>2. \E f : f = [k \in 0 .. Len(order) |->
                    IF k = 0 THEN <<>>
                    ELSE IF order[k] \in which THEN Append(f[k - 1], order[k]) ELSE f[k - 1]]
    <2> Len(order) \in Nat
      OBVIOUS
    <2>1. \E f : Collects(f, order, which, Len(order))
      BY CollectionExists
    <2> QED BY <2>1 DEF Collects
  <1>3. ids = [k \in 0 .. Len(order) |->
                IF k = 0 THEN <<>>
                ELSE IF order[k] \in which THEN Append(ids[k - 1], order[k]) ELSE ids[k - 1]]
    BY <1>2
  <1> HIDE DEF ids
  <1> QED BY <1>1, <1>3 DEF Collects

LEMMA OrderedIsAnOrder ==
    ASSUME NEW order \in Seq(Cell), NEW which
    PROVE  Ordered(order, which) \in Seq(Cell)
  <1>1. PICK m \in Nat : m = Len(order) /\ \A k \in 1 .. m : order[k] \in Cell
    OBVIOUS
  <1>2. PICK ids : Collects(ids, order, which, m) /\ Ordered(order, which) = ids[m]
    BY <1>1, OrderedCollects
  <1>3. ids[0] = <<>>
    BY <1>1, <1>2 DEF Collects
  <1>4. ASSUME NEW k \in 1 .. m
        PROVE  ids[k] = IF order[k] \in which THEN Append(ids[k - 1], order[k]) ELSE ids[k - 1]
    <2>1. k \in 0 .. m /\ k # 0
      BY <1>1
    <2>2. ids = [j \in 0 .. m |->
                  IF j = 0 THEN <<>>
                  ELSE IF order[j] \in which THEN Append(ids[j - 1], order[j]) ELSE ids[j - 1]]
      BY <1>2 DEF Collects
    <2> QED BY <2>1, <2>2, Zenon
  <1> DEFINE S == {n \in Nat : n <= m => ids[n] \in Seq(Cell)}
  <1>5. 0 \in S
    <2> <<>> \in Seq(Cell)
      OBVIOUS
    <2> QED BY <1>3
  <1>6. ASSUME NEW n \in Nat, n \in S PROVE n + 1 \in S
    <2> SUFFICES ASSUME n + 1 <= m PROVE ids[n + 1] \in Seq(Cell)
      OBVIOUS
    <2>1. n + 1 \in 1 .. m /\ (n + 1) - 1 = n /\ order[n + 1] \in Cell
      BY <1>1
    <2>2. ids[n] \in Seq(Cell)
      BY <1>1, <1>6
    <2>3. Append(ids[n], order[n + 1]) \in Seq(Cell)
      BY <2>1, <2>2
    <2>4. ids[n + 1] \in {Append(ids[n], order[n + 1]), ids[n]}
      BY <1>4, <2>1
    <2> QED BY <2>2, <2>3, <2>4
  <1>7. m \in S
    <2> HIDE DEF S
    <2> QED BY <1>1, <1>5, <1>6, Induction
  <1> QED BY <1>2, <1>7

-----------------------------------------------------------------------------
(* Types.                                                                  *)

LEMMA GoneIsContent == Gone \in Content /\ Gone.code = Absent
  BY NotebookAssumption DEF Gone, Content, Code

LEMMA PutIsTyped ==
    ASSUME NEW d \in Doc, NEW c \in Cell, NEW x \in Content
    PROVE  /\ Put(d, c, x) \in Doc /\ Put(d, c, x).order = d.order
           /\ Put(d, c, x).cell = [d.cell EXCEPT ![c] = x]
  <1>1. PICK cell : cell = [d.cell EXCEPT ![c] = x]
    OBVIOUS
  <1>2. cell \in [Cell -> Content]
    BY <1>1 DEF Doc
  <1>3. PICK r : r = [d EXCEPT !.cell = cell]
    OBVIOUS
  <1>4. r \in Doc /\ r.order = d.order /\ r.cell = cell
    BY <1>2, <1>3 DEF Doc
  <1>5. Put(d, c, x) = r
    BY <1>1, <1>3 DEF Put
  <1> QED BY <1>1, <1>4, <1>5

LEMMA OrderIsTyped ==
    ASSUME NEW d \in Doc, NEW order \in Seq(Cell)
    PROVE  /\ [d EXCEPT !.order = order] \in Doc
           /\ [d EXCEPT !.order = order].cell = d.cell
  BY DEF Doc

\* In m, the incoming cells that differ from the base have replaced the current.
Replaces(base, current, incoming, m) ==
  \A c \in Cell :
    m.cell[c] = IF incoming.cell[c] # base.cell[c] THEN incoming.cell[c] ELSE current.cell[c]

LEMMA MergeTyped ==
    ASSUME NEW base, NEW current \in Doc, NEW incoming \in Doc
    PROVE  /\ Merge(base, current, incoming) \in Doc
           /\ Replaces(base, current, incoming, Merge(base, current, incoming))
  <1> PICK cell : cell = [c \in Cell |-> IF incoming.cell[c] # base.cell[c] THEN incoming.cell[c]
                                         ELSE current.cell[c]]
    OBVIOUS
  <1> PICK there : there = {c \in Cell : cell[c].code # Absent}
    OBVIOUS
  <1> PICK known : known = Ordered(incoming.order, there)
    OBVIOUS
  <1> PICK rest : rest = Ordered(current.order, there \ InOrder(incoming.order))
    OBVIOUS
  <1>1. cell \in [Cell -> Content]
    BY DEF Doc
  <1>2. known \in Seq(Cell) /\ rest \in Seq(Cell)
    BY OrderedIsAnOrder DEF Doc
  <1>3. known \o rest \in Seq(Cell)
    BY <1>2
  <1>4. Merge(base, current, incoming) = [order |-> known \o rest, cell |-> cell]
    BY DEF Merge
  <1>5. PICK m : m = [order |-> known \o rest, cell |-> cell]
    OBVIOUS
  <1>6. m \in Doc /\ m.cell = cell
    BY <1>1, <1>3, <1>5 DEF Doc
  <1>7. Replaces(base, current, incoming, m)
    BY <1>1, <1>6 DEF Replaces
  <1> QED BY <1>4, <1>5, <1>6, <1>7

\* A request and a page of the right type, with what TypeOK adds to the type.
TypedThread(t) ==
  /\ t \in Thread
  /\ t.at \in {"create", "store", "save", "answer"} => t.cur # NoState
  /\ t.at \in {"store", "save"} => t.kind = "sync"
  /\ t.kind = "sync" => t.sent # NoDoc
  /\ t.at = "store" => t.new # NoDoc

TypedPage(b) == b \in Page /\ (b.open => b.cells # NoDoc) /\ (b.dirty => b.open)

TypedTables ==
  /\ state \in State \cup {NoState}
  /\ snap \in [0 .. MaxRev -> Doc \cup {NoDoc}]
  /\ overwritten \in BOOLEAN
  /\ state # NoState => snap[state.rev] # NoDoc

TypedThreads == thread \in [User -> Thread] /\ \A u \in User : TypedThread(thread[u])
TypedPages == browser \in [User -> Page] /\ \A u \in User : TypedPage(browser[u])
TypedRest ==
  /\ file \in Doc
  /\ online \subseteq OnSocket
  /\ edits \in [User -> Nat]
  /\ faults \in 0 .. MaxFaults
  /\ alone \subseteq User

LEMMA TypeParts == TypeOK <=> TypedTables /\ TypedThreads /\ TypedPages /\ TypedRest
  BY DEF TypeOK, TypedTables, TypedThreads, TypedPages, TypedRest, TypedThread, TypedPage

LEMMA DocsAreSomething ==
    ASSUME NEW d \in Doc
    PROVE  d # NoDoc
  <1>1. DOMAIN d.cell = Cell
    BY DEF Doc
  <1>2. DOMAIN NoDoc.cell = {}
    BY DEF NoDoc
  <1> QED BY <1>1, <1>2, NotebookAssumption

LEMMA StatesAreSomething ==
    ASSUME NEW s \in State
    PROVE  s # NoState /\ s.rev \in 0 .. MaxRev /\ s.doc \in Doc
  <1>1. s.rev \in 0 .. MaxRev /\ s.doc \in Doc
    BY DEF State
  <1>2. s.rev # -1
    BY <1>1, NotebookAssumption
  <1> QED BY <1>1, <1>2 DEF NoState

LEMMA OneTypedThread ==
    ASSUME TypedThreads, NEW u \in User, NEW t, TypedThread(t),
           thread' = [thread EXCEPT ![u] = t]
    PROVE  TypedThreads'
  <1>1. t \in Thread
    BY DEF TypedThread
  <1>2. thread' \in [User -> Thread]
    BY <1>1 DEF TypedThreads
  <1>3. ASSUME NEW v \in User PROVE TypedThread(thread'[v])
    BY <1>3 DEF TypedThreads
  <1> QED BY <1>2, <1>3 DEF TypedThreads, TypedThread

LEMMA OneTypedPage ==
    ASSUME TypedPages, NEW u \in User, NEW b, TypedPage(b),
           browser' = [browser EXCEPT ![u] = b]
    PROVE  TypedPages'
  <1>1. b \in Page
    BY DEF TypedPage
  <1>2. browser' \in [User -> Page]
    BY <1>1 DEF TypedPages
  <1>3. ASSUME NEW v \in User PROVE TypedPage(browser'[v])
    BY <1>3 DEF TypedPages
  <1> QED BY <1>2, <1>3 DEF TypedPages, TypedPage

LEMMA Places == {"idle", "read", "create", "store", "save", "answer"} \subseteq Place
  BY Zenon DEF Place

LEMMA IdleIsTyped == TypedThread(Idle)
  <1>1. 0 \in 0 .. MaxRev
    BY NotebookAssumption
  <1> QED BY <1>1, Places DEF TypedThread, Thread, Idle

LEMMA AskingInType ==
    ASSUME NEW kind \in {"load", "poll", "sync"}
    PROVE  Asking(kind) \in Thread /\ Asking(kind).at = "read" /\ Asking(kind).kind = kind
  <1>1. PICK i : i = Idle
    OBVIOUS
  <1>2. i \in Thread
    BY <1>1, IdleIsTyped DEF TypedThread
  <1>3. PICK r : r = [i EXCEPT !.at = "read", !.kind = kind]
    OBVIOUS
  <1>4. r \in Thread /\ r.at = "read" /\ r.kind = kind
    BY <1>2, <1>3, Places DEF Thread
  <1> QED BY <1>1, <1>3, <1>4 DEF Asking

LEMMA AskingIsTyped ==
    ASSUME NEW kind \in {"load", "poll"}
    PROVE  TypedThread(Asking(kind))
  BY AskingInType DEF TypedThread

LEMMA WithStateIsTyped ==
    ASSUME NEW t, TypedThread(t), NEW s \in State, NEW u \in User
    PROVE  TypedThread([WithState(t, s) EXCEPT !.left = {u}])
  <1> PICK base : base = IF snap[t.base] = NoDoc THEN s.doc ELSE snap[t.base]
    OBVIOUS
  <1> PICK merged : merged = Merge(base, s.doc, t.sent)
    OBVIOUS
  <1>1. s # NoState /\ s.doc \in Doc
    BY StatesAreSomething
  <1>2. t \in Thread
    BY DEF TypedThread
  <1>3. CASE t.kind = "sync"
    <2>1. t.sent \in Doc
      BY <1>2, <1>3 DEF TypedThread, Thread
    <2>2. merged \in Doc /\ merged # NoDoc
      BY <1>1, <2>1, MergeTyped, DocsAreSomething
    <2> PICK place : place = IF merged = s.doc THEN "save" ELSE "store"
      OBVIOUS
    <2>3. WithState(t, s) = [t EXCEPT !.cur = s, !.new = merged, !.at = place]
      BY <1>3 DEF WithState
    <2> HIDE DEF Merge
    <2>4. place \in {"save", "store"}
      OBVIOUS
    <2>5. PICK r : r = [[t EXCEPT !.cur = s, !.new = merged, !.at = place] EXCEPT !.left = {u}]
      OBVIOUS
    <2>6. r = [WithState(t, s) EXCEPT !.left = {u}]
      BY <2>3, <2>5
    <2>7. r \in Thread
      BY <1>2, <2>2, <2>4, <2>5, Places DEF Thread
    <2>8. r.cur = s /\ r.new = merged /\ r.at = place /\ r.kind = t.kind /\ r.sent = t.sent
      BY <1>2, <2>5 DEF Thread
    <2> QED BY <1>1, <1>3, <2>2, <2>6, <2>7, <2>8 DEF TypedThread
  <1>4. CASE t.kind # "sync"
    <2>1. WithState(t, s) = [t EXCEPT !.cur = s, !.at = "answer"]
      BY <1>4 DEF WithState
    <2>2. PICK r : r = [[t EXCEPT !.cur = s, !.at = "answer"] EXCEPT !.left = {u}]
      OBVIOUS
    <2>3. r = [WithState(t, s) EXCEPT !.left = {u}]
      BY <2>1, <2>2
    <2>4. r \in Thread
      BY <1>2, <2>2, Places DEF Thread
    <2>5. r.cur = s /\ r.at = "answer" /\ r.kind = t.kind
      BY <1>2, <2>2 DEF Thread
    <2> QED BY <1>1, <1>4, <2>3, <2>4, <2>5 DEF TypedThread
  <1> QED BY <1>3, <1>4

LEMMA StoreIsTyped ==
    ASSUME TypedTables, NEW s \in State, NEW read, StoreState(read, s)
    PROVE  TypedTables'
  <1>1. s # NoState /\ s.rev \in 0 .. MaxRev /\ s.doc \in Doc /\ s.doc # NoDoc
    BY StatesAreSomething, DocsAreSomething
  <1>2. state' \in State /\ state' = s /\ overwritten' \in BOOLEAN
    BY DEF StoreState, TypedTables
  <1>3. snap' \in [0 .. MaxRev -> Doc \cup {NoDoc}] /\ snap'[s.rev] # NoDoc
    <2>1. CASE snap[s.rev] = NoDoc
      <3>1. snap' = [snap EXCEPT ![s.rev] = s.doc]
        BY <2>1 DEF StoreState
      <3> QED BY <1>1, <3>1 DEF TypedTables
    <2>2. CASE snap[s.rev] # NoDoc
      <3>1. snap' = snap
        BY <2>2 DEF StoreState
      <3> QED BY <2>2, <3>1 DEF TypedTables
    <2> QED BY <2>1, <2>2
  <1> QED BY <1>2, <1>3 DEF TypedTables

\* What renderNotebook makes of a page and a document.
LEMMA RenderedPage ==
    ASSUME NEW b \in Page, NEW d \in Doc
    PROVE  /\ Rendered(b, d) \in Page /\ Rendered(b, d).cells \in Doc
           /\ Rendered(b, d).open = TRUE /\ Rendered(b, d).rev = b.rev
           /\ Rendered(b, d).dirty = b.dirty /\ Rendered(b, d).touched = b.touched
           /\ Rendered(b, d).mixed = b.mixed
           /\ \A c \in Cell : Rendered(b, d).cells.cell[c].code = d.cell[c].code
  <1>1. PICK kept : kept = [c \in Cell |-> IF b.kept[c] = NoOutput /\ d.cell[c].out # NoOutput
                                           THEN Displayed[d.cell[c].out] ELSE b.kept[c]]
    OBVIOUS
  <1>2. PICK shown : shown = [c \in Cell |->
              IF d.cell[c].code = Absent THEN Gone
              ELSE [code |-> d.cell[c].code,
                    out |-> IF kept[c] = NoOutput THEN Displayed[NoOutput] ELSE kept[c]]]
    OBVIOUS
  <1>3. PICK cells : cells = [order |-> d.order, cell |-> shown]
    OBVIOUS
  <1>4. PICK r : r = [b EXCEPT !.open = TRUE, !.kept = kept, !.cells = cells]
    OBVIOUS
  <1>5. Rendered(b, d) = r
    BY <1>1, <1>2, <1>3, <1>4 DEF Rendered
  <1>6. d.order \in Seq(Cell) /\ d.cell \in [Cell -> [code: Code, out: Output]]
    BY DEF Doc, Content
  <1>7. kept \in [Cell -> Output]
    <2>1. b.kept \in [Cell -> Output] /\ \A o \in Output : Displayed[o] \in Output
      BY NotebookAssumption DEF Page
    <2> QED BY <1>1, <1>6, <2>1
  <1>8. \A c \in Cell : shown[c] \in Content /\ shown[c].code = d.cell[c].code
    <2> SUFFICES ASSUME NEW c \in Cell
                 PROVE  shown[c] \in Content /\ shown[c].code = d.cell[c].code
      OBVIOUS
    <2>1. CASE d.cell[c].code = Absent
      BY <1>2, <2>1, GoneIsContent
    <2>2. CASE d.cell[c].code # Absent
      <3>1. PICK out : out = IF kept[c] = NoOutput THEN Displayed[NoOutput] ELSE kept[c]
        OBVIOUS
      <3>2. out \in Output
        BY <1>7, <3>1, NotebookAssumption
      <3>3. shown[c] = [code |-> d.cell[c].code, out |-> out]
        BY <1>2, <2>2, <3>1
      <3> QED BY <1>6, <3>2, <3>3 DEF Content
    <2> QED BY <2>1, <2>2
  <1>9. cells \in Doc
    <2>1. shown \in [Cell -> Content]
      BY <1>2, <1>8
    <2> QED BY <1>3, <1>6, <2>1 DEF Doc
  <1>10. r \in Page /\ r.cells = cells
    BY <1>4, <1>7, <1>9 DEF Page
  <1>11. /\ r.open = TRUE /\ r.rev = b.rev /\ r.dirty = b.dirty /\ r.touched = b.touched
         /\ r.mixed = b.mixed
    BY <1>4 DEF Page
  <1>12. \A c \in Cell : r.cells.cell[c].code = d.cell[c].code
    BY <1>3, <1>8, <1>10
  <1> QED BY <1>5, <1>9, <1>10, <1>11, <1>12

\* A page n shows the code x in one cell, and otherwise the codes of b.
Recodes(b, n, c, x) ==
  /\ n.cells.cell[c].code = x
  /\ \A d \in Cell : d # c => n.cells.cell[d].code = b.cells.cell[d].code

\* ... setCellOutput of a page that is open.
LEMMA ShowingPage ==
    ASSUME NEW b \in Page, b.cells \in Doc, NEW c \in Cell, NEW code \in Code, NEW out \in Output
    PROVE  /\ Showing(b, c, code, out) \in Page /\ Showing(b, c, code, out).cells \in Doc
           /\ Showing(b, c, code, out).open = b.open
           /\ Showing(b, c, code, out).rev = b.rev
           /\ Showing(b, c, code, out).dirty = b.dirty
           /\ Showing(b, c, code, out).touched = b.touched
           /\ Showing(b, c, code, out).mixed = b.mixed
           /\ Recodes(b, Showing(b, c, code, out), c, code)
  <1>1. PICK x : x = [code |-> code, out |-> out]
    OBVIOUS
  <1>2. x \in Content /\ x.code = code
    BY <1>1 DEF Content
  <1>3. PICK cells : cells = Put(b.cells, c, x)
    OBVIOUS
  <1>4. cells \in Doc /\ cells.cell = [b.cells.cell EXCEPT ![c] = x]
    BY <1>2, <1>3, PutIsTyped
  <1>5. /\ cells.cell[c] = x
        /\ \A d \in Cell : d # c => cells.cell[d] = b.cells.cell[d]
    BY <1>4 DEF Doc
  <1>6. PICK kept : kept = [b.kept EXCEPT ![c] = out]
    OBVIOUS
  <1>7. kept \in [Cell -> Output]
    BY <1>6 DEF Page
  <1>8. PICK s : s = [b EXCEPT !.kept = kept, !.cells = cells]
    OBVIOUS
  <1>9. Showing(b, c, code, out) = s
    BY <1>1, <1>3, <1>6, <1>8 DEF Showing
  <1>10. s \in Page /\ s.cells = cells
    BY <1>4, <1>7, <1>8 DEF Page
  <1>11. /\ s.open = b.open /\ s.rev = b.rev /\ s.dirty = b.dirty /\ s.touched = b.touched
         /\ s.mixed = b.mixed
    BY <1>8 DEF Page
  <1>12. Recodes(b, s, c, code)
    BY <1>2, <1>5, <1>10 DEF Recodes
  <1> QED BY <1>4, <1>9, <1>10, <1>11, <1>12

\* What a page makes of an answer: nothing, or it takes the number alone, or
\* it shows the codes of the answer, under its number if it is in step.
Takes(b, n, s) ==
  \/ n = b
  \/ n.mixed /\ n.open = b.open /\ n.touched = b.touched /\ n.cells = b.cells
  \/ /\ n.touched = {}
     /\ ~n.mixed => n.rev = s.rev
     /\ \A c \in Cell : n.cells.cell[c].code = s.doc.cell[c].code

LEMMA TookPage ==
    ASSUME NEW b \in Page, NEW rev \in 0 .. MaxRev, NEW mixed \in BOOLEAN
    PROVE  LET t == Took(b, rev, mixed) IN
           /\ t \in Page /\ t.open = b.open /\ t.dirty = b.dirty /\ t.cells = b.cells
           /\ t.rev = rev /\ t.mixed = mixed /\ t.touched = {}
  BY DEF Took, Page

LEMMA RenderTakes ==
    ASSUME NEW b, TypedPage(b), NEW s \in State, NEW own \in BOOLEAN
    PROVE  TypedPage(Render(b, s, own)) /\ Takes(b, Render(b, s, own), s)
  <1>1. b \in Page /\ s.rev \in 0 .. MaxRev /\ s.doc \in Doc /\ s.doc # NoDoc
    BY StatesAreSomething, DocsAreSomething DEF TypedPage
  <1>2. PICK r : r = IF own /\ s.doc = b.cells THEN b ELSE Rendered(b, s.doc)
    OBVIOUS
  <1>3. /\ r \in Page /\ r.cells \in Doc /\ (r.dirty => r.open)
        /\ \A c \in Cell : r.cells.cell[c].code = s.doc.cell[c].code
    BY <1>1, <1>2, RenderedPage DEF TypedPage
  <1>4. PICK rev, mixed : /\ rev = IF s.rev = 0 THEN b.rev ELSE s.rev
                          /\ mixed = (s.rev = 0 /\ b.rev # 0)
    OBVIOUS
  <1>5. rev \in 0 .. MaxRev /\ mixed \in BOOLEAN /\ (~mixed => rev = s.rev)
    BY <1>1, <1>4 DEF Page
  <1>6. PICK n : n = Took(r, rev, mixed)
    OBVIOUS
  <1>7. /\ n \in Page /\ n.cells = r.cells /\ n.rev = rev /\ n.mixed = mixed /\ n.touched = {}
        /\ n.open = r.open /\ n.dirty = r.dirty
    BY <1>3, <1>5, <1>6, TookPage
  <1>8. n = Render(b, s, own)
    BY <1>2, <1>4, <1>6 DEF Render
  <1>9. TypedPage(n)
    BY <1>3, <1>7, DocsAreSomething DEF TypedPage
  <1>10. Takes(b, n, s)
    BY <1>3, <1>5, <1>7 DEF Takes
  <1> QED BY <1>8, <1>9, <1>10

LEMMA LoadTakes ==
    ASSUME NEW b, TypedPage(b), NEW s \in State, NEW connected \in BOOLEAN
    PROVE  TypedPage(Load(b, s, connected)) /\ Takes(b, Load(b, s, connected), s)
  <1>1. b \in Page /\ s.rev \in 0 .. MaxRev /\ s.doc \in Doc
    BY StatesAreSomething DEF TypedPage
  <1>2. PICK r : r = Rendered(b, s.doc)
    OBVIOUS
  <1>3. /\ r \in Page /\ r.cells \in Doc /\ (r.dirty => r.open)
        /\ \A c \in Cell : r.cells.cell[c].code = s.doc.cell[c].code
    BY <1>1, <1>2, RenderedPage DEF TypedPage
  <1>4. PICK t : t = Took(r, s.rev, FALSE)
    OBVIOUS
  <1>5. /\ t \in Page /\ t.cells = r.cells /\ t.rev = s.rev /\ t.mixed = FALSE
        /\ t.touched = {} /\ t.open = r.open /\ t.dirty = r.dirty
    BY <1>1, <1>3, <1>4, TookPage
  <1>6. PICK loop : loop = IF connected THEN "socket" ELSE "poll"
    OBVIOUS
  <1>7. PICK n : n = [t EXCEPT !.loop = loop]
    OBVIOUS
  <1>8. n = Load(b, s, connected)
    BY <1>2, <1>4, <1>6, <1>7 DEF Load
  <1>9. /\ n \in Page /\ n.cells = r.cells /\ n.rev = s.rev /\ n.mixed = FALSE
        /\ n.touched = {} /\ n.open = t.open /\ n.dirty = t.dirty
    BY <1>5, <1>6, <1>7 DEF Page
  <1>10. TypedPage(n)
    BY <1>3, <1>5, <1>9, DocsAreSomething DEF TypedPage
  <1>11. Takes(b, n, s)
    BY <1>3, <1>9 DEF Takes
  <1> QED BY <1>8, <1>10, <1>11

LEMMA AdoptTakes ==
    ASSUME NEW b, TypedPage(b), NEW s \in State
    PROVE  TypedPage(Adopt(b, s)) /\ Takes(b, Adopt(b, s), s)
  <1>1. b \in Page /\ s.rev \in 0 .. MaxRev /\ s.doc \in Doc
    BY StatesAreSomething DEF TypedPage
  <1>2. PICK r : r = IF s.doc = b.cells THEN b ELSE Rendered(b, s.doc)
    OBVIOUS
  <1>3. /\ r \in Page /\ r.cells \in Doc /\ (r.dirty => r.open)
        /\ \A c \in Cell : r.cells.cell[c].code = s.doc.cell[c].code
    BY <1>1, <1>2, RenderedPage DEF TypedPage
  <1>4. PICK n : n = Took(r, s.rev, FALSE)
    OBVIOUS
  <1>5. /\ n \in Page /\ n.cells = r.cells /\ n.rev = s.rev /\ n.mixed = FALSE
        /\ n.touched = {} /\ n.open = r.open /\ n.dirty = r.dirty
    BY <1>1, <1>3, <1>4, TookPage
  <1>6. TypedPage(n) /\ Takes(b, n, s)
    BY <1>3, <1>5, DocsAreSomething DEF TypedPage, Takes
  <1>7. PICK m : m = [b EXCEPT !.rev = s.rev, !.mixed = TRUE]
    OBVIOUS
  <1>8. /\ m \in Page /\ m.open = b.open /\ m.dirty = b.dirty /\ m.cells = b.cells
        /\ m.touched = b.touched /\ m.mixed
    BY <1>1, <1>7 DEF Page
  <1>9. TypedPage(m) /\ Takes(b, m, s)
    BY <1>8 DEF TypedPage, Takes
  <1>10. Adopt(b, s) \in {b, m, n}
    BY <1>2, <1>4, <1>7 DEF Adopt
  <1>11. Takes(b, b, s)
    BY DEF Takes
  <1> QED BY <1>6, <1>9, <1>10, <1>11

\* A page keeps its codes, or gets another code in one cell.
Keeps(b, n) ==
  /\ n.open = b.open /\ n.rev = b.rev /\ n.mixed = b.mixed /\ n.touched = b.touched
  /\ b.open => \A c \in Cell : n.cells.cell[c].code = b.cells.cell[c].code
Alters(b, n, c, x) ==
  /\ n.open /\ n.rev = b.rev /\ n.mixed = b.mixed /\ n.touched = b.touched \cup {c}
  /\ Recodes(b, n, c, x)

LEMMA OpenPages ==
    ASSUME NEW b, TypedPage(b), b.open
    PROVE  b \in Page /\ b.cells \in Doc
  BY DEF TypedPage, Page

\* Edit: a page in whose cell something is typed.
LEMMA EditedPage ==
    ASSUME NEW b, TypedPage(b), b.open, NEW c \in Cell, NEW x \in Code, NEW s, NEW n,
           s = Showing(b, c, x, Notice),
           n = [s EXCEPT !.dirty = TRUE, !.touched = s.touched \cup {c}]
    PROVE  TypedPage(n) /\ Alters(b, n, c, x)
  <1>1. b \in Page /\ b.cells \in Doc /\ Notice \in Output
    BY OpenPages, NotebookAssumption
  <1>3. /\ s \in Page /\ s.cells \in Doc
        /\ s.open = b.open /\ s.rev = b.rev /\ s.touched = b.touched /\ s.mixed = b.mixed
        /\ Recodes(b, s, c, x)
    BY <1>1, ShowingPage
  <1>5. /\ n \in Page /\ n.cells = s.cells /\ n.open = s.open /\ n.rev = s.rev
        /\ n.mixed = s.mixed /\ n.touched = s.touched \cup {c}
    BY <1>3 DEF Page
  <1>6. TypedPage(n)
    BY <1>3, <1>5, DocsAreSomething DEF TypedPage
  <1>7. Alters(b, n, c, x)
    BY <1>3, <1>5 DEF Alters, Recodes
  <1> QED BY <1>6, <1>7

\* RunCell: a page that shows what a run has printed.
LEMMA PrintedPage ==
    ASSUME NEW b, TypedPage(b), b.open, NEW c \in Cell, NEW out \in RunOutput,
           NEW dirty \in BOOLEAN, NEW x, x = b.cells.cell[c].code, NEW s, NEW n,
           s = Showing(b, c, x, out), n = [s EXCEPT !.dirty = dirty]
    PROVE  TypedPage(n) /\ Keeps(b, n)
  <1>1. b \in Page /\ b.cells \in Doc /\ out \in Output
    BY OpenPages, NotebookAssumption
  <1>3. x \in Code
    BY <1>1 DEF Doc, Content
  <1>5. /\ s \in Page /\ s.cells \in Doc
        /\ s.open = b.open /\ s.rev = b.rev /\ s.touched = b.touched /\ s.mixed = b.mixed
        /\ Recodes(b, s, c, x)
    BY <1>1, <1>3, ShowingPage
  <1>8. /\ n \in Page /\ n.cells = s.cells /\ n.open = s.open /\ n.rev = s.rev
        /\ n.mixed = s.mixed /\ n.touched = s.touched
    BY <1>5 DEF Page
  <1>9. TypedPage(n)
    BY <1>5, <1>8, DocsAreSomething DEF TypedPage
  <1>10. Keeps(b, n)
    BY <1>5, <1>8 DEF Keeps, Recodes
  <1> QED BY <1>9, <1>10

\* AddCell and DeleteCell: a page rendered from its own cells, one changed.
LEMMA ReorderedPage ==
    ASSUME NEW b, TypedPage(b), b.open, NEW c \in Cell, NEW x \in Content,
           NEW order \in Seq(Cell), NEW dirty \in BOOLEAN, NEW r, NEW n,
           r = Rendered(b, [Put(b.cells, c, x) EXCEPT !.order = order]),
           n = [r EXCEPT !.dirty = dirty, !.touched = r.touched \cup {c}]
    PROVE  TypedPage(n) /\ Alters(b, n, c, x.code) /\ n.dirty = dirty
  <1>1. b \in Page /\ b.cells \in Doc
    BY OpenPages
  <1>2. PICK p : p = Put(b.cells, c, x)
    OBVIOUS
  <1>3. p \in Doc /\ p.cell = [b.cells.cell EXCEPT ![c] = x]
    BY <1>1, <1>2, PutIsTyped
  <1>4. PICK d : d = [p EXCEPT !.order = order]
    OBVIOUS
  <1>5. d \in Doc /\ d.cell = p.cell
    BY <1>3, <1>4, OrderIsTyped
  <1>6. d.cell[c] = x /\ \A e \in Cell : e # c => d.cell[e] = b.cells.cell[e]
    BY <1>1, <1>3, <1>5 DEF Doc
  <1>7. /\ r \in Page /\ r.cells \in Doc /\ r.open /\ r.rev = b.rev
        /\ r.touched = b.touched /\ r.mixed = b.mixed
        /\ \A e \in Cell : r.cells.cell[e].code = d.cell[e].code
    BY <1>1, <1>2, <1>4, <1>5, RenderedPage
  <1>8. /\ n \in Page /\ n.cells = r.cells /\ n.open = r.open /\ n.rev = r.rev
        /\ n.mixed = r.mixed /\ n.touched = r.touched \cup {c} /\ n.dirty = dirty
    BY <1>7 DEF Page
  <1>9. TypedPage(n)
    BY <1>7, <1>8, DocsAreSomething DEF TypedPage
  <1>10. Alters(b, n, c, x.code)
    BY <1>6, <1>7, <1>8 DEF Alters, Recodes
  <1> QED BY <1>8, <1>9, <1>10

\* Losing: a page whose request has failed.
LEMMA LosingPage ==
    ASSUME NEW b, TypedPage(b), NEW t
    PROVE  TypedPage(Losing(b, t)) /\ Keeps(b, Losing(b, t))
  <1>1. PICK n : n = [b EXCEPT !.lost = TRUE]
    OBVIOUS
  <1>2. /\ n \in Page /\ n.open = b.open /\ n.dirty = b.dirty /\ n.cells = b.cells
        /\ n.rev = b.rev /\ n.mixed = b.mixed /\ n.touched = b.touched
    BY <1>1 DEF TypedPage, Page
  <1>3. TypedPage(n) /\ Keeps(b, n) /\ Keeps(b, b)
    BY <1>2 DEF TypedPage, Keeps
  <1> QED BY <1>1, <1>3 DEF Losing

-----------------------------------------------------------------------------
(* What the steps of browsers, and failures, do to requests and pages.     *)

\* A request has ended or just begun, or only the pages it is still to be sent
\* to have changed, or it is a sync of the page b.
Plain(n) == n.kind # "sync" /\ n.at \in {"idle", "read"} /\ n.own = {}
Continues(t, n) ==
  /\ n.at = t.at /\ n.kind = t.kind /\ n.base = t.base /\ n.sent = t.sent
  /\ n.cur = t.cur /\ n.new = t.new /\ n.own = t.own /\ n.mixed = t.mixed
Goes(t, n) == Plain(n) \/ Continues(t, n)
Sends(b, n) ==
  /\ b.open /\ n.at = "read" /\ n.kind = "sync"
  /\ n.base = b.rev /\ n.sent = b.cells /\ n.own = b.touched /\ n.mixed = b.mixed

\* A page keeps its codes, loses a cell, or gets a code its user types.
Changes(u, b, n) ==
  \/ Keeps(b, n)
  \/ b.open /\ \E c \in Cell : Alters(b, n, c, Absent)
  \/ b.open /\ edits'[u] < edits[u] /\ \E c \in Cell : Alters(b, n, c, <<u, edits[u]>>)

BrowserMoves(u, t, n) ==
  /\ UNCHANGED <<tables, file, faults>>
  /\ online' \subseteq OnSocket
  /\ edits' \in [User -> Nat] /\ \A w \in User : edits'[w] <= edits[w]
  /\ thread' = [thread EXCEPT ![u] = t] /\ browser' = [browser EXCEPT ![u] = n]
  /\ TypedThread(t) /\ (Goes(thread[u], t) \/ Sends(n, t))
  /\ TypedPage(n) /\ Changes(u, browser[u], n)
  /\ alone' = alone \/ (alone' = alone \cup {u} /\ t.at = "read")
BrowserStep(u) == \E t, n : BrowserMoves(u, t, n)

FaultStep ==
  /\ UNCHANGED <<tables, file, edits>>
  /\ online' \subseteq OnSocket /\ faults' \in 0 .. MaxFaults
  /\ alone' = alone \/ alone' = {}
  /\ thread' = [v \in User |-> thread'[v]] /\ browser' = [v \in User |-> browser'[v]]
  /\ \A v \in User : /\ TypedThread(thread'[v]) /\ Goes(thread[v], thread'[v])
                     /\ TypedPage(browser'[v]) /\ Keeps(browser[v], browser'[v])

LEMMA IdleGoes == TypedThread(Idle) /\ Plain(Idle)
  BY IdleIsTyped DEF Plain, Idle

LEMMA AskingGoes ==
    ASSUME NEW kind \in {"load", "poll"}
    PROVE  TypedThread(Asking(kind)) /\ Plain(Asking(kind))
  BY AskingIsTyped DEF Plain, Asking, Idle

LEMMA ConnectedGoes ==
    ASSUME NEW n, n = [Asking("load") EXCEPT !.socket = TRUE]
    PROVE  TypedThread(n) /\ Plain(n)
  <1>1. PICK ask : ask = Asking("load")
    OBVIOUS
  <1>2. ask \in Thread /\ ask.at = "read" /\ ask.kind = "load" /\ ask.own = {}
    BY <1>1, AskingInType, AskingGoes DEF Plain
  <1>3. n = [ask EXCEPT !.socket = TRUE]
    BY <1>1
  <1>4. n \in Thread /\ n.at = "read" /\ n.kind = "load" /\ n.own = {}
    BY <1>2, <1>3 DEF Thread
  <1> QED BY <1>4 DEF TypedThread, Plain

LEMMA LeftGoes ==
    ASSUME NEW t, TypedThread(t), NEW left \in SUBSET User, NEW n, n = [t EXCEPT !.left = left]
    PROVE  TypedThread(n) /\ Continues(t, n)
  <1>1. /\ n \in Thread /\ n.at = t.at /\ n.kind = t.kind /\ n.base = t.base /\ n.sent = t.sent
        /\ n.cur = t.cur /\ n.new = t.new /\ n.own = t.own /\ n.mixed = t.mixed
    BY DEF TypedThread, Thread
  <1> QED BY <1>1 DEF TypedThread, Continues

LEMMA WithoutGoes ==
    ASSUME NEW t, TypedThread(t), NEW u \in User
    PROVE  TypedThread(Without(t, u)) /\ Goes(t, Without(t, u))
  <1>1. PICK left : left = t.left \ {u}
    OBVIOUS
  <1>2. PICK n : n = [t EXCEPT !.left = left]
    OBVIOUS
  <1>3. left \in SUBSET User
    BY <1>1 DEF TypedThread, Thread
  <1>4. TypedThread(n) /\ Continues(t, n) /\ Continues(t, t)
    BY <1>2, <1>3, LeftGoes DEF Continues
  <1>5. Without(t, u) \in {t, Idle, n}
    BY <1>1, <1>2 DEF Without
  <1> QED BY <1>4, <1>5, IdleGoes DEF Goes

\* A sync of a page: it is sent as it is.
LEMMA SyncGoes ==
    ASSUME TypeOK, NEW u \in User, NEW b, TypedPage(b), b.open, NEW n, n = [b EXCEPT !.dirty = FALSE],
           NEW t, t = [Asking("sync") EXCEPT !.socket = (u \in online),
                                             !.base = b.rev, !.sent = b.cells,
                                             !.own = b.touched, !.mixed = b.mixed]
    PROVE  /\ TypedPage(n) /\ Keeps(b, n) /\ n.cells = b.cells
           /\ TypedThread(t) /\ Sends(n, t)
  <1>1. b \in Page /\ b.cells \in Doc
    BY OpenPages
  <1>2. /\ n \in Page /\ n.cells = b.cells /\ n.open = b.open /\ n.rev = b.rev
        /\ n.mixed = b.mixed /\ n.touched = b.touched
    BY <1>1 DEF Page
  <1>3. TypedPage(n) /\ Keeps(b, n)
    BY <1>1, <1>2, DocsAreSomething DEF TypedPage, Keeps
  <1>4. PICK ask, socket : ask = Asking("sync") /\ socket = (u \in online)
    OBVIOUS
  <1>5. ask \in Thread /\ ask.at = "read" /\ ask.kind = "sync" /\ socket \in BOOLEAN
    BY <1>4, AskingInType
  <1>6. t = [ask EXCEPT !.socket = socket, !.base = b.rev, !.sent = b.cells,
                        !.own = b.touched, !.mixed = b.mixed]
    BY <1>4
  <1>7. /\ t \in Thread /\ t.at = "read" /\ t.kind = "sync" /\ t.sent = b.cells
        /\ t.base = b.rev /\ t.own = b.touched /\ t.mixed = b.mixed
    BY <1>1, <1>5, <1>6 DEF Thread, Page
  <1>8. TypedThread(t)
    BY <1>1, <1>7, DocsAreSomething DEF TypedThread
  <1>9. Sends(n, t)
    BY <1>2, <1>7 DEF Sends
  <1> QED BY <1>2, <1>3, <1>8, <1>9

LEMMA Parts ==
    ASSUME TypeOK, NEW u \in User
    PROVE  /\ TypedThread(thread[u]) /\ TypedPage(browser[u])
           /\ thread = [thread EXCEPT ![u] = thread[u]]
           /\ browser = [browser EXCEPT ![u] = browser[u]]
           /\ Continues(thread[u], thread[u]) /\ Keeps(browser[u], browser[u])
           /\ edits \in [User -> Nat] /\ online \subseteq OnSocket /\ OnSocket \subseteq User
           /\ thread \in [User -> Thread] /\ browser \in [User -> Page]
  <1>1. /\ TypedThread(thread[u]) /\ TypedPage(browser[u])
        /\ thread \in [User -> Thread] /\ browser \in [User -> Page]
    BY TypeParts DEF TypedThreads, TypedPages
  <1>2. Continues(thread[u], thread[u]) /\ Keeps(browser[u], browser[u])
    BY DEF Continues, Keeps
  <1>3. edits \in [User -> Nat] /\ online \subseteq OnSocket /\ OnSocket \subseteq User
    BY NotebookAssumption DEF TypeOK
  <1>4. /\ thread = [thread EXCEPT ![u] = thread[u]]
        /\ browser = [browser EXCEPT ![u] = browser[u]]
    BY <1>1
  <1> QED BY <1>1, <1>2, <1>3, <1>4

LEMMA Unedited ==
    ASSUME TypeOK, edits' = edits
    PROVE  edits' \in [User -> Nat] /\ \A w \in User : edits'[w] <= edits[w]
  BY DEF TypeOK

LEMMA Edited ==
    ASSUME TypeOK, NEW u \in User, Changing(u)
    PROVE  /\ edits' \in [User -> Nat] /\ \A w \in User : edits'[w] <= edits[w]
           /\ edits'[u] < edits[u]
           /\ <<u, edits[u]>> \in Code
  <1>1. edits \in [User -> Nat] /\ edits[u] > 0 /\ edits' = [edits EXCEPT ![u] = edits[u] - 1]
    BY DEF TypeOK, Changing
  <1>2. edits[u] \in Nat \ {0}
    BY <1>1
  <1>3. edits[u] - 1 \in Nat /\ edits[u] - 1 < edits[u]
    BY <1>2
  <1>4. edits' \in [User -> Nat] /\ edits'[u] = edits[u] - 1
    BY <1>1, <1>3
  <1>5. \A w \in User : edits'[w] <= edits[w]
    BY <1>1, <1>3
  <1>6. <<u, edits[u]>> \in Code
    BY <1>2 DEF Code
  <1> QED BY <1>3, <1>4, <1>5, <1>6

\* A request that is no sync begins.
LEMMA AskingSteps ==
    ASSUME TypeOK, NEW u \in User, Open(u) \/ Poll(u)
    PROVE  BrowserStep(u)
  <1>1. PICK kind \in {"load", "poll"} : thread' = [thread EXCEPT ![u] = Asking(kind)]
    BY DEF Open, Poll
  <1>2. UNCHANGED <<tables, file, browser, online, edits, faults, alone>>
    BY DEF Open, Poll
  <1>3. TypedThread(Asking(kind)) /\ Goes(thread[u], Asking(kind))
    BY AskingGoes DEF Goes
  <1>4. browser' = [browser EXCEPT ![u] = browser[u]] /\ Changes(u, browser[u], browser[u])
    BY <1>2, Parts DEF Changes
  <1>5. /\ online' \subseteq OnSocket /\ TypedPage(browser[u])
        /\ edits' \in [User -> Nat] /\ \A w \in User : edits'[w] <= edits[w]
    BY <1>2, Parts, Unedited
  <1>6. BrowserMoves(u, Asking(kind), browser[u])
    BY <1>1, <1>2, <1>3, <1>4, <1>5 DEF BrowserMoves
  <1> QED BY <1>6 DEF BrowserStep

LEMMA ConnectSteps ==
    ASSUME TypeOK, NEW u \in User, Connect(u)
    PROVE  BrowserStep(u)
  <1>1. PICK t : t = [Asking("load") EXCEPT !.socket = TRUE]
    OBVIOUS
  <1>2. PICK b : b = browser[u]
    OBVIOUS
  <1>3. PICK shown : shown = [c \in Cell |->
            IF b.cells.cell[c].code = Absent THEN Gone
            ELSE [code |-> b.cells.cell[c].code, out |-> Displayed[b.cells.cell[c].out]]]
    OBVIOUS
  <1>4. PICK none, cells : /\ none = [c \in Cell |-> NoOutput]
                           /\ cells = IF b.open THEN [b.cells EXCEPT !.cell = shown] ELSE b.cells
    OBVIOUS
  <1>5. PICK n : n = [b EXCEPT !.kept = none, !.cells = cells]
    OBVIOUS
  <1>6. /\ u \in OnSocket /\ online' = online \cup {u}
        /\ thread' = [thread EXCEPT ![u] = t]
        /\ UNCHANGED <<tables, file, edits, faults, alone>>
    BY <1>1 DEF Connect
  <1>7. browser' = [browser EXCEPT ![u] = n]
    <2>1. Blank.kept = none
      BY <1>4 DEF Blank
    <2> QED BY <1>2, <1>3, <1>4, <1>5, <2>1 DEF Connect
  <1>8. none \in [Cell -> Output]
    BY <1>4, NotebookAssumption
  <1>9. b \in Page /\ TypedPage(b)
    BY <1>2, Parts DEF TypedPage
  <1>10. ASSUME b.open PROVE TypedPage(n) /\ Keeps(b, n)
    <2>1. b.cells \in Doc /\ b.cells.cell \in [Cell -> [code: Code, out: Output]]
      BY <1>9, <1>10, OpenPages DEF Doc, Content
    <2>2. \A c \in Cell : shown[c] \in Content /\ shown[c].code = b.cells.cell[c].code
      <3> SUFFICES ASSUME NEW c \in Cell
                   PROVE  shown[c] \in Content /\ shown[c].code = b.cells.cell[c].code
        OBVIOUS
      <3>1. CASE b.cells.cell[c].code = Absent
        BY <1>3, <3>1, GoneIsContent
      <3>2. CASE b.cells.cell[c].code # Absent
        <4>1. PICK out : out = Displayed[b.cells.cell[c].out]
          OBVIOUS
        <4>2. out \in Output
          BY <2>1, <4>1, NotebookAssumption
        <4>3. shown[c] = [code |-> b.cells.cell[c].code, out |-> out]
          BY <1>3, <3>2, <4>1
        <4> QED BY <2>1, <4>2, <4>3 DEF Content
      <3> QED BY <3>1, <3>2
    <2>3. shown \in [Cell -> Content]
      BY <1>3, <2>2
    <2>4. cells \in Doc /\ cells.cell = shown
      BY <1>4, <1>10, <2>1, <2>3 DEF Doc
    <2>5. /\ n \in Page /\ n.cells = cells /\ n.open = b.open /\ n.rev = b.rev /\ n.dirty = b.dirty
          /\ n.mixed = b.mixed /\ n.touched = b.touched
      BY <1>5, <1>8, <1>9, <2>4 DEF Page
    <2> QED BY <1>10, <2>2, <2>4, <2>5, DocsAreSomething DEF TypedPage, Keeps
  <1>11. ASSUME ~b.open PROVE TypedPage(n) /\ Keeps(b, n)
    <2>1. cells = b.cells
      BY <1>4, <1>11
    <2>2. /\ n \in Page /\ n.cells = b.cells /\ n.open = b.open /\ n.dirty = b.dirty
          /\ n.rev = b.rev /\ n.mixed = b.mixed /\ n.touched = b.touched
      BY <1>5, <1>8, <1>9, <2>1 DEF Page
    <2> QED BY <1>9, <1>11, <2>2 DEF TypedPage, Keeps
  <1>12. TypedPage(n) /\ Changes(u, b, n)
    BY <1>10, <1>11 DEF Changes
  <1>13. TypedThread(t) /\ Goes(thread[u], t)
    BY <1>1, ConnectedGoes DEF Goes
  <1>14. online' \subseteq OnSocket
    BY <1>6, Parts
  <1>15. edits' \in [User -> Nat] /\ \A w \in User : edits'[w] <= edits[w]
    BY <1>6, Unedited
  <1>16. BrowserMoves(u, t, n)
    BY <1>2, <1>6, <1>7, <1>12, <1>13, <1>14, <1>15 DEF BrowserMoves
  <1> QED BY <1>16 DEF BrowserStep

LEMMA ChangeSteps ==
    ASSUME TypeOK, NEW u \in User, NEW n, Change(u, n), TypedPage(n),
           \/ Keeps(browser[u], n)
           \/ \E c \in Cell : Alters(browser[u], n, c, <<u, edits[u]>>)
    PROVE  BrowserStep(u)
  <1>1. /\ Changing(u) /\ browser[u].open /\ browser' = [browser EXCEPT ![u] = n]
        /\ UNCHANGED <<tables, file, thread, online, faults, alone>>
    BY DEF Change, Changing
  <1>2. Changes(u, browser[u], n)
    BY <1>1, Edited DEF Changes
  <1>3. thread' = [thread EXCEPT ![u] = thread[u]] /\ Goes(thread[u], thread[u])
    BY <1>1, Parts DEF Goes
  <1>4. /\ online' \subseteq OnSocket /\ TypedThread(thread[u])
        /\ edits' \in [User -> Nat] /\ \A w \in User : edits'[w] <= edits[w]
    BY <1>1, Parts, Edited
  <1>5. UNCHANGED <<tables, file, faults>> /\ alone' = alone
    BY <1>1
  <1>6. BrowserMoves(u, thread[u], n)
    BY <1>1, <1>2, <1>3, <1>4, <1>5 DEF BrowserMoves
  <1> QED BY <1>6 DEF BrowserStep

LEMMA EditSteps ==
    ASSUME TypeOK, NEW u \in User, NEW c \in Cell, Edit(u, c)
    PROVE  BrowserStep(u)
  <1>1. PICK b, x : b = browser[u] /\ x = <<u, edits[u]>>
    OBVIOUS
  <1>2. PICK s : s = Showing(b, c, x, Notice)
    OBVIOUS
  <1>3. PICK n : n = [s EXCEPT !.dirty = TRUE, !.touched = s.touched \cup {c}]
    OBVIOUS
  <1>4. Change(u, n) /\ b.open
    BY <1>1, <1>2, <1>3 DEF Edit
  <1>5. TypedPage(b) /\ x \in Code
    BY <1>1, <1>4, Parts, Edited DEF Change
  <1>6. TypedPage(n) /\ Alters(b, n, c, x)
    BY <1>2, <1>3, <1>4, <1>5, EditedPage
  <1> QED BY <1>1, <1>4, <1>6, ChangeSteps

LEMMA RunCellSteps ==
    ASSUME TypeOK, NEW u \in User, NEW c \in Cell, NEW out \in RunOutput, NEW live \in BOOLEAN,
           RunCell(u, c, out, live)
    PROVE  BrowserStep(u)
  <1>1. PICK b : b = browser[u]
    OBVIOUS
  <1>2. PICK x : x = b.cells.cell[c].code
    OBVIOUS
  <1>3. PICK s : s = Showing(b, c, x, out)
    OBVIOUS
  <1>4. PICK dirty : dirty = (s.dirty \/ ~live)
    OBVIOUS
  <1>5. PICK n : n = [s EXCEPT !.dirty = dirty]
    OBVIOUS
  <1>6. Change(u, n) /\ b.open
    BY <1>1, <1>2, <1>3, <1>4, <1>5 DEF RunCell
  <1>7. TypedPage(b) /\ dirty \in BOOLEAN
    BY <1>1, <1>4, Parts
  <1>8. TypedPage(n) /\ Keeps(b, n)
    BY <1>2, <1>3, <1>5, <1>6, <1>7, PrintedPage
  <1> QED BY <1>1, <1>6, <1>8, ChangeSteps

LEMMA AddCellSteps ==
    ASSUME TypeOK, NEW u \in User, NEW c \in Cell, AddCell(u, c)
    PROVE  BrowserStep(u)
  <1>1. PICK b, x : b = browser[u] /\ x = [code |-> <<u, edits[u]>>, out |-> NoOutput]
    OBVIOUS
  <1>2. PICK order : order = Append(b.cells.order, c)
    OBVIOUS
  <1>3. PICK r : r = Rendered(b, [Put(b.cells, c, x) EXCEPT !.order = order])
    OBVIOUS
  <1>4. PICK n : n = [r EXCEPT !.dirty = TRUE, !.touched = r.touched \cup {c}]
    OBVIOUS
  <1>5. Change(u, n) /\ b.open
    BY <1>1, <1>2, <1>3, <1>4 DEF AddCell
  <1>6. TypedPage(b) /\ <<u, edits[u]>> \in Code /\ NoOutput \in Output
    BY <1>1, <1>5, Parts, Edited, NotebookAssumption DEF Change
  <1>7. b.cells.order \in Seq(Cell)
    BY <1>5, <1>6, OpenPages DEF Doc
  <1>8. order \in Seq(Cell) /\ x \in Content /\ x.code = <<u, edits[u]>>
    BY <1>1, <1>2, <1>6, <1>7 DEF Content
  <1>9. TypedPage(n) /\ Alters(b, n, c, x.code)
    BY <1>3, <1>4, <1>5, <1>6, <1>8, ReorderedPage
  <1> QED BY <1>1, <1>5, <1>8, <1>9, ChangeSteps

\* Syncs: that of the timer, and that of a page that has lost a cell.
LEMMA SyncSteps ==
    ASSUME TypeOK, NEW u \in User, NEW b, Sync(u, b), TypedPage(b), b.open,
           \/ b = browser[u]
           \/ browser[u].open /\ \E c \in Cell : Alters(browser[u], b, c, Absent),
           UNCHANGED <<tables, file, online, faults>>,
           edits' \in [User -> Nat], \A w \in User : edits'[w] <= edits[w]
    PROVE  BrowserStep(u)
  <1>1. PICK n : n = [b EXCEPT !.dirty = FALSE]
    OBVIOUS
  <1>2. PICK t : t = [Asking("sync") EXCEPT !.socket = (u \in online),
                                            !.base = b.rev, !.sent = b.cells,
                                            !.own = b.touched, !.mixed = b.mixed]
    OBVIOUS
  <1>3. /\ thread' = [thread EXCEPT ![u] = t] /\ browser' = [browser EXCEPT ![u] = n]
        /\ alone' = alone \cup {u}
    BY <1>1, <1>2 DEF Sync
  <1>4. /\ TypedPage(n) /\ Keeps(b, n) /\ n.cells = b.cells
        /\ TypedThread(t) /\ Sends(n, t)
    BY <1>1, <1>2, SyncGoes
  <1>5. Changes(u, browser[u], n)
    <2>1. CASE b = browser[u]
      BY <1>4, <2>1 DEF Changes
    <2>2. CASE browser[u].open /\ \E c \in Cell : Alters(browser[u], b, c, Absent)
      <3>1. PICK c \in Cell : Alters(browser[u], b, c, Absent)
        BY <2>2
      <3>2. Alters(browser[u], n, c, Absent)
        BY <1>4, <3>1 DEF Alters, Recodes, Keeps
      <3> QED BY <2>2, <3>2 DEF Changes
    <2> QED BY <2>1, <2>2
  <1>6. t.at = "read" /\ online' \subseteq OnSocket
    BY <1>4, Parts DEF Sends
  <1>7. BrowserMoves(u, t, n)
    BY <1>3, <1>4, <1>5, <1>6 DEF BrowserMoves
  <1> QED BY <1>7 DEF BrowserStep

LEMMA SendSteps ==
    ASSUME TypeOK, NEW u \in User, Send(u)
    PROVE  BrowserStep(u)
  <1>1. /\ browser[u].dirty /\ Sync(u, browser[u])
        /\ UNCHANGED <<tables, file, online, edits, faults>>
    BY DEF Send
  <1>2. TypedPage(browser[u]) /\ browser[u].open
    BY <1>1, Parts DEF TypedPage
  <1>3. edits' \in [User -> Nat] /\ \A w \in User : edits'[w] <= edits[w]
    BY <1>1, Unedited
  <1> QED BY <1>1, <1>2, <1>3, SyncSteps

LEMMA DeleteCellSteps ==
    ASSUME TypeOK, NEW u \in User, NEW c \in Cell, DeleteCell(u, c)
    PROVE  BrowserStep(u)
  <1>1. PICK b : b = browser[u]
    OBVIOUS
  <1>2. PICK order : order = Ordered(b.cells.order, Cell \ {c})
    OBVIOUS
  <1>3. PICK r : r = Rendered(b, [Put(b.cells, c, Gone) EXCEPT !.order = order])
    OBVIOUS
  <1>4. PICK touched, n : touched = r.touched \cup {c} /\ n = [r EXCEPT !.touched = touched]
    OBVIOUS
  <1>5. /\ Changing(u) /\ b.open /\ Sync(u, n)
        /\ UNCHANGED <<tables, file, online, faults>>
    BY <1>1, <1>2, <1>3, <1>4 DEF DeleteCell, Changing
  <1>6. TypedPage(b) /\ b.cells.order \in Seq(Cell)
    BY <1>1, <1>5, Parts, OpenPages DEF Doc
  <1>7. order \in Seq(Cell)
    BY <1>2, <1>6, OrderedIsAnOrder
  <1>8. b \in Page /\ b.cells \in Doc /\ b.dirty \in BOOLEAN
    BY <1>5, <1>6, OpenPages DEF Page
  <1>9. PICK d : d = [Put(b.cells, c, Gone) EXCEPT !.order = order]
    OBVIOUS
  <1>10. r \in Page /\ r.dirty = b.dirty
    <2>1. Put(b.cells, c, Gone) \in Doc
      BY <1>8, GoneIsContent, PutIsTyped
    <2>2. d \in Doc
      BY <1>7, <1>9, <2>1, OrderIsTyped
    <2> QED BY <1>3, <1>8, <1>9, <2>2, RenderedPage
  <1>11. n = [r EXCEPT !.dirty = b.dirty, !.touched = r.touched \cup {c}]
    BY <1>4, <1>10 DEF Page
  <1>12. TypedPage(n) /\ Alters(b, n, c, Gone.code)
    BY <1>3, <1>5, <1>6, <1>7, <1>8, <1>11, GoneIsContent, ReorderedPage
  <1>13. n.open /\ Alters(b, n, c, Absent)
    BY <1>12, GoneIsContent DEF Alters
  <1> QED BY <1>1, <1>5, <1>12, <1>13, Edited, SyncSteps
LEMMA FaultsBounded ==
    ASSUME TypeOK, Faulty
    PROVE  faults' \in 0 .. MaxFaults
  <1>1. faults \in 0 .. MaxFaults /\ faults < MaxFaults /\ faults' = faults + 1
    BY DEF Faulty, TypeOK
  <1> QED BY <1>1, NotebookAssumption

\* A request that fails, a lost socket and a restart end requests, and leave
\* the codes of the pages.
LEMMA FailSteps ==
    ASSUME TypeOK, NEW u \in User, Fail(u)
    PROVE  FaultStep
  <1>1. PICK closed : closed = (thread[u].kind = "load" /\ thread[u].socket)
    OBVIOUS
  <1>2. /\ UNCHANGED <<tables, file, edits, alone>> /\ Faulty
        /\ thread' = [v \in User |-> IF v = u THEN Idle
                                     ELSE IF closed THEN Without(thread[v], u) ELSE thread[v]]
        /\ browser' = [browser EXCEPT ![u] = Losing(browser[u], thread[u])]
        /\ online' = IF closed THEN online \ {u} ELSE online
    BY <1>1 DEF Fail
  <1>3. online' \subseteq OnSocket /\ faults' \in 0 .. MaxFaults
    BY <1>2, FaultsBounded, Parts
  <1>4. ASSUME NEW v \in User
        PROVE  TypedThread(thread'[v]) /\ Goes(thread[v], thread'[v])
    <2>1. thread'[v] \in {Idle, thread[v], Without(thread[v], u)}
      BY <1>2
    <2>2. TypedThread(thread[v]) /\ Continues(thread[v], thread[v])
      BY Parts
    <2> QED BY <2>1, <2>2, IdleGoes, WithoutGoes DEF Goes
  <1>5. ASSUME NEW v \in User
        PROVE  TypedPage(browser'[v]) /\ Keeps(browser[v], browser'[v])
    <2>1. browser'[v] \in {browser[v], Losing(browser[v], thread[u])}
      BY <1>2, Parts
    <2> QED BY <2>1, Parts, LosingPage
  <1>6. thread' = [v \in User |-> thread'[v]] /\ browser' = [v \in User |-> browser'[v]]
    BY <1>2, Parts
  <1> QED BY <1>2, <1>3, <1>4, <1>5, <1>6 DEF FaultStep

LEMMA DisconnectSteps ==
    ASSUME TypeOK, NEW u \in User, Disconnect(u)
    PROVE  FaultStep
  <1>1. /\ UNCHANGED <<tables, file, edits, alone>> /\ Faulty
        /\ thread' = [v \in User |-> Without(thread[v], u)]
        /\ browser' = [browser EXCEPT ![u] = Losing(browser[u], thread[u])]
        /\ online' = online \ {u}
    BY DEF Disconnect
  <1>2. online' \subseteq OnSocket /\ faults' \in 0 .. MaxFaults
    BY <1>1, FaultsBounded, Parts
  <1>3. ASSUME NEW v \in User
        PROVE  TypedThread(thread'[v]) /\ Goes(thread[v], thread'[v])
    BY <1>1, Parts, WithoutGoes
  <1>4. ASSUME NEW v \in User
        PROVE  TypedPage(browser'[v]) /\ Keeps(browser[v], browser'[v])
    <2>1. browser'[v] \in {browser[v], Losing(browser[v], thread[u])}
      BY <1>1, Parts
    <2> QED BY <2>1, Parts, LosingPage
  <1>5. thread' = [v \in User |-> thread'[v]] /\ browser' = [v \in User |-> browser'[v]]
    BY <1>1, Parts
  <1> QED BY <1>1, <1>2, <1>3, <1>4, <1>5 DEF FaultStep

LEMMA CrashSteps ==
    ASSUME TypeOK, Crash
    PROVE  FaultStep
  <1>1. /\ UNCHANGED <<tables, file, edits>> /\ Faulty /\ alone' = {} /\ online' = {}
        /\ thread' = [v \in User |-> Idle]
        /\ browser' = [v \in User |-> Losing(browser[v], thread[v])]
    BY DEF Crash
  <1>2. online' \subseteq OnSocket /\ faults' \in 0 .. MaxFaults
    BY <1>1, FaultsBounded
  <1>3. ASSUME NEW v \in User
        PROVE  TypedThread(thread'[v]) /\ Goes(thread[v], thread'[v])
    BY <1>1, IdleGoes DEF Goes
  <1>4. ASSUME NEW v \in User
        PROVE  TypedPage(browser'[v]) /\ Keeps(browser[v], browser'[v])
    BY <1>1, Parts, LosingPage
  <1>5. thread' = [v \in User |-> thread'[v]] /\ browser' = [v \in User |-> browser'[v]]
    BY <1>1
  <1> QED BY <1>1, <1>2, <1>3, <1>4, <1>5 DEF FaultStep

LEMMA AnyBrowserStep ==
    ASSUME TypeOK, NEW u \in User,
           \/ Open(u) \/ Connect(u) \/ Send(u) \/ Poll(u)
           \/ \E c \in Cell : Edit(u, c) \/ AddCell(u, c) \/ DeleteCell(u, c)
           \/ \E c \in Cell, out \in RunOutput, live \in BOOLEAN : RunCell(u, c, out, live)
    PROVE  BrowserStep(u)
  BY AskingSteps, ConnectSteps, SendSteps, EditSteps, AddCellSteps, DeleteCellSteps, RunCellSteps

LEMMA AnyFaultStep ==
    ASSUME TypeOK, Crash \/ \E u \in User : Fail(u) \/ Disconnect(u)
    PROVE  FaultStep
  BY FailSteps, DisconnectSteps, CrashSteps

\* The document a page gets with an answer, and who is still to be answered.
Answers(u, v, n) ==
  /\ TypedPage(n) /\ (n = browser[v] \/ Takes(browser[v], n, thread[u].cur))
  /\ browser' = [browser EXCEPT ![v] = n]

LEMMA DeliverPage ==
    ASSUME TypeOK, NEW u \in User, NEW v \in User, Deliver(u, v)
    PROVE  \E n : Answers(u, v, n)
  <1>1. PICK t, b : t = thread[u] /\ b = browser[v]
    OBVIOUS
  <1>2. TypedThread(t) /\ t.at = "answer" /\ TypedPage(b)
    BY <1>1, Parts DEF Deliver, At
  <1>3. t.cur \in State
    BY <1>2 DEF TypedThread, Thread
  <1>4. PICK connected, own : connected = (v \in online) /\ own = (t.kind = "sync" /\ u = v)
    OBVIOUS
  <1>5. PICK n : n = IF t.socket /\ v \notin online THEN b
                     ELSE IF t.kind = "poll" THEN Adopt(b, t.cur)
                     ELSE IF t.kind = "load" /\ ~t.socket THEN Load(b, t.cur, connected)
                     ELSE Render(b, t.cur, own)
    OBVIOUS
  <1>6. browser' = [browser EXCEPT ![v] = n]
    BY <1>1, <1>4, <1>5 DEF Deliver
  <1>7. n \in {b, Adopt(b, t.cur), Load(b, t.cur, connected), Render(b, t.cur, own)}
    BY <1>5
  <1>8. connected \in BOOLEAN /\ own \in BOOLEAN
    BY <1>4
  <1>9. TypedPage(n) /\ (n = b \/ Takes(b, n, t.cur))
    BY <1>2, <1>3, <1>7, <1>8, AdoptTakes, LoadTakes, RenderTakes
  <1> QED BY <1>1, <1>6, <1>9 DEF Answers

LEMMA DeliverThread ==
    ASSUME TypeOK, NEW u \in User, NEW v \in User, Deliver(u, v)
    PROVE  /\ thread' = [thread EXCEPT ![u] = thread'[u]]
           /\ TypedThread(thread'[u]) /\ Goes(thread[u], thread'[u])
           /\ UNCHANGED <<tables, file, online, edits, faults, alone>>
  <1>1. PICK t : t = thread[u]
    OBVIOUS
  <1>2. PICK left : left = t.left \ {v}
    OBVIOUS
  <1>3. PICK rest : rest = [t EXCEPT !.left = left]
    OBVIOUS
  <1>4. PICK n : n = IF t.left = {v} THEN Idle ELSE rest
    OBVIOUS
  <1>5. thread' = [thread EXCEPT ![u] = n]
    BY <1>1, <1>2, <1>3, <1>4 DEF Deliver, Step
  <1>6. TypedThread(t) /\ left \in SUBSET User
    BY <1>1, <1>2, Parts DEF TypedThread, Thread
  <1>7. TypedThread(n) /\ Goes(t, n)
    BY <1>3, <1>4, <1>6, LeftGoes, IdleGoes DEF Goes
  <1>8. thread'[u] = n
    BY <1>5, Parts
  <1>9. UNCHANGED <<tables, file, online, edits, faults, alone>>
    BY DEF Deliver
  <1> QED BY <1>1, <1>5, <1>7, <1>8, <1>9

\* A sync that is to be answered as it is.
AnswersOf(t, n) ==
  /\ n.kind = t.kind /\ n.base = t.base /\ n.sent = t.sent
  /\ n.cur = t.cur /\ n.new = t.new /\ n.own = t.own /\ n.mixed = t.mixed

LEMMA AnsweringThread ==
    ASSUME TypeOK, NEW u \in User, At(u, "save")
    PROVE  /\ TypedThread(Answering(u))
           /\ \/ Answering(u) = Idle
              \/ Answering(u).at = "answer" /\ AnswersOf(thread[u], Answering(u))
  <1>1. PICK t : t = thread[u]
    OBVIOUS
  <1>2. PICK left : left = IF ~t.socket THEN {u} ELSE online
    OBVIOUS
  <1>3. PICK n : n = [t EXCEPT !.at = "answer", !.left = left]
    OBVIOUS
  <1>4. Answering(u) \in {Idle, n}
    BY <1>1, <1>2, <1>3 DEF Answering
  <1>5. TypedThread(t) /\ t \in Thread /\ t.at = "save" /\ left \in SUBSET User
    BY <1>1, <1>2, Parts DEF At, TypedThread
  <1>6. n \in Thread /\ n.at = "answer" /\ AnswersOf(t, n)
    BY <1>3, <1>5, Places DEF Thread, AnswersOf
  <1>7. TypedThread(n)
    BY <1>5, <1>6 DEF TypedThread, AnswersOf
  <1> QED BY <1>1, <1>4, <1>6, <1>7, IdleGoes

-----------------------------------------------------------------------------
(* Types, always.                                                          *)

LEMMA Untouched ==
    ASSUME TypeOK
    PROVE  /\ UNCHANGED tables => TypedTables'
           /\ UNCHANGED thread => TypedThreads'
           /\ UNCHANGED browser => TypedPages'
           /\ UNCHANGED <<file, online, edits, faults, alone>> => TypedRest'
  <1>1. TypedTables /\ TypedThreads /\ TypedPages /\ TypedRest
    BY TypeParts
  <1>2. UNCHANGED tables => TypedTables'
    BY <1>1 DEF TypedTables, tables
  <1>3. UNCHANGED thread => TypedThreads'
    BY <1>1 DEF TypedThreads, TypedThread
  <1>4. UNCHANGED browser => TypedPages'
    BY <1>1 DEF TypedPages, TypedPage
  <1>5. UNCHANGED <<file, online, edits, faults, alone>> => TypedRest'
    BY <1>1 DEF TypedRest
  <1> QED BY <1>2, <1>3, <1>4, <1>5

LEMMA TypePartsLater == TypedTables' /\ TypedThreads' /\ TypedPages' /\ TypedRest' => TypeOK'
  BY Zenon DEF TypeOK, TypedTables, TypedThreads, TypedPages, TypedRest, TypedThread, TypedPage

LEMMA BrowserTyped ==
    ASSUME TypeOK, NEW u \in User, BrowserStep(u)
    PROVE  TypeOK'
  <1>1. PICK t, n : BrowserMoves(u, t, n)
    BY DEF BrowserStep
  <1>2. TypedThreads'
    <2>1. TypedThread(t) /\ thread' = [thread EXCEPT ![u] = t]
      BY <1>1 DEF BrowserMoves
    <2> QED BY <2>1, OneTypedThread, TypeParts
  <1>3. TypedPages'
    <2>1. TypedPage(n) /\ browser' = [browser EXCEPT ![u] = n]
      BY <1>1 DEF BrowserMoves
    <2> QED BY <2>1, OneTypedPage, TypeParts
  <1>4. TypedRest' /\ UNCHANGED tables
    BY <1>1 DEF BrowserMoves, TypedRest, TypeOK
  <1> QED BY <1>2, <1>3, <1>4, Untouched, TypePartsLater

LEMMA FaultTyped ==
    ASSUME TypeOK, FaultStep
    PROVE  TypeOK'
  <1>1. TypedThreads'
    <2>1. /\ thread' = [v \in User |-> thread'[v]]
          /\ \A v \in User : TypedThread(thread'[v])
      BY DEF FaultStep
    <2>2. \A v \in User : thread'[v] \in Thread
      BY <2>1 DEF TypedThread
    <2>3. thread' \in [User -> Thread]
      BY <2>1, <2>2
    <2> QED BY <2>1, <2>3 DEF TypedThreads, TypedThread
  <1>2. TypedPages'
    <2>1. /\ browser' = [v \in User |-> browser'[v]]
          /\ \A v \in User : TypedPage(browser'[v])
      BY DEF FaultStep
    <2>2. \A v \in User : browser'[v] \in Page
      BY <2>1 DEF TypedPage
    <2>3. browser' \in [User -> Page]
      BY <2>1, <2>2
    <2> QED BY <2>1, <2>3 DEF TypedPages, TypedPage
  <1>3. TypedRest' /\ UNCHANGED tables
    BY DEF FaultStep, TypedRest, TypeOK
  <1> QED BY <1>1, <1>2, <1>3, Untouched, TypePartsLater

LEMMA ReadTyped ==
    ASSUME TypeOK, NEW u \in User, ReadState(u)
    PROVE  TypeOK'
  <1>1. TypedThread(thread[u])
    BY TypeParts DEF TypedThreads
  <1>2. TypedThreads'
    <2>1. CASE state = NoState
      <3>1. PICK place : place = "load file"
        BY Zenon
      <3>2. place \in Place /\ place \notin {"create", "store", "save", "answer"}
        BY <3>1, Zenon DEF Place
      <3>3. thread' = [thread EXCEPT ![u] = [thread[u] EXCEPT !.at = place]]
        <4>1. thread' = [thread EXCEPT ![u] = IF state = NoState THEN [thread[u] EXCEPT !.at = place]
                              ELSE [WithState(thread[u], state) EXCEPT !.left = {u}]]
          BY <3>1, Zenon DEF ReadState, Step
        <4> QED BY <2>1, <4>1, Zenon
      <3>4. PICK t, n : t = thread[u] /\ n = [t EXCEPT !.at = place]
        OBVIOUS
      <3>5. n \in Thread /\ n.at = place /\ n.kind = t.kind /\ n.sent = t.sent
        BY <1>1, <3>2, <3>4 DEF TypedThread, Thread
      <3>6. TypedThread(n)
        BY <1>1, <3>2, <3>4, <3>5 DEF TypedThread
      <3> QED BY <3>3, <3>4, <3>6, OneTypedThread, TypeParts
    <2>2. CASE state # NoState
      <3>1. thread' = [thread EXCEPT ![u] = [WithState(thread[u], state) EXCEPT !.left = {u}]]
        BY <2>2, Zenon DEF ReadState, Step
      <3>2. state \in State
        BY <2>2 DEF TypeOK
      <3> QED BY <1>1, <3>1, <3>2, WithStateIsTyped, OneTypedThread, TypeParts
    <2> QED BY <2>1, <2>2
  <1>3. UNCHANGED <<tables, file, browser, online, edits, faults, alone>>
    BY Zenon DEF ReadState
  <1> QED BY <1>2, <1>3, Untouched, TypePartsLater

LEMMA LoadFileTyped ==
    ASSUME TypeOK, NEW u \in User, LoadFile(u)
    PROVE  TypeOK'
  <1> PICK t : t = thread[u]
    OBVIOUS
  <1>1. TypedThread(t)
    BY TypeParts DEF TypedThreads
  <1>3. PICK s : s = [rev |-> 0, doc |-> file]
    OBVIOUS
  <1>4. s \in State /\ s # NoState
    <2>1. 0 \in 0 .. MaxRev /\ file \in Doc
      BY NotebookAssumption DEF TypeOK
    <2>2. s \in State
      BY <1>3, <2>1 DEF State
    <2> QED BY <2>2, StatesAreSomething
  <1>5. PICK n : n = [t EXCEPT !.at = "create", !.cur = s]
    OBVIOUS
  <1>6. /\ n \in Thread /\ n.at = "create" /\ n.cur = s /\ n.kind = t.kind /\ n.sent = t.sent
        /\ n.new = t.new
    BY <1>1, <1>4, <1>5, Places DEF TypedThread, Thread
  <1>7. TypedThread(n)
    BY <1>1, <1>4, <1>6 DEF TypedThread
  <1>8. TypedThreads'
    <2>1. thread' = [thread EXCEPT ![u] = n]
      BY <1>3, <1>5, Zenon DEF LoadFile, Step
    <2> QED BY <1>7, <2>1, OneTypedThread, TypeParts
  <1>9. UNCHANGED <<tables, file, browser, online, edits, faults, alone>>
    BY Zenon DEF LoadFile
  <1> QED BY <1>8, <1>9, Untouched, TypePartsLater

LEMMA CreateTyped ==
    ASSUME TypeOK, NEW u \in User, Create(u)
    PROVE  TypeOK'
  <1> PICK t, s : t = thread[u] /\ s = thread[u].cur
    OBVIOUS
  <1>1. TypedThread(t) /\ t.at = "create" /\ t.cur = s
    BY TypeParts DEF TypedThreads, Create, At
  <1>2. s \in State
    BY <1>1 DEF TypedThread, Thread
  <1>3. TypedTables'
    <2>1. StoreState(NoState, s)
      BY DEF Create
    <2> QED BY <1>2, <2>1, StoreIsTyped, TypeParts
  <1>4. TypedThreads'
    <2>1. thread' = [thread EXCEPT ![u] = [WithState(t, s) EXCEPT !.left = {u}]]
      BY Zenon DEF Create, Step
    <2> QED BY <1>1, <1>2, <2>1, WithStateIsTyped, OneTypedThread, TypeParts
  <1>5. UNCHANGED <<file, browser, online, edits, faults>> /\ alone' \subseteq User
    BY DEF Create, TypeOK
  <1>6. TypedRest'
    BY <1>5 DEF TypedRest, TypeOK
  <1> QED BY <1>3, <1>4, <1>5, <1>6, Untouched, TypePartsLater

LEMMA StoreTyped ==
    ASSUME TypeOK, NEW u \in User, StoreMerged(u)
    PROVE  TypeOK'
  <1> PICK t : t = thread[u]
    OBVIOUS
  <1>1. TypedThread(t) /\ t.at = "store"
    BY TypeParts DEF TypedThreads, StoreMerged, At
  <1>2. t \in Thread /\ t.cur \in State /\ t.new \in Doc /\ t.kind = "sync" /\ t.sent # NoDoc
    BY <1>1 DEF TypedThread, Thread
  <1>3. PICK s : s = [rev |-> t.cur.rev + 1, doc |-> t.new]
    OBVIOUS
  <1>4. s \in State /\ s # NoState
    <2>1. t.cur.rev \in 0 .. MaxRev /\ t.cur.rev < MaxRev
      BY <1>2 DEF State, StoreMerged
    <2>2. t.cur.rev + 1 \in 0 .. MaxRev
      BY <2>1, NotebookAssumption
    <2>3. s \in State
      BY <1>2, <1>3, <2>2 DEF State
    <2> QED BY <2>3, StatesAreSomething
  <1>5. TypedTables'
    <2>1. StoreState(t.cur, s)
      BY <1>3 DEF StoreMerged
    <2> QED BY <1>4, <2>1, StoreIsTyped, TypeParts
  <1>6. PICK n : n = [t EXCEPT !.at = "save", !.cur = s]
    OBVIOUS
  <1>7. n \in Thread /\ n.at = "save" /\ n.cur = s /\ n.kind = t.kind /\ n.sent = t.sent
    BY <1>2, <1>4, <1>6, Places DEF Thread
  <1>8. TypedThread(n)
    BY <1>2, <1>4, <1>7 DEF TypedThread
  <1>9. TypedThreads'
    <2>1. thread' = [thread EXCEPT ![u] = n]
      BY <1>3, <1>6, Zenon DEF StoreMerged, Step
    <2> QED BY <1>8, <2>1, OneTypedThread, TypeParts
  <1>10. UNCHANGED <<file, browser, online, edits, faults>> /\ alone' \subseteq User
    BY DEF StoreMerged, TypeOK
  <1>11. TypedRest'
    BY <1>10 DEF TypedRest, TypeOK
  <1> QED BY <1>5, <1>9, <1>10, <1>11, Untouched, TypePartsLater

LEMMA SaveTyped ==
    ASSUME TypeOK, NEW u \in User, SaveFile(u)
    PROVE  TypeOK'
  <1>1. /\ At(u, "save") /\ file' = thread[u].cur.doc
        /\ thread' = [thread EXCEPT ![u] = Answering(u)]
        /\ UNCHANGED <<tables, browser, online, edits, faults>> /\ alone' = alone \cap {u}
    BY DEF SaveFile, Step
  <1>2. TypedThreads'
    BY <1>1, AnsweringThread, OneTypedThread, TypeParts
  <1>3. file' \in Doc
    <2>1. TypedThread(thread[u]) /\ thread[u].at = "save"
      BY <1>1, Parts DEF At
    <2>2. thread[u].cur \in State
      BY <2>1 DEF TypedThread, Thread
    <2> QED BY <1>1, <2>2, StatesAreSomething
  <1>4. TypedRest'
    BY <1>1, <1>3 DEF TypedRest, TypeOK
  <1> QED BY <1>1, <1>2, <1>4, Untouched, TypePartsLater

LEMMA DeliverTyped ==
    ASSUME TypeOK, NEW u \in User, NEW v \in User, Deliver(u, v)
    PROVE  TypeOK'
  <1>1. TypedPages'
    <2>1. PICK n : Answers(u, v, n)
      BY DeliverPage
    <2>2. TypedPage(n) /\ browser' = [browser EXCEPT ![v] = n]
      BY <2>1 DEF Answers
    <2> QED BY <2>2, OneTypedPage, TypeParts
  <1>2. TypedThreads'
    <2>1. PICK n : n = thread'[u]
      OBVIOUS
    <2>2. TypedThread(n) /\ thread' = [thread EXCEPT ![u] = n]
      BY <2>1, DeliverThread
    <2> QED BY <2>2, OneTypedThread, TypeParts
  <1>3. UNCHANGED <<tables, file, online, edits, faults, alone>>
    BY DeliverThread
  <1> QED BY <1>1, <1>2, <1>3, Untouched, TypePartsLater

LEMMA PlainSaveTyped ==
    ASSUME TypeOK, NEW c \in Cell, PlainSave(c)
    PROVE  TypeOK'
  <1>1. file \in Doc /\ Elsewhere \in Code
    BY DEF TypeOK, Code
  <1>2. PICK x : x = [code |-> Elsewhere, out |-> file.cell[c].out]
    OBVIOUS
  <1>3. x \in Content
    BY <1>1, <1>2 DEF Doc, Content
  <1>4. file' \in Doc
    <2>1. file' = Put(file, c, x)
      BY <1>2 DEF PlainSave
    <2> QED BY <1>1, <1>3, <2>1, PutIsTyped
  <1>5. /\ UNCHANGED <<tables, thread, browser, online, edits>> /\ alone' = {}
        /\ faults' \in 0 .. MaxFaults
    BY FaultsBounded DEF PlainSave
  <1>6. TypedRest'
    BY <1>4, <1>5 DEF TypedRest, TypeOK
  <1> QED BY <1>5, <1>6, Untouched, TypePartsLater

LEMMA InitTyped == Init => TypeOK
  <1> SUFFICES ASSUME Init PROVE TypeOK
    OBVIOUS
  <1>1. FirstDoc \in Doc
    <2>1. PICK cell : cell = [c \in Cell |-> IF c \in InOrder(FirstOrder)
                                             THEN [code |-> Original, out |-> FirstOutput[c]]
                                             ELSE Gone]
      OBVIOUS
    <2>2. ASSUME NEW c \in Cell PROVE [code |-> Original, out |-> FirstOutput[c]] \in Content
      BY NotebookAssumption DEF Content, Code
    <2>3. cell \in [Cell -> Content]
      BY <2>1, <2>2, GoneIsContent
    <2>4. FirstDoc = [order |-> FirstOrder, cell |-> cell]
      BY <2>1 DEF FirstDoc
    <2> QED BY <2>3, <2>4, NotebookAssumption DEF Doc
  <1>2. TypedTables
    BY DEF Init, TypedTables
  <1>3. TypedThreads
    <2>1. PICK idle : idle = Idle
      OBVIOUS
    <2>2. idle \in Thread /\ TypedThread(idle)
      BY <2>1, IdleIsTyped DEF TypedThread
    <2>3. thread = [u \in User |-> idle]
      BY <2>1 DEF Init
    <2> QED BY <2>2, <2>3 DEF TypedThreads
  <1>4. TypedPages
    <2>1. PICK blank : blank = Blank
      OBVIOUS
    <2>2. 0 \in 0 .. MaxRev /\ [c \in Cell |-> NoOutput] \in [Cell -> Output]
      BY NotebookAssumption
    <2>3. blank \in Page /\ ~blank.open /\ ~blank.dirty
      BY <2>1, <2>2 DEF Blank, Page
    <2>4. TypedPage(blank)
      BY <2>3 DEF TypedPage
    <2>5. browser = [u \in User |-> blank]
      BY <2>1 DEF Init
    <2> QED BY <2>3, <2>4, <2>5 DEF TypedPages
  <1>5. TypedRest
    BY <1>1, NotebookAssumption DEF Init, TypedRest
  <1> QED BY <1>2, <1>3, <1>4, <1>5, TypeParts

LEMMA NextTyped == TypeOK /\ [Next]_vars => TypeOK'
  <1> SUFFICES ASSUME TypeOK, [Next]_vars PROVE TypeOK'
    OBVIOUS
  <1>1. ASSUME NEW u \in User,
               \/ Open(u) \/ Connect(u) \/ Send(u) \/ Poll(u)
               \/ \E c \in Cell : Edit(u, c) \/ AddCell(u, c) \/ DeleteCell(u, c)
               \/ \E c \in Cell, out \in RunOutput, live \in BOOLEAN : RunCell(u, c, out, live)
        PROVE  TypeOK'
    BY <1>1, AnyBrowserStep, BrowserTyped
  <1>2. ASSUME NEW u \in User, Serve(u)
        PROVE  TypeOK'
    BY <1>2, ReadTyped, LoadFileTyped, CreateTyped, StoreTyped, SaveTyped, DeliverTyped DEF Serve
  <1>3. ASSUME Crash \/ \E u \in User : Fail(u) \/ Disconnect(u)
        PROVE  TypeOK'
    BY <1>3, AnyFaultStep, FaultTyped
  <1>4. ASSUME NEW c \in Cell, PlainSave(c)
        PROVE  TypeOK'
    BY <1>4, PlainSaveTyped
  <1>5. ASSUME UNCHANGED vars PROVE TypeOK'
    <2>1. UNCHANGED <<tables, file, thread, browser, online, edits, faults, alone>>
      BY <1>5 DEF vars
    <2> QED BY <2>1, Untouched, TypePartsLater
  <1> QED BY <1>1, <1>2, <1>3, <1>4, <1>5 DEF Next

(* Types, always: whatever is merged, stored, saved and shown, with cells  *)
(* added and deleted and requests failing, is a document: an order of cells*)
(* and a code and an output for each. A request that is past reading has a *)
(* state to answer with, an open page has cells to send, and the newest    *)
(* revision has its snapshot.                                              *)
THEOREM TypeCorrect == Spec => []TypeOK
  <1>1. Init => TypeOK
    BY InitTyped
  <1>2. TypeOK /\ [Next]_vars => TypeOK'
    BY NextTyped
  <1> QED BY <1>1, <1>2, PTL DEF Spec

-----------------------------------------------------------------------------
(* Agreement: revisions identify codes, and merges leave what is not the   *)
(* user's own.                                                             *)

Revision == 0 .. MaxRev

\* The newest revision's snapshot is the state, and nothing is beyond it.
TablesAgree(s, sn) ==
  /\ s # NoState => sn[s.rev] = s.doc
  /\ \A n \in Revision : (s = NoState \/ n > s.rev) => sn[n] = NoDoc

\* What a sync's user has not changed has the codes of its base.
BaseAgrees(t, sn) ==
  (t.kind = "sync" /\ ~t.mixed) =>
    /\ sn[t.base] # NoDoc
    /\ \A c \in Cell \ t.own : t.sent.cell[c].code = sn[t.base].cell[c].code

ThreadAgrees(t, sn) ==
  /\ t.at = "create" => t.cur.rev = 0
  /\ t.at \in {"store", "save", "answer"} => sn[t.cur.rev] = t.cur.doc
  /\ BaseAgrees(t, sn)
  /\ (t.at = "store" /\ ~t.mixed) =>
       \A c \in Cell \ t.own :
         t.sent.cell[c].out = sn[t.base].cell[c].out => t.new.cell[c] = t.cur.doc.cell[c]

PageAgrees(b, sn) ==
  (b.open /\ ~b.mixed) =>
    /\ sn[b.rev] # NoDoc
    /\ \A c \in Cell \ b.touched : b.cells.cell[c].code = sn[b.rev].cell[c].code

Agreement ==
  ~overwritten =>
    /\ TablesAgree(state, snap)
    /\ \A u \in User : ThreadAgrees(thread[u], snap) /\ PageAgrees(browser[u], snap)

IInv == TypeOK /\ Agreement

\* Snapshots that are there stay.
Grows(sn, later) == \A n \in Revision : sn[n] # NoDoc => later[n] = sn[n]

LEMMA ThreadsStayAgreed ==
    ASSUME NEW t, TypedThread(t), NEW sn, NEW later, Grows(sn, later),
           sn \in [Revision -> Doc \cup {NoDoc}], ThreadAgrees(t, sn)
    PROVE  ThreadAgrees(t, later)
  <1>1. t \in Thread /\ t.base \in Revision
    BY DEF TypedThread, Thread, Revision
  <1>2. ASSUME t.at \in {"store", "save", "answer"}
        PROVE  later[t.cur.rev] = t.cur.doc
    <2>1. t.cur \in State
      BY <1>1, <1>2 DEF TypedThread, Thread
    <2>2. t.cur.rev \in Revision /\ t.cur.doc # NoDoc
      BY <2>1, StatesAreSomething, DocsAreSomething DEF Revision
    <2> QED BY <1>2, <2>2 DEF Grows, ThreadAgrees
  <1>3. (t.kind = "sync" /\ ~t.mixed) => later[t.base] = sn[t.base]
    BY <1>1 DEF Grows, ThreadAgrees, BaseAgrees
  <1>4. BaseAgrees(t, later)
    BY <1>3 DEF ThreadAgrees, BaseAgrees
  <1>5. t.at = "store" => t.kind = "sync"
    BY DEF TypedThread
  <1> QED BY <1>2, <1>3, <1>4, <1>5 DEF ThreadAgrees

LEMMA PagesStayAgreed ==
    ASSUME NEW b, TypedPage(b), NEW sn, NEW later, Grows(sn, later), PageAgrees(b, sn)
    PROVE  PageAgrees(b, later)
  <1>1. b.rev \in Revision
    BY DEF TypedPage, Page, Revision
  <1> QED BY <1>1 DEF Grows, PageAgrees

LEMMA Facts ==
    ASSUME IInv
    PROVE  /\ TypeOK
           /\ snap \in [Revision -> Doc \cup {NoDoc}]
           /\ ~overwritten => /\ TablesAgree(state, snap)
                              /\ \A u \in User : /\ ThreadAgrees(thread[u], snap)
                                                 /\ PageAgrees(browser[u], snap)
  BY DEF IInv, Agreement, TypeOK, Revision

\* A step keeps agreement if it does so for what it changes.
LEMMA StepKeeps ==
    ASSUME IInv,
           overwritten => overwritten',
           ~overwritten' => TablesAgree(state', snap') /\ Grows(snap, snap'),
           \A u \in User : \/ thread'[u] = thread[u]
                           \/ ~overwritten' => ThreadAgrees(thread'[u], snap'),
           \A u \in User : \/ browser'[u] = browser[u]
                           \/ ~overwritten' => PageAgrees(browser'[u], snap')
    PROVE  Agreement'
  <1> SUFFICES ASSUME ~overwritten'
               PROVE  /\ TablesAgree(state', snap')
                      /\ \A u \in User : /\ ThreadAgrees(thread'[u], snap')
                                         /\ PageAgrees(browser'[u], snap')
    BY DEF Agreement
  <1>1. Grows(snap, snap') /\ ~overwritten
    OBVIOUS
  <1>2. ASSUME NEW u \in User
        PROVE  ThreadAgrees(thread[u], snap') /\ PageAgrees(browser[u], snap')
    <2>1. TypedThread(thread[u]) /\ TypedPage(browser[u])
      BY Facts, Parts
    <2>2. /\ ThreadAgrees(thread[u], snap) /\ PageAgrees(browser[u], snap)
          /\ snap \in [Revision -> Doc \cup {NoDoc}]
      BY <1>1, Facts
    <2> QED BY <1>1, <2>1, <2>2, ThreadsStayAgreed, PagesStayAgreed
  <1>3. ASSUME NEW u \in User
        PROVE  ThreadAgrees(thread'[u], snap') /\ PageAgrees(browser'[u], snap')
    BY <1>2
  <1> QED BY <1>3

LEMMA SameTables ==
    ASSUME IInv, UNCHANGED tables
    PROVE  /\ overwritten' = overwritten /\ snap' = snap /\ state' = state
           /\ ~overwritten' => TablesAgree(state', snap') /\ Grows(snap, snap')
  BY DEF tables, IInv, Agreement, Grows

LEMMA OneThread ==
    ASSUME TypeOK, NEW u \in User, NEW t, thread' = [thread EXCEPT ![u] = t]
    PROVE  thread'[u] = t /\ \A v \in User : v # u => thread'[v] = thread[v]
  BY DEF TypeOK

LEMMA OnePage ==
    ASSUME TypeOK, NEW u \in User, NEW b, browser' = [browser EXCEPT ![u] = b]
    PROVE  browser'[u] = b /\ \A v \in User : v # u => browser'[v] = browser[v]
  BY DEF TypeOK

\* Requests that go on, and pages that are changed by their users.
LEMMA GoingAgrees ==
    ASSUME NEW t, NEW n, NEW sn, Goes(t, n), ThreadAgrees(t, sn)
    PROVE  ThreadAgrees(n, sn)
  <1>1. CASE Plain(n)
    BY <1>1 DEF Plain, ThreadAgrees, BaseAgrees
  <1>2. CASE Continues(t, n)
    BY <1>2 DEF Continues, ThreadAgrees, BaseAgrees
  <1> QED BY <1>1, <1>2 DEF Goes

LEMMA SendingAgrees ==
    ASSUME NEW b, NEW n, NEW sn, Sends(b, n), PageAgrees(b, sn)
    PROVE  ThreadAgrees(n, sn)
  BY DEF Sends, PageAgrees, ThreadAgrees, BaseAgrees

LEMMA KeepingAgrees ==
    ASSUME NEW b, NEW n, NEW sn, Keeps(b, n), PageAgrees(b, sn)
    PROVE  PageAgrees(n, sn)
  BY DEF Keeps, PageAgrees

LEMMA AlteringAgrees ==
    ASSUME NEW b, NEW n, NEW sn, NEW c \in Cell, NEW x, b.open, Alters(b, n, c, x),
           PageAgrees(b, sn)
    PROVE  PageAgrees(n, sn)
  <1>1. /\ n.rev = b.rev /\ n.mixed = b.mixed /\ n.touched = b.touched \cup {c}
        /\ \A d \in Cell : d # c => n.cells.cell[d].code = b.cells.cell[d].code
    BY DEF Alters, Recodes
  <1>2. \A d \in Cell \ n.touched : d \in Cell \ b.touched /\ d # c
    BY <1>1
  <1> QED BY <1>1, <1>2 DEF PageAgrees

LEMMA ChangingAgrees ==
    ASSUME NEW u \in User, NEW b, NEW n, NEW sn, Changes(u, b, n), PageAgrees(b, sn)
    PROVE  PageAgrees(n, sn)
  BY KeepingAgrees, AlteringAgrees DEF Changes

LEMMA BrowserKeeps ==
    ASSUME IInv, NEW u \in User, BrowserStep(u)
    PROVE  Agreement'
  <1>1. PICK t, n : BrowserMoves(u, t, n)
    BY DEF BrowserStep
  <1>2. /\ UNCHANGED tables
        /\ thread' = [thread EXCEPT ![u] = t] /\ browser' = [browser EXCEPT ![u] = n]
        /\ Goes(thread[u], t) \/ Sends(n, t)
        /\ Changes(u, browser[u], n)
    BY <1>1 DEF BrowserMoves
  <1>3. snap' = snap /\ overwritten' = overwritten
    BY <1>2 DEF tables
  <1>4. ~overwritten' => ThreadAgrees(t, snap') /\ PageAgrees(n, snap')
    <2> SUFFICES ASSUME ~overwritten PROVE ThreadAgrees(t, snap) /\ PageAgrees(n, snap)
      BY <1>3
    <2>1. ThreadAgrees(thread[u], snap) /\ PageAgrees(browser[u], snap)
      BY Facts
    <2>2. PageAgrees(n, snap)
      BY <1>2, <2>1, ChangingAgrees
    <2> QED BY <1>2, <2>1, <2>2, GoingAgrees, SendingAgrees
  <1>5. /\ thread'[u] = t /\ \A v \in User : v # u => thread'[v] = thread[v]
        /\ browser'[u] = n /\ \A v \in User : v # u => browser'[v] = browser[v]
    BY <1>2, Facts, OneThread, OnePage
  <1> QED BY <1>2, <1>4, <1>5, SameTables, StepKeeps

LEMMA FaultKeeps ==
    ASSUME IInv, FaultStep
    PROVE  Agreement'
  <1>1. UNCHANGED tables
    BY DEF FaultStep
  <1>2. snap' = snap /\ overwritten' = overwritten
    BY <1>1 DEF tables
  <1>3. ASSUME NEW v \in User, ~overwritten'
        PROVE  ThreadAgrees(thread'[v], snap') /\ PageAgrees(browser'[v], snap')
    <2>1. ThreadAgrees(thread[v], snap) /\ PageAgrees(browser[v], snap)
      BY <1>2, <1>3, Facts
    <2>2. Goes(thread[v], thread'[v]) /\ Keeps(browser[v], browser'[v])
      BY DEF FaultStep
    <2> QED BY <1>2, <2>1, <2>2, GoingAgrees, KeepingAgrees
  <1> QED BY <1>1, <1>3, SameTables, StepKeeps

-----------------------------------------------------------------------------
(* The server's steps.                                                     *)

\* A request goes on with the state s.
Going(t, s, u) == [WithState(t, s) EXCEPT !.left = {u}]

LEMMA Reading ==
    ASSUME NEW t, TypedThread(t), NEW s \in State, NEW u, NEW n, n = Going(t, s, u),
           NEW base, base = IF snap[t.base] = NoDoc THEN s.doc ELSE snap[t.base]
    PROVE  /\ n.cur = s /\ n.kind = t.kind /\ n.own = t.own /\ n.mixed = t.mixed
           /\ n.base = t.base /\ n.sent = t.sent
           /\ t.kind # "sync" => n.at = "answer"
           /\ t.kind = "sync" =>
                /\ n.at \in {"save", "store"}
                /\ n.at = "save" => n.new = s.doc
                /\ Replaces(base, s.doc, t.sent, n.new)
  <1> PICK merged : merged = Merge(base, s.doc, t.sent)
    OBVIOUS
  <1>1. t \in Thread
    BY DEF TypedThread
  <1>2. CASE t.kind = "sync"
    <2>1. t.sent \in Doc /\ s.doc \in Doc
      BY <1>1, <1>2, StatesAreSomething DEF TypedThread, Thread
    <2>2. Replaces(base, s.doc, t.sent, merged)
      BY <2>1, MergeTyped, Zenon
    <2> HIDE DEF Merge
    <2> PICK place : place = IF merged = s.doc THEN "save" ELSE "store"
      OBVIOUS
    <2>3. n = [[t EXCEPT !.cur = s, !.new = merged, !.at = place] EXCEPT !.left = {u}]
      BY <1>2 DEF Going, WithState
    <2>4. /\ n.at = place /\ n.kind = t.kind /\ n.base = t.base /\ n.sent = t.sent
          /\ n.own = t.own /\ n.mixed = t.mixed /\ n.cur = s /\ n.new = merged
      BY <1>1, <2>3 DEF Thread
    <2>5. place \in {"save", "store"} /\ (place = "save" => merged = s.doc)
      OBVIOUS
    <2> QED BY <1>2, <2>2, <2>4, <2>5
  <1>3. CASE t.kind # "sync"
    <2>1. n = [[t EXCEPT !.cur = s, !.at = "answer"] EXCEPT !.left = {u}]
      BY <1>3 DEF Going, WithState
    <2> QED BY <1>1, <1>3, <2>1 DEF Thread
  <1> QED BY <1>2, <1>3

LEMMA SameContent ==
    ASSUME NEW x \in Content, NEW y \in Content, x.code = y.code, x.out = y.out
    PROVE  x = y
  BY DEF Content

\* ... whose snapshot is that state.
LEMMA GoingOnAgrees ==
    ASSUME NEW t, TypedThread(t), NEW s \in State, NEW u, NEW n, n = Going(t, s, u),
           snap \in [Revision -> Doc \cup {NoDoc}], BaseAgrees(t, snap),
           NEW later, later[s.rev] = s.doc, Grows(snap, later)
    PROVE  ThreadAgrees(n, later)
  <1> PICK base : base = IF snap[t.base] = NoDoc THEN s.doc ELSE snap[t.base]
    OBVIOUS
  <1>1. /\ n.cur = s /\ n.kind = t.kind /\ n.own = t.own /\ n.mixed = t.mixed
        /\ n.base = t.base /\ n.sent = t.sent
        /\ t.kind # "sync" => n.at = "answer"
        /\ t.kind = "sync" =>
             /\ n.at \in {"save", "store"}
             /\ Replaces(base, s.doc, t.sent, n.new)
    BY Reading
  <1>2. n.at # "create" /\ (n.at = "store" => t.kind = "sync")
    BY <1>1
  <1>3. CASE t.kind = "sync" /\ ~t.mixed
    <2>1. /\ snap[t.base] # NoDoc /\ t.base \in Revision /\ t.sent \in Doc
          /\ \A c \in Cell \ t.own : t.sent.cell[c].code = snap[t.base].cell[c].code
      BY <1>3 DEF BaseAgrees, TypedThread, Thread, Revision
    <2>2. later[t.base] = snap[t.base] /\ base = snap[t.base] /\ base \in Doc
      BY <2>1 DEF Grows
    <2>3. BaseAgrees(n, later)
      BY <1>1, <2>1, <2>2 DEF BaseAgrees
    <2>4. ASSUME NEW c \in Cell \ t.own, t.sent.cell[c].out = later[t.base].cell[c].out
          PROVE  n.new.cell[c] = s.doc.cell[c]
      <3>1. t.sent.cell[c] \in Content /\ base.cell[c] \in Content
        BY <2>1, <2>2 DEF Doc
      <3>2. t.sent.cell[c].code = base.cell[c].code /\ t.sent.cell[c].out = base.cell[c].out
        BY <2>1, <2>2, <2>4
      <3>3. t.sent.cell[c] = base.cell[c]
        BY <3>1, <3>2, SameContent
      <3> QED BY <1>1, <1>3, <3>3 DEF Replaces
    <2> QED BY <1>1, <1>2, <2>3, <2>4 DEF ThreadAgrees
  <1>4. CASE ~(t.kind = "sync" /\ ~t.mixed)
    <2>1. BaseAgrees(n, later)
      BY <1>1, <1>4 DEF BaseAgrees
    <2> QED BY <1>1, <1>2, <1>4, <2>1 DEF ThreadAgrees
  <1> QED BY <1>3, <1>4

\* A store of a new revision, by a thread that has read `read`.
LEMMA StoreFits ==
    ASSUME IInv, NEW read, NEW s \in State, StoreState(read, s),
           \/ read = NoState /\ s.rev = 0
           \/ read \in State /\ s.rev = read.rev + 1
    PROVE  /\ overwritten => overwritten'
           /\ Grows(snap, snap')
           /\ state' = s
           /\ \A n \in Revision : snap'[n] \in {snap[n], s.doc}
           /\ ~overwritten' => TablesAgree(state', snap') /\ snap'[s.rev] = s.doc
  <1>1. snap \in [Revision -> Doc \cup {NoDoc}]
    BY Facts
  <1>2. /\ state' = s
        /\ snap' = IF snap[s.rev] = NoDoc THEN [snap EXCEPT ![s.rev] = s.doc] ELSE snap
        /\ overwritten' = (overwritten \/ state \notin {read, s})
    BY DEF StoreState
  <1>3. s.rev \in Revision /\ s.doc # NoDoc /\ s # NoState
    BY StatesAreSomething, DocsAreSomething DEF Revision
  <1>5. Grows(snap, snap') /\ \A n \in Revision : snap'[n] \in {snap[n], s.doc}
    BY <1>1, <1>2, <1>3 DEF Grows
  <1>6. ASSUME ~overwritten'
        PROVE  TablesAgree(state', snap') /\ snap'[s.rev] = s.doc
    <2>1. TablesAgree(state, snap) /\ state \in {read, s}
      BY <1>2, <1>6, Facts
    <2>2. snap'[s.rev] = s.doc
      <3>1. CASE state = s
        BY <1>2, <1>3, <2>1, <3>1 DEF TablesAgree
      <3>2. CASE state = read /\ state # s
        <4>1. snap[s.rev] = NoDoc
          <5>1. CASE read = NoState
            BY <1>3, <2>1, <3>2, <5>1 DEF TablesAgree
          <5>2. CASE read \in State /\ s.rev = read.rev + 1
            <6>1. read.rev \in Int
              BY <5>2 DEF State
            <6>2. s.rev > state.rev
              BY <3>2, <5>2, <6>1
            <6> QED BY <1>3, <2>1, <6>2 DEF TablesAgree
          <5> QED BY <5>1, <5>2
        <4> QED BY <1>1, <1>2, <1>3, <4>1
      <3> QED BY <2>1, <3>1, <3>2
    <2>3. \A n \in Revision : n > s.rev => snap'[n] = NoDoc
      <3> SUFFICES ASSUME NEW n \in Revision, n > s.rev PROVE snap'[n] = NoDoc
        OBVIOUS
      <3>1. n # s.rev /\ n \in Int /\ s.rev \in Int
        BY <1>3 DEF Revision
      <3>2. snap'[n] = snap[n]
        BY <1>1, <1>2, <1>3, <3>1
      <3>3. state = NoState \/ n > state.rev
        <4>1. CASE state = s
          BY <4>1
        <4>2. CASE state = read /\ read \in State /\ s.rev = read.rev + 1
          <5>1. read.rev \in Int
            BY <4>2 DEF State
          <5> QED BY <3>1, <4>2, <5>1
        <4> QED BY <2>1, <4>1, <4>2
      <3> QED BY <2>1, <3>2, <3>3 DEF TablesAgree
    <2> QED BY <1>2, <1>3, <2>2, <2>3 DEF TablesAgree
  <1> QED BY <1>2, <1>5, <1>6

LEMMA ReadKeeps ==
    ASSUME IInv, NEW u \in User, ReadState(u)
    PROVE  Agreement'
  <1>1. PICK t : t = thread[u]
    OBVIOUS
  <1>2. TypedThread(t) /\ t.at = "read"
    BY <1>1, Facts, Parts DEF ReadState, At
  <1>3. PICK place : place = "load file"
    BY Zenon
  <1>4. place \notin {"create", "store", "save", "answer"}
    BY <1>3, Zenon
  <1>5. PICK waiting, going : /\ waiting = [t EXCEPT !.at = place]
                              /\ going = Going(t, state, u)
    OBVIOUS
  <1>6. thread' = [thread EXCEPT ![u] = IF state = NoState THEN waiting ELSE going]
    BY <1>1, <1>3, <1>5, Zenon DEF ReadState, Step, Going
  <1>7. UNCHANGED tables /\ UNCHANGED browser
    BY Zenon DEF ReadState
  <1>8. snap' = snap /\ overwritten' = overwritten
    BY <1>7 DEF tables
  <1>9. /\ thread'[u] = IF state = NoState THEN waiting ELSE going
        /\ \A v \in User : v # u => thread'[v] = thread[v]
    BY <1>6, Facts, OneThread
  <1>10. ASSUME ~overwritten
         PROVE  ThreadAgrees(thread'[u], snap)
    <2>1. ThreadAgrees(t, snap) /\ TablesAgree(state, snap)
      BY <1>1, <1>10, Facts
    <2>2. CASE state = NoState
      <3>1. /\ waiting.at = place /\ waiting.kind = t.kind /\ waiting.base = t.base
            /\ waiting.sent = t.sent /\ waiting.own = t.own /\ waiting.mixed = t.mixed
        BY <1>2, <1>5 DEF TypedThread, Thread
      <3>2. ThreadAgrees(waiting, snap)
        BY <1>4, <2>1, <3>1 DEF ThreadAgrees, BaseAgrees
      <3> QED BY <1>9, <2>2, <3>2
    <2>3. CASE state # NoState
      <3>1. state \in State /\ snap[state.rev] = state.doc
        BY <2>1, <2>3, Facts DEF TypeOK, TablesAgree
      <3>2. BaseAgrees(t, snap) /\ Grows(snap, snap) /\ snap \in [Revision -> Doc \cup {NoDoc}]
        BY <2>1, Facts DEF ThreadAgrees, Grows
      <3>3. ThreadAgrees(going, snap)
        BY <1>2, <1>5, <3>1, <3>2, GoingOnAgrees
      <3> QED BY <1>9, <2>3, <3>3
    <2> QED BY <2>2, <2>3
  <1> QED BY <1>7, <1>8, <1>9, <1>10, SameTables, StepKeeps

LEMMA LoadFileKeeps ==
    ASSUME IInv, NEW u \in User, LoadFile(u)
    PROVE  Agreement'
  <1>1. PICK t, s : t = thread[u] /\ s = [rev |-> 0, doc |-> file]
    OBVIOUS
  <1>2. PICK n : n = [t EXCEPT !.at = "create", !.cur = s]
    OBVIOUS
  <1>3. /\ thread' = [thread EXCEPT ![u] = n] /\ UNCHANGED tables /\ UNCHANGED browser
    BY <1>1, <1>2, Zenon DEF LoadFile, Step
  <1>4. /\ n.at = "create" /\ n.cur.rev = 0 /\ n.kind = t.kind /\ n.base = t.base
        /\ n.sent = t.sent /\ n.own = t.own /\ n.mixed = t.mixed
    <2>1. t \in Thread
      BY <1>1, Facts, Parts DEF TypedThread
    <2> QED BY <1>1, <1>2, <2>1 DEF Thread
  <1>5. thread'[u] = n /\ \A v \in User : v # u => thread'[v] = thread[v]
    BY <1>3, Facts, OneThread
  <1>6. snap' = snap /\ overwritten' = overwritten
    BY <1>3 DEF tables
  <1>7. ~overwritten' => ThreadAgrees(n, snap')
    BY <1>1, <1>4, <1>6, Facts DEF ThreadAgrees, BaseAgrees
  <1> QED BY <1>3, <1>5, <1>7, SameTables, StepKeeps

LEMMA CreateKeeps ==
    ASSUME IInv, NEW u \in User, Create(u)
    PROVE  Agreement'
  <1>1. PICK t, s : t = thread[u] /\ s = thread[u].cur
    OBVIOUS
  <1>2. TypedThread(t) /\ t.at = "create" /\ s \in State
    BY <1>1, Facts, Parts DEF Create, At, TypedThread, Thread
  <1>3. PICK n : n = Going(t, s, u)
    OBVIOUS
  <1>4. /\ thread' = [thread EXCEPT ![u] = n] /\ StoreState(NoState, s)
        /\ UNCHANGED browser /\ (overwritten => overwritten')
    BY <1>1, <1>3, Zenon DEF Create, Step, Going, StoreState
  <1>5. thread'[u] = n /\ \A v \in User : v # u => thread'[v] = thread[v]
    BY <1>4, Facts, OneThread
  <1>6. ASSUME ~overwritten'
        PROVE  TablesAgree(state', snap') /\ Grows(snap, snap') /\ ThreadAgrees(n, snap')
    <2>1. ThreadAgrees(t, snap) /\ snap \in [Revision -> Doc \cup {NoDoc}]
      BY <1>1, <1>4, <1>6, Facts
    <2>2. s.rev = 0 /\ BaseAgrees(t, snap)
      BY <1>1, <1>2, <2>1 DEF ThreadAgrees
    <2>3. TablesAgree(state', snap') /\ Grows(snap, snap') /\ snap'[s.rev] = s.doc
      BY <1>2, <1>4, <1>6, <2>2, StoreFits
    <2> QED BY <1>2, <1>3, <2>1, <2>2, <2>3, GoingOnAgrees
  <1> QED BY <1>4, <1>5, <1>6, StepKeeps

LEMMA StoredThread ==
    ASSUME IInv, NEW u \in User, StoreMerged(u)
    PROVE  LET t == thread[u]
               s == [rev |-> t.cur.rev + 1, doc |-> t.new]
               n == [t EXCEPT !.at = "save", !.cur = s]
           IN /\ TypedThread(t) /\ t.at = "store" /\ t.kind = "sync"
              /\ t.cur \in State /\ s \in State /\ s.rev = t.cur.rev + 1 /\ s.doc = t.new
              /\ StoreState(t.cur, s) /\ (overwritten => overwritten')
              /\ thread' = [thread EXCEPT ![u] = n]
              /\ n.at = "save" /\ n.kind = t.kind /\ n.base = t.base /\ n.sent = t.sent
              /\ n.own = t.own /\ n.mixed = t.mixed /\ n.cur = s /\ n.new = t.new
              /\ UNCHANGED <<file, browser, edits>> /\ alone' = alone \cap {u}
  <1>1. PICK t : t = thread[u]
    OBVIOUS
  <1>2. TypedThread(t) /\ t.at = "store"
    BY <1>1, Facts, Parts DEF StoreMerged, At
  <1>3. t \in Thread /\ t.cur \in State /\ t.new \in Doc /\ t.kind = "sync"
    BY <1>2 DEF TypedThread, Thread
  <1>4. PICK s : s = [rev |-> t.cur.rev + 1, doc |-> t.new]
    OBVIOUS
  <1>5. s \in State /\ s.rev = t.cur.rev + 1 /\ s.doc = t.new
    <2>1. t.cur.rev \in 0 .. MaxRev /\ t.cur.rev < MaxRev
      BY <1>1, <1>3 DEF State, StoreMerged
    <2>2. t.cur.rev + 1 \in 0 .. MaxRev
      BY <2>1, NotebookAssumption
    <2> QED BY <1>3, <1>4, <2>2 DEF State
  <1>6. PICK n : n = [t EXCEPT !.at = "save", !.cur = s]
    OBVIOUS
  <1>7. /\ n.at = "save" /\ n.kind = t.kind /\ n.base = t.base /\ n.sent = t.sent
        /\ n.own = t.own /\ n.mixed = t.mixed /\ n.cur = s /\ n.new = t.new
    BY <1>3, <1>6 DEF Thread
  <1>8. StoreState(t.cur, s) /\ thread' = [thread EXCEPT ![u] = n]
    BY <1>1, <1>4, <1>6, Zenon DEF StoreMerged, Step
  <1>9. UNCHANGED <<file, browser, edits>> /\ alone' = alone \cap {u}
    BY Zenon DEF StoreMerged
  <1>10. overwritten => overwritten'
    BY <1>8 DEF StoreState
  <1> QED BY <1>1, <1>2, <1>3, <1>4, <1>5, <1>6, <1>7, <1>8, <1>9, <1>10

LEMMA StoreKeeps ==
    ASSUME IInv, NEW u \in User, StoreMerged(u)
    PROVE  Agreement'
  <1>1. PICK t : t = thread[u]
    OBVIOUS
  <1>2. PICK s : s = [rev |-> t.cur.rev + 1, doc |-> t.new]
    OBVIOUS
  <1>3. PICK n : n = [t EXCEPT !.at = "save", !.cur = s]
    OBVIOUS
  <1>4. /\ TypedThread(t) /\ t.cur \in State /\ s \in State /\ s.rev = t.cur.rev + 1
        /\ StoreState(t.cur, s) /\ (overwritten => overwritten')
        /\ thread' = [thread EXCEPT ![u] = n] /\ browser' = browser
        /\ n.at = "save" /\ n.kind = t.kind /\ n.base = t.base /\ n.sent = t.sent
        /\ n.own = t.own /\ n.mixed = t.mixed /\ n.cur = s
    BY <1>1, <1>2, <1>3, StoredThread
  <1>5. thread'[u] = n /\ \A v \in User : v # u => thread'[v] = thread[v]
    BY <1>4, Facts, OneThread
  <1>6. ASSUME ~overwritten'
        PROVE  TablesAgree(state', snap') /\ Grows(snap, snap') /\ ThreadAgrees(n, snap')
    <2>1. ThreadAgrees(t, snap) /\ snap \in [Revision -> Doc \cup {NoDoc}]
      BY <1>1, <1>4, <1>6, Facts
    <2>2. TablesAgree(state', snap') /\ Grows(snap, snap') /\ snap'[s.rev] = s.doc
      BY <1>4, <1>6, StoreFits
    <2>3. ThreadAgrees(t, snap')
      BY <1>4, <2>1, <2>2, ThreadsStayAgreed
    <2> QED BY <1>4, <2>2, <2>3 DEF ThreadAgrees, BaseAgrees
  <1> QED BY <1>4, <1>5, <1>6, StepKeeps

LEMMA IdleAgrees ==
    ASSUME NEW sn
    PROVE  ThreadAgrees(Idle, sn)
  BY DEF Idle, ThreadAgrees, BaseAgrees

LEMMA SaveKeeps ==
    ASSUME IInv, NEW u \in User, SaveFile(u)
    PROVE  Agreement'
  <1>1. PICK t, n : t = thread[u] /\ n = Answering(u)
    OBVIOUS
  <1>2. /\ At(u, "save") /\ thread' = [thread EXCEPT ![u] = n]
        /\ UNCHANGED tables /\ UNCHANGED browser
    BY <1>1, Zenon DEF SaveFile, Step
  <1>3. thread'[u] = n /\ \A v \in User : v # u => thread'[v] = thread[v]
    BY <1>2, Facts, OneThread
  <1>4. snap' = snap /\ overwritten' = overwritten
    BY <1>2 DEF tables
  <1>5. ASSUME ~overwritten PROVE ThreadAgrees(n, snap)
    <2>1. ThreadAgrees(t, snap) /\ t.at = "save"
      BY <1>1, <1>2, <1>5, Facts DEF At
    <2>2. n = Idle \/ (n.at = "answer" /\ AnswersOf(t, n))
      BY <1>1, <1>2, Facts, AnsweringThread
    <2>3. CASE n = Idle
      BY <2>3, IdleAgrees
    <2>4. CASE n.at = "answer" /\ AnswersOf(t, n)
      BY <2>1, <2>4 DEF AnswersOf, ThreadAgrees, BaseAgrees
    <2> QED BY <2>2, <2>3, <2>4
  <1> QED BY <1>2, <1>3, <1>4, <1>5, SameTables, StepKeeps

LEMMA DeliverKeeps ==
    ASSUME IInv, NEW u \in User, NEW v \in User, Deliver(u, v)
    PROVE  Agreement'
  <1>1. PICK b : Answers(u, v, b)
    BY Facts, DeliverPage
  <1>2. PICK t, n : t = thread[u] /\ n = thread'[u]
    OBVIOUS
  <1>3. /\ thread' = [thread EXCEPT ![u] = n] /\ Goes(t, n) /\ UNCHANGED tables
    BY <1>2, Facts, DeliverThread
  <1>4. /\ browser' = [browser EXCEPT ![v] = b] /\ (b = browser[v] \/ Takes(browser[v], b, t.cur))
    BY <1>1, <1>2 DEF Answers
  <1>5. snap' = snap /\ overwritten' = overwritten
    BY <1>3 DEF tables
  <1>6. ASSUME ~overwritten
        PROVE  ThreadAgrees(n, snap) /\ PageAgrees(b, snap)
    <2>1. ThreadAgrees(t, snap) /\ PageAgrees(browser[v], snap)
      BY <1>2, <1>6, Facts
    <2>2. TypedThread(t) /\ t.at = "answer"
      BY <1>2, Facts, Parts DEF Deliver, At
    <2>3. t.cur \in State
      BY <2>2 DEF TypedThread, Thread
    <2>4. snap[t.cur.rev] = t.cur.doc /\ t.cur.doc # NoDoc
      BY <2>1, <2>2, <2>3, StatesAreSomething, DocsAreSomething DEF ThreadAgrees
    <2>5. PageAgrees(b, snap)
      BY <1>4, <2>1, <2>4 DEF Takes, PageAgrees
    <2> QED BY <1>3, <2>1, <2>5, GoingAgrees
  <1>7. /\ \A w \in User : w # u => thread'[w] = thread[w]
        /\ browser'[v] = b /\ \A w \in User : w # v => browser'[w] = browser[w]
    BY <1>3, <1>4, Facts, OneThread, OnePage
  <1> QED BY <1>2, <1>3, <1>5, <1>6, <1>7, SameTables, StepKeeps

LEMMA PlainSaveKeeps ==
    ASSUME IInv, NEW c \in Cell, PlainSave(c)
    PROVE  Agreement'
  <1>1. UNCHANGED <<tables, thread, browser>>
    BY DEF PlainSave
  <1> QED BY <1>1, SameTables, StepKeeps

LEMMA InitAgrees == Init => Agreement
  <1> SUFFICES ASSUME Init PROVE Agreement
    OBVIOUS
  <1>1. /\ state = NoState /\ snap = [n \in Revision |-> NoDoc]
        /\ \A u \in User : thread[u] = Idle /\ browser[u] = Blank
    BY DEF Init, Revision
  <1>2. TablesAgree(state, snap)
    BY <1>1 DEF TablesAgree
  <1>3. PageAgrees(Blank, snap)
    BY DEF Blank, PageAgrees
  <1> QED BY <1>1, <1>2, <1>3, IdleAgrees DEF Agreement

LEMMA NextKeeps == IInv /\ [Next]_vars => IInv'
  <1> SUFFICES ASSUME IInv, [Next]_vars PROVE Agreement'
    BY NextTyped DEF IInv
  <1>1. ASSUME NEW u \in User,
               \/ Open(u) \/ Connect(u) \/ Send(u) \/ Poll(u)
               \/ \E c \in Cell : Edit(u, c) \/ AddCell(u, c) \/ DeleteCell(u, c)
               \/ \E c \in Cell, out \in RunOutput, live \in BOOLEAN : RunCell(u, c, out, live)
        PROVE  Agreement'
    BY <1>1, Facts, AnyBrowserStep, BrowserKeeps
  <1>2. ASSUME NEW u \in User, Serve(u)
        PROVE  Agreement'
    BY <1>2, ReadKeeps, LoadFileKeeps, CreateKeeps, StoreKeeps, SaveKeeps, DeliverKeeps DEF Serve
  <1>3. ASSUME Crash \/ \E u \in User : Fail(u) \/ Disconnect(u)
        PROVE  Agreement'
    BY <1>3, Facts, AnyFaultStep, FaultKeeps
  <1>4. ASSUME NEW c \in Cell, PlainSave(c)
        PROVE  Agreement'
    BY <1>4, PlainSaveKeeps
  <1>5. ASSUME UNCHANGED vars PROVE Agreement'
    <2>1. UNCHANGED <<tables, thread, browser>>
      BY <1>5 DEF vars
    <2> QED BY <2>1, SameTables, StepKeeps
  <1> QED BY <1>1, <1>2, <1>3, <1>4, <1>5 DEF Next

LEMMA Invariance == Spec => []IInv
  <1>1. Init => IInv
    BY InitTyped, InitAgrees DEF IInv
  <1> QED BY <1>1, NextKeeps, PTL DEF Spec

(* Revisions identify codes, with cells edited, added and deleted, outputs *)
(* that only one page shows, requests that fail and sockets that are lost: *)
(* unless a store has replaced a state that its thread had not read, what  *)
(* a page shows and has not changed itself has the codes of the snapshot   *)
(* that the server takes as the base of its next sync. (sync, _store_state,*)
(* renderNotebook, pollNotebookState.)                                     *)
THEOREM RevisionsIdentifyContents == Spec => []BasesAreTrue
  <1>1. IInv => BasesAreTrue
    BY DEF IInv, Agreement, PageAgrees, BasesAreTrue
  <1> QED BY <1>1, Invariance, PTL

\* Only a store takes a request from "store" to "save".
LEMMA OnlyStoring ==
    ASSUME IInv, [Next]_vars, NEW u \in User,
           thread[u].at = "store", thread'[u].at = "save"
    PROVE  StoreMerged(u)
  <1> SUFFICES ASSUME ~StoreMerged(u) PROVE FALSE
    OBVIOUS
  <1>1. thread'[u] # thread[u] /\ ~Goes(thread[u], thread'[u])
    BY DEF Goes, Plain, Continues
  <1>2. ASSUME NEW w \in User, BrowserStep(w)
        PROVE  FALSE
    <2>1. PICK t, n : BrowserMoves(w, t, n)
      BY <1>2 DEF BrowserStep
    <2>2. thread' = [thread EXCEPT ![w] = t] /\ (Goes(thread[w], t) \/ Sends(n, t))
      BY <2>1 DEF BrowserMoves
    <2>3. thread'[w] = t /\ (w # u => thread'[u] = thread[u])
      BY <2>2, Facts, OneThread
    <2> QED BY <1>1, <2>2, <2>3 DEF Sends
  <1>3. ASSUME FaultStep
        PROVE  FALSE
    BY <1>1, <1>3 DEF FaultStep
  <1>4. ASSUME NEW w \in User, Serve(w)
        PROVE  FALSE
    <2>1. CASE \E v \in User : Deliver(w, v)
      <3>1. PICK v \in User : Deliver(w, v)
        BY <2>1
      <3>2. PICK n : n = thread'[w]
        OBVIOUS
      <3>3. thread' = [thread EXCEPT ![w] = n] /\ Goes(thread[w], n)
        BY <3>1, <3>2, Facts, DeliverThread
      <3>4. w # u => thread'[u] = thread[u]
        BY <3>3, Facts, OneThread
      <3> QED BY <1>1, <3>2, <3>3, <3>4
    <2>2. CASE ReadState(w) \/ LoadFile(w) \/ Create(w) \/ SaveFile(w)
      <3>1. thread[w].at # "store"
        BY <2>2 DEF ReadState, LoadFile, Create, SaveFile, At
      <3>2. \E n : thread' = [thread EXCEPT ![w] = n]
        BY <2>2 DEF ReadState, LoadFile, Create, SaveFile, Step
      <3>3. w # u => thread'[u] = thread[u]
        BY <3>2, Facts, OneThread
      <3> QED BY <1>1, <3>1, <3>3
    <2>3. CASE StoreMerged(w)
      <3>1. \E n : thread' = [thread EXCEPT ![w] = n]
        BY <2>3 DEF StoreMerged, Step
      <3>2. w # u => thread'[u] = thread[u]
        BY <3>1, Facts, OneThread
      <3> QED BY <1>1, <2>3, <3>2
    <2> QED BY <1>4, <2>1, <2>2, <2>3 DEF Serve
  <1>5. ASSUME \/ UNCHANGED vars
               \/ \E c \in Cell : PlainSave(c)
        PROVE  FALSE
    BY <1>1, <1>5 DEF vars, PlainSave
  <1>6. ASSUME NEW w \in User,
               \/ Open(w) \/ Connect(w) \/ Send(w) \/ Poll(w)
               \/ \E c \in Cell : Edit(w, c) \/ AddCell(w, c) \/ DeleteCell(w, c)
               \/ \E c \in Cell, out \in RunOutput, live \in BOOLEAN : RunCell(w, c, out, live)
        PROVE  FALSE
    BY <1>2, <1>6, Facts, AnyBrowserStep
  <1>7. ASSUME Crash \/ \E w \in User : Fail(w) \/ Disconnect(w)
        PROVE  FALSE
    BY <1>3, <1>7, Facts, AnyFaultStep
  <1> QED BY <1>4, <1>5, <1>6, <1>7 DEF Next

(* A merge that is stored on the state it was made for leaves a cell its   *)
(* user has not touched as it is in that state - edited, added or deleted  *)
(* by somebody else, however old the base was - if the page showed the     *)
(* output of the base with it. With another output, _merge_cells takes the *)
(* whole cell from the page, and this is not promised. (_merge_cells,      *)
(* collectCells.)                                                          *)
THEOREM SyncsAreGentle == Spec => SyncsKeepOthersEdits
  <1> DEFINE Gentle(u) ==
               (At(u, "store") /\ thread'[u].at = "save" /\ ~thread[u].mixed /\ ~overwritten'
                  /\ state = thread[u].cur)
               => \A c \in Cell \ thread[u].own :
                    thread[u].sent.cell[c].out = snap[thread[u].base].cell[c].out =>
                      state'.doc.cell[c] = state.doc.cell[c]
  <1>1. ASSUME IInv, [Next]_vars, NEW u \in User
        PROVE  Gentle(u)
    <2> SUFFICES ASSUME thread[u].at = "store", thread'[u].at = "save", ~thread[u].mixed,
                        ~overwritten', state = thread[u].cur, NEW c \in Cell \ thread[u].own,
                        thread[u].sent.cell[c].out = snap[thread[u].base].cell[c].out
                 PROVE  state'.doc.cell[c] = state.doc.cell[c]
      BY DEF At
    <2>1. StoreMerged(u)
      BY <1>1, OnlyStoring
    <2>2. state'.doc = thread[u].new /\ ~overwritten
      BY <2>1 DEF StoreMerged, StoreState
    <2>3. ThreadAgrees(thread[u], snap)
      BY <1>1, <2>2, Facts
    <2> QED BY <2>2, <2>3 DEF ThreadAgrees
  <1>2. IInv /\ [Next]_vars => [\A u \in User : Gentle(u)]_vars
    BY <1>1
  <1>3. Spec => [][\A u \in User : Gentle(u)]_vars
    BY <1>2, Invariance, PTL DEF Spec
  <1> QED BY <1>3 DEF SyncsKeepOthersEdits

-----------------------------------------------------------------------------
(* A sync that nobody disturbs. What a user types is new: no document holds *)
(* the code of a change that is still to be made, so the base of a page    *)
(* never has what the page changed, and the merge takes all of it. While   *)
(* nobody else writes, the state stays the one the request has read.       *)

DocFresh(d, ed) ==
  \A c \in Cell, w \in User : \A k \in Nat : d.cell[c].code = <<w, k>> => k > ed[w]

ThreadFresh(t, ed) ==
  /\ t.at \in {"create", "store", "save", "answer"} => DocFresh(t.cur.doc, ed)
  /\ t.at = "store" => DocFresh(t.new, ed)
  /\ t.kind = "sync" => DocFresh(t.sent, ed)
PageFresh(b, ed) == b.open => DocFresh(b.cells, ed)

Fresh ==
  /\ state # NoState => DocFresh(state.doc, edits)
  /\ \A n \in Revision : snap[n] # NoDoc => DocFresh(snap[n], edits)
  /\ DocFresh(file, edits)
  /\ \A u \in User : ThreadFresh(thread[u], edits) /\ PageFresh(browser[u], edits)

\* A code that is not that of the base, where there is a cell at all.
Differs(doc, base, c) ==
  doc.cell[c].code # Absent \/ base.cell[c].code # Absent =>
    doc.cell[c].code # base.cell[c].code
Changed(doc, base, c) == doc.cell[c].code # base.cell[c].code

\* What the user of a page or a request has changed, its base does not have,
\* and what a sync has merged does.
PageOwn(b, sn) ==
  (b.open /\ ~b.mixed) => \A c \in b.touched : Differs(b.cells, sn[b.rev], c)
ThreadOwn(t, sn) ==
  (t.kind = "sync" /\ ~t.mixed) =>
     \A c \in t.own :
       /\ Differs(t.sent, sn[t.base], c)
       /\ Changed(t.sent, sn[t.base], c) =>
            /\ t.at = "store" => t.new.cell[c].code = t.sent.cell[c].code
            /\ t.at \in {"save", "answer"} => t.cur.doc.cell[c].code = t.sent.cell[c].code

OwnChanges ==
  ~overwritten => \A u \in User : ThreadOwn(thread[u], snap) /\ PageOwn(browser[u], snap)

\* A request during which nobody else has written, and the newest state.
Undisturbed(t, s, f) ==
  t.kind = "sync" =>
    /\ t.at \notin {"idle", "read", "store", "save", "answer"} => s = NoState
    /\ t.at \in {"store", "save", "answer"} => s = t.cur
    /\ t.at = "answer" => f = s.doc

AloneFits == \A u \in alone : Undisturbed(thread[u], state, file)

Solo == Fresh /\ OwnChanges /\ AloneFits

LEMMA StaysFresh ==
    ASSUME NEW d, NEW ed, NEW later, ed \in [User -> Nat], later \in [User -> Nat],
           \A w \in User : later[w] <= ed[w], DocFresh(d, ed)
    PROVE  DocFresh(d, later)
  <1> SUFFICES ASSUME NEW c \in Cell, NEW w \in User, NEW k \in Nat, d.cell[c].code = <<w, k>>
               PROVE  k > later[w]
    BY DEF DocFresh
  <1>1. k > ed[w] /\ ed[w] \in Nat /\ later[w] \in Nat /\ later[w] <= ed[w]
    BY DEF DocFresh
  <1> QED BY <1>1

LEMMA SameCodesFresh ==
    ASSUME NEW d, NEW e, NEW ed, DocFresh(d, ed),
           \A c \in Cell : e.cell[c].code = d.cell[c].code
    PROVE  DocFresh(e, ed)
  BY DEF DocFresh

LEMMA SoloFacts ==
    ASSUME IInv, Solo, NEW u \in User
    PROVE  /\ ThreadFresh(thread[u], edits) /\ PageFresh(browser[u], edits)
           /\ ~overwritten => ThreadOwn(thread[u], snap) /\ PageOwn(browser[u], snap)
           /\ u \in alone => Undisturbed(thread[u], state, file)
           /\ edits \in [User -> Nat] /\ alone \subseteq User
  BY DEF Solo, Fresh, OwnChanges, AloneFits, IInv, TypeOK

\* A step keeps the second invariant if it does so for what it changes.
LEMMA SoloStep ==
    ASSUME IInv, Solo,
           overwritten => overwritten', ~overwritten' => Grows(snap, snap'),
           edits' \in [User -> Nat], \A w \in User : edits'[w] <= edits[w],
           state' = state \/ DocFresh(state'.doc, edits'),
           \A n \in Revision : snap'[n] = snap[n] \/ DocFresh(snap'[n], edits'),
           file' = file \/ DocFresh(file', edits'),
           \A u \in User : \/ thread'[u] = thread[u]
                           \/ /\ ThreadFresh(thread'[u], edits')
                              /\ ~overwritten' => ThreadOwn(thread'[u], snap'),
           \A u \in User : \/ browser'[u] = browser[u]
                           \/ /\ PageFresh(browser'[u], edits')
                              /\ ~overwritten' => PageOwn(browser'[u], snap'),
           AloneFits'
    PROVE  Solo'
  <1>1. edits \in [User -> Nat]
    BY Facts DEF TypeOK
  <1>2. \A d : DocFresh(d, edits) => DocFresh(d, edits')
    BY <1>1, StaysFresh
  <1>3. \A u \in User : ThreadFresh(thread[u], edits') /\ PageFresh(browser[u], edits')
    BY <1>2 DEF Solo, Fresh, ThreadFresh, PageFresh
  <1>4. Fresh'
    BY <1>2, <1>3 DEF Solo, Fresh
  <1>5. ASSUME ~overwritten', NEW u \in User
        PROVE  ThreadOwn(thread[u], snap') /\ PageOwn(browser[u], snap')
    <2>1. /\ ThreadOwn(thread[u], snap) /\ PageOwn(browser[u], snap)
          /\ ThreadAgrees(thread[u], snap) /\ PageAgrees(browser[u], snap)
          /\ TypedThread(thread[u]) /\ TypedPage(browser[u]) /\ Grows(snap, snap')
      BY <1>5, Facts, Parts DEF Solo, OwnChanges
    <2>2. (browser[u].open /\ ~browser[u].mixed) => snap'[browser[u].rev] = snap[browser[u].rev]
      BY <2>1 DEF PageAgrees, TypedPage, Page, Grows, Revision
    <2>3. (thread[u].kind = "sync" /\ ~thread[u].mixed) =>
             snap'[thread[u].base] = snap[thread[u].base]
      BY <2>1 DEF ThreadAgrees, BaseAgrees, TypedThread, Thread, Grows, Revision
    <2> QED BY <2>1, <2>2, <2>3 DEF ThreadOwn, PageOwn
  <1>6. OwnChanges'
    BY <1>5 DEF OwnChanges
  <1> QED BY <1>4, <1>6 DEF Solo

\* Requests that go on.
LEMMA GoingSolo ==
    ASSUME NEW t, NEW n, Goes(t, n), NEW ed, NEW sn, NEW s, NEW f
    PROVE  /\ ThreadFresh(t, ed) => ThreadFresh(n, ed)
           /\ ThreadOwn(t, sn) => ThreadOwn(n, sn)
           /\ Undisturbed(t, s, f) => Undisturbed(n, s, f)
  <1>1. CASE Plain(n)
    BY <1>1 DEF Plain, ThreadFresh, ThreadOwn, Undisturbed
  <1>2. CASE Continues(t, n)
    BY <1>2 DEF Continues, ThreadFresh, ThreadOwn, Undisturbed
  <1> QED BY <1>1, <1>2 DEF Goes

LEMMA SendingSolo ==
    ASSUME NEW b, NEW n, Sends(b, n), NEW ed, NEW sn, NEW s, NEW f
    PROVE  /\ PageFresh(b, ed) => ThreadFresh(n, ed)
           /\ PageOwn(b, sn) => ThreadOwn(n, sn)
           /\ Undisturbed(n, s, f)
  BY DEF Sends, PageFresh, PageOwn, ThreadFresh, ThreadOwn, Undisturbed

\* Pages that are changed by their users.
LEMMA KeepingSolo ==
    ASSUME NEW b, NEW n, Keeps(b, n), TypedPage(b), NEW ed, NEW sn
    PROVE  /\ PageFresh(b, ed) => PageFresh(n, ed)
           /\ PageOwn(b, sn) => PageOwn(n, sn)
  <1>1. b.touched \subseteq Cell
    BY DEF TypedPage, Page
  <1>2. b.open => \A c \in Cell : n.cells.cell[c].code = b.cells.cell[c].code
    BY DEF Keeps
  <1>3. PageFresh(b, ed) => PageFresh(n, ed)
    BY <1>2, SameCodesFresh DEF Keeps, PageFresh
  <1>4. PageOwn(b, sn) => PageOwn(n, sn)
    BY <1>1, <1>2 DEF Keeps, PageOwn, Differs
  <1> QED BY <1>3, <1>4

\* A code that is none of a change still to be made.
Newer(x, ed) == \A w \in User : \A k \in Nat : x = <<w, k>> => k > ed[w]

LEMMA AlteringSolo ==
    ASSUME NEW b, NEW n, NEW c \in Cell, NEW x, Alters(b, n, c, x), b.open, TypedPage(b),
           NEW ed, NEW sn, Newer(x, ed)
    PROVE  /\ PageFresh(b, ed) => PageFresh(n, ed)
           /\ (PageOwn(b, sn) /\ (x = Absent \/ sn[b.rev].cell[c].code # x)) => PageOwn(n, sn)
  <1>1. /\ n.open /\ n.rev = b.rev /\ n.mixed = b.mixed /\ n.touched = b.touched \cup {c}
        /\ n.cells.cell[c].code = x
        /\ \A d \in Cell : d # c => n.cells.cell[d].code = b.cells.cell[d].code
    BY DEF Alters, Recodes
  <1>2. ASSUME DocFresh(b.cells, ed)
        PROVE  DocFresh(n.cells, ed)
    <2> SUFFICES ASSUME NEW d \in Cell, NEW w \in User, NEW k \in Nat,
                        n.cells.cell[d].code = <<w, k>>
                 PROVE  k > ed[w]
      BY DEF DocFresh
    <2>1. CASE d = c
      BY <1>1, <2>1 DEF Newer
    <2>2. CASE d # c
      BY <1>1, <1>2, <2>2 DEF DocFresh
    <2> QED BY <2>1, <2>2
  <1>3. ASSUME PageOwn(b, sn), x = Absent \/ sn[b.rev].cell[c].code # x
        PROVE  PageOwn(n, sn)
    <2> SUFFICES ASSUME ~b.mixed, NEW d \in b.touched \cup {c}
                 PROVE  Differs(n.cells, sn[b.rev], d)
      BY <1>1 DEF PageOwn
    <2>1. CASE d = c
      BY <1>1, <1>3, <2>1 DEF Differs
    <2>2. CASE d # c
      <3>1. d \in b.touched /\ d \in Cell
        BY <2>2 DEF TypedPage, Page
      <3> QED BY <1>1, <1>3, <2>2, <3>1 DEF PageOwn, Differs
    <2> QED BY <2>1, <2>2
  <1> QED BY <1>1, <1>2, <1>3 DEF PageFresh

LEMMA ChangingSolo ==
    ASSUME NEW u \in User, NEW b, NEW n, Changes(u, b, n), TypedPage(b), NEW sn,
           edits \in [User -> Nat], edits' \in [User -> Nat],
           \A w \in User : edits'[w] <= edits[w],
           PageFresh(b, edits)
    PROVE  /\ PageFresh(n, edits')
           /\ (PageOwn(b, sn) /\ (b.open /\ ~b.mixed => DocFresh(sn[b.rev], edits)))
                => PageOwn(n, sn)
  <1>1. PageFresh(b, edits')
    BY StaysFresh DEF PageFresh
  <1>2. CASE Keeps(b, n)
    BY <1>1, <1>2, KeepingSolo
  <1>3. ASSUME b.open, NEW c \in Cell, Alters(b, n, c, Absent)
        PROVE  PageFresh(n, edits') /\ (PageOwn(b, sn) => PageOwn(n, sn))
    <2>1. Newer(Absent, edits')
      BY NotebookAssumption DEF Newer
    <2> QED BY <1>1, <1>3, <2>1, AlteringSolo
  <1>4. ASSUME b.open, edits'[u] < edits[u], NEW c \in Cell, Alters(b, n, c, <<u, edits[u]>>)
        PROVE  /\ PageFresh(n, edits')
               /\ (PageOwn(b, sn) /\ (~b.mixed => DocFresh(sn[b.rev], edits))) => PageOwn(n, sn)
    <2>1. PICK x : x = <<u, edits[u]>>
      OBVIOUS
    <2>0. Alters(b, n, c, x)
      BY <1>4, <2>1
    <2>2. Newer(x, edits')
      BY <1>4, <2>1 DEF Newer
    <2>3. PageFresh(n, edits')
      BY <1>1, <1>4, <2>0, <2>2, AlteringSolo
    <2>4. ASSUME PageOwn(b, sn), ~b.mixed, DocFresh(sn[b.rev], edits)
          PROVE  PageOwn(n, sn)
      <3>1. edits[u] \in Nat
        OBVIOUS
      <3>2. sn[b.rev].cell[c].code # x
        BY <2>1, <2>4, <3>1 DEF DocFresh
      <3> QED BY <1>4, <2>0, <2>2, <2>4, <3>2, AlteringSolo
    <2>5. b.mixed => PageOwn(n, sn)
      BY <1>4 DEF Alters, PageOwn
    <2> QED BY <2>3, <2>4, <2>5
  <1> QED BY <1>2, <1>3, <1>4 DEF Changes

LEMMA BrowserSolo ==
    ASSUME IInv, Solo, NEW u \in User, BrowserStep(u)
    PROVE  Solo'
  <1>1. PICK t, n : BrowserMoves(u, t, n)
    BY DEF BrowserStep
  <1>2. /\ UNCHANGED <<tables, file>>
        /\ thread' = [thread EXCEPT ![u] = t] /\ browser' = [browser EXCEPT ![u] = n]
        /\ Goes(thread[u], t) \/ Sends(n, t)
        /\ Changes(u, browser[u], n)
        /\ edits' \in [User -> Nat] /\ \A w \in User : edits'[w] <= edits[w]
        /\ alone' = alone \/ (alone' = alone \cup {u} /\ t.at = "read")
    BY <1>1 DEF BrowserMoves
  <1>3. UNCHANGED <<state, snap, overwritten, file>>
    BY <1>2 DEF tables
  <1>4. /\ thread'[u] = t /\ \A v \in User : v # u => thread'[v] = thread[v]
        /\ browser'[u] = n /\ \A v \in User : v # u => browser'[v] = browser[v]
    BY <1>2, Facts, OneThread, OnePage
  <1>5. /\ TypedPage(browser[u]) /\ edits \in [User -> Nat] /\ alone \subseteq User
        /\ ThreadFresh(thread[u], edits) /\ PageFresh(browser[u], edits)
        /\ ~overwritten => ThreadOwn(thread[u], snap) /\ PageOwn(browser[u], snap)
        /\ u \in alone => Undisturbed(thread[u], state, file)
    BY Facts, Parts, SoloFacts
  <1>6. PageFresh(n, edits')
    BY <1>2, <1>5, ChangingSolo
  <1>7. ASSUME ~overwritten
        PROVE  PageOwn(n, snap)
    <2>1. PICK b : b = browser[u]
      OBVIOUS
    <2>2. b.open /\ ~b.mixed => DocFresh(snap[b.rev], edits)
      <3>1. PageAgrees(b, snap) /\ b.rev \in Revision
        BY <1>5, <1>7, <2>1, Facts DEF TypedPage, Page, Revision
      <3> QED BY <3>1 DEF PageAgrees, Solo, Fresh
    <2> QED BY <1>2, <1>5, <1>7, <2>1, <2>2, ChangingSolo
  <1>8. ThreadFresh(thread[u], edits')
    BY <1>2, <1>5, StaysFresh DEF ThreadFresh
  <1>9. ThreadFresh(t, edits') /\ (~overwritten => ThreadOwn(t, snap))
    BY <1>2, <1>5, <1>6, <1>7, <1>8, GoingSolo, SendingSolo
  <1>10. AloneFits'
    <2> SUFFICES ASSUME NEW v \in alone' PROVE Undisturbed(thread'[v], state, file)
      BY <1>3 DEF AloneFits
    <2>1. CASE v = u /\ v \in alone
      <3>1. Undisturbed(thread[u], state, file)
        BY <1>5, <2>1
      <3>2. Undisturbed(t, state, file)
        BY <1>2, <3>1, GoingSolo, SendingSolo
      <3> QED BY <1>4, <2>1, <3>2
    <2>2. CASE v = u /\ t.at = "read"
      BY <1>4, <2>2 DEF Undisturbed
    <2>3. CASE v # u
      <3>1. v \in alone /\ v \in User
        BY <1>2, <1>5, <2>3
      <3> QED BY <1>4, <2>3, <3>1 DEF Solo, AloneFits
    <2> QED BY <1>2, <2>1, <2>2, <2>3
  <1>11. \A v \in User : \/ thread'[v] = thread[v]
                         \/ /\ ThreadFresh(thread'[v], edits')
                            /\ ~overwritten' => ThreadOwn(thread'[v], snap')
    BY <1>3, <1>4, <1>9
  <1>12. \A v \in User : \/ browser'[v] = browser[v]
                         \/ /\ PageFresh(browser'[v], edits')
                            /\ ~overwritten' => PageOwn(browser'[v], snap')
    BY <1>3, <1>4, <1>6, <1>7
  <1>13. /\ overwritten => overwritten'
         /\ ~overwritten' => Grows(snap, snap')
    BY <1>2, SameTables
  <1> QED BY <1>2, <1>3, <1>10, <1>11, <1>12, <1>13, SoloStep

LEMMA FaultSolo ==
    ASSUME IInv, Solo, FaultStep
    PROVE  Solo'
  <1>1. UNCHANGED <<tables, file, edits>> /\ (alone' = alone \/ alone' = {})
    BY DEF FaultStep
  <1>2. UNCHANGED <<state, snap, overwritten, file, edits>>
    BY <1>1 DEF tables
  <1>3. ASSUME NEW v \in User
        PROVE  /\ ThreadFresh(thread'[v], edits) /\ PageFresh(browser'[v], edits)
               /\ ~overwritten => ThreadOwn(thread'[v], snap) /\ PageOwn(browser'[v], snap)
               /\ v \in alone => Undisturbed(thread'[v], state, file)
    <2>1. Goes(thread[v], thread'[v]) /\ Keeps(browser[v], browser'[v])
      BY DEF FaultStep
    <2> QED BY <2>1, SoloFacts, Facts, Parts, GoingSolo, KeepingSolo
  <1>4. AloneFits'
    <2> SUFFICES ASSUME NEW v \in alone' PROVE Undisturbed(thread'[v], state, file)
      BY <1>2 DEF AloneFits
    <2>1. v \in alone /\ v \in User
      BY <1>1, Facts DEF TypeOK
    <2> QED BY <1>3, <2>1
  <1>5. edits' \in [User -> Nat] /\ \A w \in User : edits'[w] <= edits[w]
    BY <1>2, Facts, Unedited
  <1>6. /\ overwritten => overwritten'
        /\ ~overwritten' => Grows(snap, snap')
    BY <1>1, SameTables
  <1> QED BY <1>2, <1>3, <1>4, <1>5, <1>6, SoloStep

\* A request goes on with a state.
LEMMA ReadingSolo ==
    ASSUME IInv, Solo, NEW u \in User, NEW s \in State, DocFresh(s.doc, edits),
           NEW n, n = Going(thread[u], s, u), NEW later
    PROVE  /\ ThreadFresh(n, edits)
           /\ (~overwritten /\ Grows(snap, later)) => ThreadOwn(n, later)
           /\ \A f : Undisturbed(n, s, f)
  <1>1. PICK t : t = thread[u]
    OBVIOUS
  <1>2. /\ TypedThread(t) /\ t.own \subseteq Cell /\ t.base \in Revision
        /\ t.kind = "sync" => DocFresh(t.sent, edits)
    BY <1>1, Facts, Parts DEF Solo, Fresh, ThreadFresh, TypedThread, Thread, Revision
  <1>3. PICK base : base = IF snap[t.base] = NoDoc THEN s.doc ELSE snap[t.base]
    OBVIOUS
  <1>4. /\ n.cur = s /\ n.kind = t.kind /\ n.own = t.own /\ n.mixed = t.mixed
        /\ n.base = t.base /\ n.sent = t.sent
        /\ t.kind # "sync" => n.at = "answer"
        /\ t.kind = "sync" =>
             /\ n.at \in {"save", "store"}
             /\ n.at = "save" => n.new = s.doc
             /\ Replaces(base, s.doc, t.sent, n.new)
    BY <1>1, <1>2, <1>3, Reading
  <1>5. ThreadFresh(n, edits)
    <2>1. ASSUME t.kind = "sync" PROVE DocFresh(n.new, edits)
      <3> SUFFICES ASSUME NEW c \in Cell, NEW w \in User, NEW k \in Nat,
                          n.new.cell[c].code = <<w, k>>
                   PROVE  k > edits[w]
        BY DEF DocFresh
      <3>1. n.new.cell[c] = t.sent.cell[c] \/ n.new.cell[c] = s.doc.cell[c]
        BY <1>4, <2>1 DEF Replaces
      <3> QED BY <1>2, <2>1, <3>1 DEF DocFresh
    <2> QED BY <1>2, <1>4, <2>1 DEF ThreadFresh
  <1>6. ASSUME ~overwritten, Grows(snap, later)
        PROVE  ThreadOwn(n, later)
    <2> SUFFICES ASSUME t.kind = "sync", ~t.mixed, NEW c \in t.own
                 PROVE  /\ Differs(t.sent, later[t.base], c)
                        /\ Changed(t.sent, later[t.base], c) =>
                             /\ n.at = "store" => n.new.cell[c].code = t.sent.cell[c].code
                             /\ n.at \in {"save", "answer"} =>
                                  n.cur.doc.cell[c].code = t.sent.cell[c].code
      BY <1>4 DEF ThreadOwn
    <2>1. snap[t.base] # NoDoc /\ Differs(t.sent, snap[t.base], c)
      BY <1>1, <1>6, Facts DEF ThreadAgrees, BaseAgrees, Solo, OwnChanges, ThreadOwn
    <2>2. later[t.base] = snap[t.base] /\ base = snap[t.base]
      BY <1>2, <1>3, <1>6, <2>1 DEF Grows
    <2>3. ASSUME Changed(t.sent, base, c)
          PROVE  n.new.cell[c].code = t.sent.cell[c].code
      <3>1. t.sent.cell[c] # base.cell[c]
        BY <2>3 DEF Changed
      <3>2. n.new.cell[c] = t.sent.cell[c]
        BY <1>2, <1>4, <3>1 DEF Replaces
      <3> QED BY <3>2
    <2> QED BY <1>4, <2>1, <2>2, <2>3
  <1>7. \A f : Undisturbed(n, s, f)
    BY <1>4 DEF Undisturbed
  <1> QED BY <1>5, <1>6, <1>7

LEMMA ReadSolo ==
    ASSUME IInv, Solo, NEW u \in User, ReadState(u)
    PROVE  Solo'
  <1>1. PICK t : t = thread[u]
    OBVIOUS
  <1>2. TypedThread(t) /\ t.at = "read"
    BY <1>1, Facts, Parts DEF ReadState, At
  <1>3. PICK place : place = "load file"
    BY Zenon
  <1>4. place \notin {"create", "store", "save", "answer"}
    BY <1>3, Zenon
  <1>5. PICK waiting, going : /\ waiting = [t EXCEPT !.at = place]
                              /\ going = Going(t, state, u)
    OBVIOUS
  <1>6. PICK n : n = IF state = NoState THEN waiting ELSE going
    OBVIOUS
  <1>7. thread' = [thread EXCEPT ![u] = n]
    BY <1>1, <1>3, <1>5, <1>6, Zenon DEF ReadState, Step, Going
  <1>8. UNCHANGED tables /\ UNCHANGED <<file, browser, edits, alone>>
    BY Zenon DEF ReadState
  <1>9. UNCHANGED <<state, snap, overwritten>>
    BY <1>8 DEF tables
  <1>10. thread'[u] = n /\ \A v \in User : v # u => thread'[v] = thread[v]
    BY <1>7, Facts, OneThread
  <1>11. /\ ThreadFresh(n, edits) /\ (~overwritten => ThreadOwn(n, snap))
         /\ Undisturbed(n, state, file)
    <2>1. CASE state = NoState
      <3>1. /\ waiting.at = place /\ waiting.kind = t.kind /\ waiting.base = t.base
            /\ waiting.sent = t.sent /\ waiting.own = t.own /\ waiting.mixed = t.mixed
        BY <1>2, <1>5 DEF TypedThread, Thread
      <3>2. ThreadFresh(t, edits) /\ (~overwritten => ThreadOwn(t, snap))
        BY <1>1, SoloFacts
      <3>3. ThreadFresh(waiting, edits)
        BY <1>4, <3>1, <3>2 DEF ThreadFresh
      <3>4. ~overwritten => ThreadOwn(waiting, snap)
        BY <1>4, <3>1, <3>2 DEF ThreadOwn
      <3>5. Undisturbed(waiting, state, file)
        BY <1>4, <2>1, <3>1 DEF Undisturbed
      <3> QED BY <1>6, <2>1, <3>3, <3>4, <3>5
    <2>2. CASE state # NoState
      <3>1. state \in State /\ DocFresh(state.doc, edits) /\ Grows(snap, snap)
        BY <2>2, Facts DEF TypeOK, Solo, Fresh, Grows
      <3>2. n = Going(thread[u], state, u)
        BY <1>1, <1>5, <1>6, <2>2
      <3> QED BY <3>1, <3>2, ReadingSolo
    <2> QED BY <2>1, <2>2
  <1>12. AloneFits'
    BY <1>8, <1>9, <1>10, <1>11, Facts DEF Solo, AloneFits, TypeOK
  <1>13. edits' \in [User -> Nat] /\ \A w \in User : edits'[w] <= edits[w]
    BY <1>8, Facts, Unedited
  <1>14. /\ overwritten => overwritten'
         /\ ~overwritten' => Grows(snap, snap')
    BY <1>8, SameTables
  <1> QED BY <1>8, <1>9, <1>10, <1>11, <1>12, <1>13, <1>14, SoloStep

LEMMA LoadFileSolo ==
    ASSUME IInv, Solo, NEW u \in User, LoadFile(u)
    PROVE  Solo'
  <1>1. PICK t, s : t = thread[u] /\ s = [rev |-> 0, doc |-> file]
    OBVIOUS
  <1>2. PICK n : n = [t EXCEPT !.at = "create", !.cur = s]
    OBVIOUS
  <1>3. /\ thread' = [thread EXCEPT ![u] = n] /\ UNCHANGED tables
        /\ UNCHANGED <<file, browser, edits, alone>>
    BY <1>1, <1>2, Zenon DEF LoadFile, Step
  <1>4. t.at \notin {"idle", "read", "store", "save", "answer"}
    BY <1>1, Zenon DEF LoadFile, At
  <1>5. /\ n.at = "create" /\ n.cur.doc = file /\ n.kind = t.kind /\ n.base = t.base
        /\ n.sent = t.sent /\ n.own = t.own /\ n.mixed = t.mixed
    <2>1. t \in Thread
      BY <1>1, Facts, Parts DEF TypedThread
    <2> QED BY <1>1, <1>2, <2>1 DEF Thread
  <1>6. thread'[u] = n /\ \A v \in User : v # u => thread'[v] = thread[v]
    BY <1>3, Facts, OneThread
  <1>7. UNCHANGED <<state, snap, overwritten>>
    BY <1>3 DEF tables
  <1>8. /\ ThreadFresh(t, edits) /\ (~overwritten => ThreadOwn(t, snap))
        /\ u \in alone => Undisturbed(t, state, file)
        /\ DocFresh(file, edits)
    BY <1>1, SoloFacts DEF Solo, Fresh
  <1>9. /\ ThreadFresh(n, edits) /\ (~overwritten => ThreadOwn(n, snap))
        /\ u \in alone => Undisturbed(n, state, file)
    BY <1>4, <1>5, <1>8 DEF ThreadFresh, ThreadOwn, Undisturbed
  <1>10. AloneFits'
    BY <1>3, <1>6, <1>7, <1>9, Facts DEF Solo, AloneFits, TypeOK
  <1>11. edits' \in [User -> Nat] /\ \A w \in User : edits'[w] <= edits[w]
    BY <1>3, Facts, Unedited
  <1>12. /\ overwritten => overwritten'
         /\ ~overwritten' => Grows(snap, snap')
    BY <1>3, SameTables
  <1> QED BY <1>3, <1>6, <1>7, <1>9, <1>10, <1>11, <1>12, SoloStep

LEMMA CreateSolo ==
    ASSUME IInv, Solo, NEW u \in User, Create(u)
    PROVE  Solo'
  <1>1. PICK t, s : t = thread[u] /\ s = thread[u].cur
    OBVIOUS
  <1>2. TypedThread(t) /\ t.at = "create" /\ s \in State
    BY <1>1, Facts, Parts DEF Create, At, TypedThread, Thread
  <1>3. PICK n : n = Going(t, s, u)
    OBVIOUS
  <1>4. /\ thread' = [thread EXCEPT ![u] = n] /\ StoreState(NoState, s)
        /\ UNCHANGED <<file, browser, edits>> /\ alone' = alone \cap {u}
    BY <1>1, <1>3, Zenon DEF Create, Step, Going
  <1>5. thread'[u] = n /\ \A v \in User : v # u => thread'[v] = thread[v]
    BY <1>4, Facts, OneThread
  <1>6. DocFresh(s.doc, edits)
    BY <1>1, <1>2, SoloFacts DEF ThreadFresh
  <1>7. /\ overwritten => overwritten'
        /\ state' = s
        /\ snap \in [Revision -> Doc \cup {NoDoc}] /\ s.rev \in Revision
        /\ snap' = IF snap[s.rev] = NoDoc THEN [snap EXCEPT ![s.rev] = s.doc] ELSE snap
    BY <1>2, <1>4, Facts, StatesAreSomething DEF StoreState, Revision
  <1>8. Grows(snap, snap') /\ \A m \in Revision : snap'[m] \in {snap[m], s.doc}
    BY <1>7 DEF Grows
  <1>9. /\ ThreadFresh(n, edits) /\ Undisturbed(n, s, file)
        /\ ~overwritten => ThreadOwn(n, snap')
    BY <1>1, <1>2, <1>3, <1>6, <1>8, ReadingSolo
  <1>10. AloneFits'
    BY <1>4, <1>5, <1>7, <1>9 DEF AloneFits
  <1>11. edits' \in [User -> Nat] /\ \A w \in User : edits'[w] <= edits[w]
    BY <1>4, Facts, Unedited
  <1> QED BY <1>4, <1>5, <1>6, <1>7, <1>8, <1>9, <1>10, <1>11, SoloStep

LEMMA StoreSolo ==
    ASSUME IInv, Solo, NEW u \in User, StoreMerged(u)
    PROVE  Solo'
  <1>1. PICK t : t = thread[u]
    OBVIOUS
  <1>2. PICK s : s = [rev |-> t.cur.rev + 1, doc |-> t.new]
    OBVIOUS
  <1>3. PICK n : n = [t EXCEPT !.at = "save", !.cur = s]
    OBVIOUS
  <1>4. /\ TypedThread(t) /\ t.at = "store" /\ t.kind = "sync" /\ t.cur \in State
        /\ s \in State /\ s.doc = t.new /\ s.rev = t.cur.rev + 1
        /\ StoreState(t.cur, s) /\ (overwritten => overwritten')
        /\ thread' = [thread EXCEPT ![u] = n]
        /\ n.at = "save" /\ n.kind = t.kind /\ n.base = t.base /\ n.sent = t.sent
        /\ n.own = t.own /\ n.mixed = t.mixed /\ n.cur = s
        /\ UNCHANGED <<file, browser, edits>> /\ alone' = alone \cap {u}
    BY <1>1, <1>2, <1>3, StoredThread
  <1>5. thread'[u] = n /\ \A v \in User : v # u => thread'[v] = thread[v]
    BY <1>4, Facts, OneThread
  <1>6. Grows(snap, snap') /\ state' = s /\ \A m \in Revision : snap'[m] \in {snap[m], s.doc}
    BY <1>4, StoreFits
  <1>7. ThreadFresh(t, edits) /\ (~overwritten => ThreadOwn(t, snap) /\ ThreadAgrees(t, snap))
    BY <1>1, SoloFacts, Facts
  <1>8. ThreadFresh(n, edits) /\ DocFresh(s.doc, edits)
    BY <1>4, <1>7 DEF ThreadFresh
  <1>9. ASSUME ~overwritten'
        PROVE  ThreadOwn(n, snap')
    <2>1. ThreadOwn(t, snap) /\ ThreadAgrees(t, snap) /\ t.base \in Revision
      BY <1>4, <1>7, <1>9 DEF TypedThread, Thread, Revision
    <2>2. ~t.mixed => snap'[t.base] = snap[t.base]
      BY <1>4, <1>6, <2>1 DEF ThreadAgrees, BaseAgrees, Grows
    <2> QED BY <1>4, <2>1, <2>2 DEF ThreadOwn
  <1>10. AloneFits'
    BY <1>4, <1>5, <1>6 DEF AloneFits, Undisturbed
  <1>11. edits' \in [User -> Nat] /\ \A w \in User : edits'[w] <= edits[w]
    BY <1>4, Facts, Unedited
  <1> QED BY <1>4, <1>5, <1>6, <1>8, <1>9, <1>10, <1>11, SoloStep

LEMMA SaveSolo ==
    ASSUME IInv, Solo, NEW u \in User, SaveFile(u)
    PROVE  Solo'
  <1>1. PICK t, n : t = thread[u] /\ n = Answering(u)
    OBVIOUS
  <1>2. /\ At(u, "save") /\ thread' = [thread EXCEPT ![u] = n] /\ file' = t.cur.doc
        /\ UNCHANGED tables /\ UNCHANGED <<browser, edits>> /\ alone' = alone \cap {u}
    BY <1>1, Zenon DEF SaveFile, Step
  <1>3. thread'[u] = n /\ \A v \in User : v # u => thread'[v] = thread[v]
    BY <1>2, Facts, OneThread
  <1>4. UNCHANGED <<state, snap, overwritten>>
    BY <1>2 DEF tables
  <1>5. /\ ThreadFresh(t, edits) /\ (~overwritten => ThreadOwn(t, snap)) /\ t.at = "save"
        /\ u \in alone => Undisturbed(t, state, file)
    BY <1>1, <1>2, SoloFacts DEF At
  <1>6. n = Idle \/ (n.at = "answer" /\ AnswersOf(t, n))
    BY <1>1, <1>2, Facts, AnsweringThread
  <1>7. /\ ThreadFresh(n, edits) /\ (~overwritten => ThreadOwn(n, snap))
        /\ DocFresh(file', edits)
        /\ u \in alone => Undisturbed(n, state, file')
    <2>1. DocFresh(file', edits)
      BY <1>2, <1>5 DEF ThreadFresh
    <2>2. CASE n = Idle
      <3>1. \A s, f : ThreadFresh(n, edits) /\ ThreadOwn(n, snap) /\ Undisturbed(n, s, f)
        BY <2>2, IdleGoes DEF Plain, ThreadFresh, ThreadOwn, Undisturbed
      <3> QED BY <2>1, <3>1
    <2>3. CASE n.at = "answer" /\ AnswersOf(t, n)
      BY <1>2, <1>5, <2>1, <2>3 DEF AnswersOf, ThreadFresh, ThreadOwn, Undisturbed
    <2> QED BY <1>6, <2>2, <2>3
  <1>8. AloneFits'
    BY <1>2, <1>3, <1>4, <1>7 DEF AloneFits
  <1>9. edits' \in [User -> Nat] /\ \A w \in User : edits'[w] <= edits[w]
    BY <1>2, Facts, Unedited
  <1>10. /\ overwritten => overwritten'
         /\ ~overwritten' => Grows(snap, snap')
    BY <1>2, SameTables
  <1> QED BY <1>2, <1>3, <1>4, <1>7, <1>8, <1>9, <1>10, SoloStep

LEMMA DeliverSolo ==
    ASSUME IInv, Solo, NEW u \in User, NEW v \in User, Deliver(u, v)
    PROVE  Solo'
  <1>1. PICK b : Answers(u, v, b)
    BY Facts, DeliverPage
  <1>2. PICK t, n, old : t = thread[u] /\ n = thread'[u] /\ old = browser[v]
    OBVIOUS
  <1>3. /\ thread' = [thread EXCEPT ![u] = n] /\ Goes(t, n)
        /\ UNCHANGED tables /\ UNCHANGED <<file, edits, alone>>
    BY <1>2, Facts, DeliverThread
  <1>4. browser' = [browser EXCEPT ![v] = b] /\ (b = old \/ Takes(old, b, t.cur))
    BY <1>1, <1>2 DEF Answers
  <1>5. UNCHANGED <<state, snap, overwritten>>
    BY <1>3 DEF tables
  <1>6. /\ ThreadFresh(t, edits) /\ PageFresh(old, edits)
        /\ ~overwritten => ThreadOwn(t, snap) /\ PageOwn(old, snap)
        /\ u \in alone => Undisturbed(t, state, file)
        /\ t.at = "answer"
    BY <1>2, SoloFacts DEF Deliver, At
  <1>7. /\ ThreadFresh(n, edits) /\ (~overwritten => ThreadOwn(n, snap))
        /\ u \in alone => Undisturbed(n, state, file)
    BY <1>3, <1>6, GoingSolo
  <1>8. PageFresh(b, edits) /\ (~overwritten => PageOwn(b, snap))
    <2>1. DocFresh(t.cur.doc, edits)
      BY <1>6 DEF ThreadFresh
    <2>2. CASE b = old
      BY <1>6, <2>2
    <2>3. CASE b.mixed /\ b.open = old.open /\ b.touched = old.touched /\ b.cells = old.cells
      BY <1>6, <2>3 DEF PageFresh, PageOwn
    <2>4. CASE /\ b.touched = {}
               /\ \A c \in Cell : b.cells.cell[c].code = t.cur.doc.cell[c].code
      <3>1. DocFresh(b.cells, edits)
        BY <2>1, <2>4, SameCodesFresh
      <3> QED BY <2>4, <3>1 DEF PageFresh, PageOwn
    <2> QED BY <1>4, <2>2, <2>3, <2>4 DEF Takes
  <1>9. /\ \A w \in User : w # u => thread'[w] = thread[w]
        /\ browser'[v] = b /\ \A w \in User : w # v => browser'[w] = browser[w]
    BY <1>3, <1>4, Facts, OneThread, OnePage
  <1>10. AloneFits'
    BY <1>2, <1>3, <1>5, <1>7, <1>9, Facts DEF Solo, AloneFits, TypeOK
  <1>11. edits' \in [User -> Nat] /\ \A w \in User : edits'[w] <= edits[w]
    BY <1>3, Facts, Unedited
  <1>12. /\ overwritten => overwritten'
         /\ ~overwritten' => Grows(snap, snap')
    BY <1>3, SameTables
  <1> QED BY <1>2, <1>3, <1>5, <1>7, <1>8, <1>9, <1>10, <1>11, <1>12, SoloStep

LEMMA PlainSaveSolo ==
    ASSUME IInv, Solo, NEW c \in Cell, PlainSave(c)
    PROVE  Solo'
  <1>1. PICK x : x = [code |-> Elsewhere, out |-> file.cell[c].out]
    OBVIOUS
  <1>2. /\ file' = Put(file, c, x) /\ alone' = {}
        /\ UNCHANGED tables /\ UNCHANGED <<thread, browser, edits>>
    BY <1>1 DEF PlainSave
  <1>3. file \in Doc /\ x \in Content /\ x.code = Elsewhere
    BY <1>1, Facts DEF TypeOK, Doc, Content, Code
  <1>4. \A d \in Cell : file'.cell[d].code = file.cell[d].code \/ file'.cell[d].code = Elsewhere
    <2>1. file'.cell = [file.cell EXCEPT ![c] = x]
      BY <1>2, <1>3, PutIsTyped
    <2> QED BY <1>3, <2>1 DEF Doc
  <1>5. DocFresh(file', edits)
    <2>1. \A w \in User, k \in Nat : Elsewhere # <<w, k>>
      BY NotebookAssumption
    <2>2. DocFresh(file, edits)
      BY DEF Solo, Fresh
    <2> QED BY <1>4, <2>1, <2>2 DEF DocFresh
  <1>6. AloneFits'
    BY <1>2 DEF AloneFits
  <1>7. edits' \in [User -> Nat] /\ \A w \in User : edits'[w] <= edits[w]
    BY <1>2, Facts, Unedited
  <1>8. UNCHANGED <<state, snap>>
    BY <1>2 DEF tables
  <1>9. /\ overwritten => overwritten'
        /\ ~overwritten' => Grows(snap, snap')
    BY <1>2, SameTables
  <1> QED BY <1>2, <1>5, <1>6, <1>7, <1>8, <1>9, SoloStep

LEMMA StutterSolo ==
    ASSUME IInv, Solo, UNCHANGED vars
    PROVE  Solo'
  <1>1. UNCHANGED <<state, snap, overwritten, file, thread, browser, edits, alone>>
    BY DEF vars, tables
  <1> QED BY <1>1 DEF Solo, Fresh, OwnChanges, AloneFits

LEMMA InitSolo == Init => Solo
  <1> SUFFICES ASSUME Init PROVE Solo
    OBVIOUS
  <1>1. DocFresh(FirstDoc, edits)
    <2>1. \A c \in Cell : FirstDoc.cell[c].code \in {Original, Absent}
      BY DEF FirstDoc, Gone
    <2>2. \A w \in User, k \in Nat : <<w, k>> \notin {Original, Absent}
      BY NotebookAssumption
    <2> QED BY <2>1, <2>2 DEF DocFresh
  <1>2. /\ Idle.at = "idle" /\ Idle.kind = "none"
        /\ Blank.open = FALSE
    BY DEF Idle, Blank
  <1>3. /\ state = NoState /\ \A n \in Revision : snap[n] = NoDoc
        /\ file = FirstDoc /\ alone = {}
        /\ \A u \in User : thread[u] = Idle /\ browser[u] = Blank
    BY DEF Init, Revision
  <1>4. Fresh
    BY <1>1, <1>2, <1>3 DEF Fresh, ThreadFresh, PageFresh
  <1>5. OwnChanges
    BY <1>2, <1>3 DEF OwnChanges, ThreadOwn, PageOwn
  <1>6. AloneFits
    BY <1>3 DEF AloneFits
  <1> QED BY <1>4, <1>5, <1>6 DEF Solo

LEMMA NextSolo == IInv /\ Solo /\ [Next]_vars => Solo'
  <1> SUFFICES ASSUME IInv, Solo, [Next]_vars PROVE Solo'
    OBVIOUS
  <1>1. ASSUME NEW u \in User,
               \/ Open(u) \/ Connect(u) \/ Send(u) \/ Poll(u)
               \/ \E c \in Cell : Edit(u, c) \/ AddCell(u, c) \/ DeleteCell(u, c)
               \/ \E c \in Cell, out \in RunOutput, live \in BOOLEAN : RunCell(u, c, out, live)
        PROVE  Solo'
    BY <1>1, Facts, AnyBrowserStep, BrowserSolo
  <1>2. ASSUME NEW u \in User, Serve(u)
        PROVE  Solo'
    BY <1>2, ReadSolo, LoadFileSolo, CreateSolo, StoreSolo, SaveSolo, DeliverSolo DEF Serve
  <1>3. ASSUME Crash \/ \E u \in User : Fail(u) \/ Disconnect(u)
        PROVE  Solo'
    BY <1>3, Facts, AnyFaultStep, FaultSolo
  <1>4. ASSUME NEW c \in Cell, PlainSave(c)
        PROVE  Solo'
    BY <1>4, PlainSaveSolo
  <1>5. ASSUME UNCHANGED vars PROVE Solo'
    BY <1>5, StutterSolo
  <1> QED BY <1>1, <1>2, <1>3, <1>4, <1>5 DEF Next

LEMMA SoloInvariance == Spec => []Solo
  <1>1. Init /\ [][Next]_vars /\ []IInv => []Solo
    BY InitSolo, NextSolo, PTL
  <1> QED BY <1>1, Invariance, PTL DEF Spec

(* A sync during which nobody else wrote is complete when it is answered:  *)
(* the table, the file and the answer agree, and they hold every change its*)
(* user made to a page in step with its revision: the code of each cell    *)
(* typed or added, and no cell deleted. Only a cell that the page has added*)
(* and deleted before a sync got through, so that neither the page nor its *)
(* base has it, is not spoken of. (sync, _merge_cells, save_notebook.)     *)
THEOREM UndisturbedSyncsAreExact == Spec => []SoloSyncIsExact
  <1>1. ASSUME IInv, Solo, NEW u \in alone, At(u, "answer"), thread[u].kind = "sync"
        PROVE  /\ state = thread[u].cur
               /\ file = state.doc
               /\ (~overwritten /\ ~thread[u].mixed) =>
                    \A c \in thread[u].own :
                      (\/ thread[u].sent.cell[c].code # Absent
                       \/ snap[thread[u].base].cell[c].code # Absent) =>
                        state.doc.cell[c].code = thread[u].sent.cell[c].code
    <2>1. u \in User /\ Undisturbed(thread[u], state, file) /\ thread[u].at = "answer"
      BY <1>1, Facts DEF TypeOK, Solo, AloneFits, At
    <2>2. state = thread[u].cur /\ file = state.doc
      BY <1>1, <2>1 DEF Undisturbed
    <2>3. ~overwritten => ThreadOwn(thread[u], snap)
      BY <1>1, <2>1, SoloFacts
    <2> QED BY <1>1, <2>1, <2>2, <2>3 DEF ThreadOwn, Differs, Changed
  <1>2. IInv /\ Solo => SoloSyncIsExact
    BY <1>1 DEF SoloSyncIsExact
  <1> QED BY <1>2, Invariance, SoloInvariance, PTL

=============================================================================
