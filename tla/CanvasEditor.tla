---------------------------- MODULE CanvasEditor ----------------------------
(***************************************************************************)
(* The canvas editor of the console (ui/src/pages/WorkspacePage.tsx): what *)
(* the page shows of a workspace, what it believes to be saved, the undo   *)
(* history, and the requests that are in flight.                           *)
(*                                                                         *)
(* A canvas is [chips |-> the text of every chip on it (a name or a memo), *)
(* at |-> the place of every chip, edges |-> the connections].  Every      *)
(* await of the page is a point where the server, another session or the   *)
(* user may act; a dialog is modal for the mouse, but not for answers.     *)
(* Handlers that go on after a dialog use the chips and the edges they     *)
(* were called with, but the positions of the moment (positionsRef).       *)
(***************************************************************************)
EXTENDS Naturals, Sequences, FiniteSets, Functions

CONSTANTS
  Workspace,   \* workspaces of the server
  First,       \* the one the page opens with
  Chip,        \* chip definitions that exist at the start
  Memo,        \* those of them that are memos
  Placed,      \* the chips each workspace starts with
  Draft,       \* ids of chips that exist on the page only
  Fresh,       \* ids the server gives to stored drafts
  Link,        \* ids of connections
  UndoLimit,   \* CANVAS_UNDO_LIMIT
  MaxEdits,    \* bound on the edits of the user
  MaxEvents,   \* bound on the saves of other sessions, the pages that are opened or
               \* refreshed and the requests that fail, together
  None

ASSUME EditorAssumption ==
  /\ First \in Workspace
  /\ Memo \subseteq Chip
  /\ Placed \in [Workspace -> SUBSET Chip]
  /\ Chip \cap Draft = {} /\ Chip \cap Fresh = {} /\ Draft \cap Fresh = {}
  /\ UndoLimit \in Nat \ {0}

Id == Chip \cup Draft \cup Fresh

VARIABLES
  route,    \* currentWorkspaceRef; None on an editor page
  server,   \* the stored canvas of every workspace
  defs,     \* the chip definitions of the server, with their text
  canvas, saved, dirty, busy, version, undo, redo,
  drag,     \* dragRef: the chip that is moved and the place it came from
  dialog,   \* the open confirm dialog and what its handler holds
  load,     \* the request of the load effect
  refresh,  \* the request of refreshWorkspace
  save,     \* the running saveCanvas
  carried,  \* canvasDraft of the location that leads back from an editor page
  basis,    \* history variable: the workspace and version the canvas was read at
  edits, events

page == <<canvas, saved, dirty, version, undo, redo, basis>>
bounds == <<edits, events>>
vars == <<route, server, defs, page, busy, drag, dialog, load, refresh, save, carried, bounds>>

Empty == [chips |-> <<>>, at |-> <<>>, edges |-> {}]
Ends(edges) == {e.from : e \in edges} \cup {e.to : e \in edges}
Without(f, ids) == Restrict(f, DOMAIN f \ ids)
Put(f, i, v) == [k \in DOMAIN f \cup {i} |-> IF k = i THEN v ELSE f[k]]

\* markDirty: the answer of the comparison with savedRef.
DirtyAgainst(s, c) ==
  \/ DOMAIN c.chips # DOMAIN s.chips
  \/ c.edges # s.edges
  \/ \E i \in DOMAIN c.chips :
       \/ c.chips[i] # s.chips[i]
       \/ i \notin DOMAIN c.at \cap DOMAIN s.at
       \/ c.at[i] # s.at[i]

Append50(stack, snapshot) ==
  IF stack # <<>> /\ stack[Len(stack)] = snapshot THEN stack
  ELSE IF Len(stack) < UndoLimit THEN Append(stack, snapshot)
  ELSE Append(SubSeq(stack, Len(stack) - UndoLimit + 2, Len(stack)), snapshot)

PushUndo(snapshot) == undo' = Append50(undo, snapshot) /\ redo' = <<>>
ClearHistory == undo' = <<>> /\ redo' = <<>>
Show(c) == canvas' = c /\ dirty' = DirtyAgainst(saved, c) /\ UNCHANGED <<saved, version>>
RememberSaved(c, v, reading) ==
  canvas' = c /\ saved' = c /\ dirty' = FALSE /\ version' = v /\ basis' = reading

\* What is put together from two readings has no version it was read at: a dialog
\* or a save that is open when an answer arrives holds a mixture from then on, as does
\* a save that goes on when the page has moved on, and a dialog when ids change.
NoBasis == <<None, 0>>
Mixed(held) == IF held = None THEN None ELSE [held EXCEPT !.basis = NoBasis]
Superseded == dialog' = Mixed(dialog) /\ save' = Mixed(save)

\* A chip without a stored node takes the fallback place.
PositionsFrom(ids, nodes) == [i \in ids |-> IF i \in DOMAIN nodes THEN nodes[i] ELSE 0]

Request(w) == [of |-> w, graph |-> None, list |-> None, seen |-> 0]

Init ==
  /\ route = First
  /\ server = [w \in Workspace |->
                 [placed |-> Placed[w], nodes |-> [i \in Placed[w] |-> 0], edges |-> {}, version |-> 1]]
  /\ defs = [i \in Chip |-> 0]
  /\ canvas = Empty /\ saved = Empty /\ dirty = FALSE /\ busy = FALSE /\ version = 1
  /\ undo = <<>> /\ redo = <<>> /\ drag = None /\ dialog = None
  /\ load = Request(First) /\ refresh = None /\ save = None /\ carried = None
  /\ basis = NoBasis
  /\ edits = 0 /\ events = 0

-----------------------------------------------------------------------------
(* Reading a workspace: the graph and the list of chips are two requests   *)

ReadGraph(q) ==
  [q EXCEPT !.graph = [nodes |-> server[q.of].nodes, edges |-> server[q.of].edges,
                       version |-> server[q.of].version]]
ReadList(q) ==
  [q EXCEPT !.list = [i \in server[q.of].placed |-> defs[i]], !.seen = server[q.of].version]
Reading(q) == IF q.graph.version = q.seen THEN <<q.of, q.seen>> ELSE NoBasis
Complete(q) == q.graph # None /\ q.list # None

FromServer(q) ==
  [chips |-> q.list, at |-> PositionsFrom(DOMAIN q.list, q.graph.nodes), edges |-> q.graph.edges]

LoadRead ==
  /\ load # None
  /\ \/ load.graph = None /\ load' = ReadGraph(load)
     \/ load.list = None /\ load' = ReadList(load)
  /\ UNCHANGED <<route, server, defs, page, busy, drag, dialog, refresh, save, carried, bounds>>

\* The draft that comes back from an editor page is laid over the loaded canvas.
LoadAnswer ==
  /\ load # None /\ Complete(load)
  /\ LET c == FromServer(load)
         draft == [chips |-> carried.chips, at |-> carried.at, edges |-> carried.edges] IN
     IF carried # None /\ carried.of = route
     THEN /\ canvas' = draft /\ saved' = c /\ dirty' = DirtyAgainst(c, draft)
          /\ version' = load.graph.version /\ basis' = carried.basis
          /\ carried' = None
     ELSE RememberSaved(c, load.graph.version, Reading(load)) /\ UNCHANGED carried
  /\ ClearHistory /\ Superseded
  /\ load' = None
  /\ UNCHANGED <<route, server, defs, busy, drag, refresh, bounds>>

LoadError ==
  /\ load # None /\ events < MaxEvents
  /\ load' = None /\ events' = events + 1
  /\ UNCHANGED <<route, server, defs, page, busy, drag, dialog, refresh, save, carried, edits>>

RefreshStart ==
  /\ route # None /\ dialog = None /\ ~busy /\ refresh = None /\ events < MaxEvents
  /\ refresh' = Request(route) /\ events' = events + 1
  /\ UNCHANGED <<route, server, defs, page, busy, drag, dialog, load, save, carried, edits>>

RefreshRead ==
  /\ refresh # None
  /\ \/ refresh.graph = None /\ refresh' = ReadGraph(refresh)
     \/ refresh.list = None /\ refresh' = ReadList(refresh)
  /\ UNCHANGED <<route, server, defs, page, busy, drag, dialog, load, save, carried, bounds>>

\* The answer is dropped on a dirty canvas, but not when the page has moved on
\* to another workspace.
RefreshAnswer ==
  /\ refresh # None /\ Complete(refresh)
  /\ IF dirty THEN UNCHANGED <<page, dialog, save>>
     ELSE /\ RememberSaved(FromServer(refresh), refresh.graph.version, Reading(refresh))
          /\ ClearHistory /\ Superseded
  /\ refresh' = None
  /\ UNCHANGED <<route, server, defs, busy, drag, load, carried, bounds>>

-----------------------------------------------------------------------------
(* Edits                                                                   *)

Free == route # None /\ dialog = None
Edit == Free /\ edits < MaxEdits /\ edits' = edits + 1
Rest == UNCHANGED <<route, server, defs, busy, load, refresh, save, carried, events>>

\* A drag moves the chip at once; undo and dirty follow when the button is released.
DragStart(i) ==
  /\ Edit /\ drag = None /\ i \in DOMAIN canvas.chips \cap DOMAIN canvas.at
  /\ drag' = [id |-> i, origin |-> canvas.at[i]]
  /\ canvas' = [canvas EXCEPT !.at[i] = 1 - @]
  /\ UNCHANGED <<saved, dirty, version, undo, redo, basis, dialog>> /\ Rest

DragEnd ==
  /\ drag # None /\ route # None
  /\ PushUndo([canvas EXCEPT !.at = Put(@, drag.id, drag.origin)])
  /\ dirty' = DirtyAgainst(saved, canvas)
  /\ drag' = None
  /\ UNCHANGED <<canvas, saved, version, basis, dialog, edits>> /\ Rest

Rename(i) ==
  /\ Edit /\ i \in DOMAIN canvas.chips
  /\ PushUndo(canvas) /\ Show([canvas EXCEPT !.chips[i] = 1 - @])
  /\ UNCHANGED <<basis, drag, dialog>> /\ Rest

\* placeCatalogChips, for a chip of the catalog and for the drafts of placeNew*Chip.
PlaceChip(i) ==
  /\ Edit /\ i \notin DOMAIN canvas.chips
  /\ i \in Draft \/ (i \in DOMAIN defs /\ i \notin Memo)
  /\ PushUndo(canvas)
  /\ Show([canvas EXCEPT !.chips = Put(@, i, IF i \in Draft THEN 0 ELSE defs[i]),
                         !.at = Put(@, i, 0)])
  /\ UNCHANGED <<basis, drag, dialog>> /\ Rest

\* connectChips: what replaces another connection asks first and then applies
\* the edges it was called with.
Between(edges, f, t) == {e \in edges : e.from = f /\ e.to = t}
Connected(c, f, t, l) == (c.edges \ Between(c.edges, f, t)) \cup {[id |-> l, from |-> f, to |-> t]}

Connect(f, t, l) ==
  /\ Edit /\ {f, t} \subseteq DOMAIN canvas.chips \ Memo /\ f # t
  /\ l \notin {e.id : e \in canvas.edges \cup saved.edges}
  /\ IF Between(canvas.edges, f, t) = {}
     THEN /\ PushUndo(canvas) /\ Show([canvas EXCEPT !.edges = Connected(canvas, f, t, l)])
          /\ UNCHANGED <<basis, dialog>>
     ELSE /\ dialog' = [ask |-> "connect", chips |-> canvas.chips, basis |-> basis,
                        edges |-> Connected(canvas, f, t, l), drop |-> {}, to |-> None]
          /\ UNCHANGED page
  /\ UNCHANGED drag /\ Rest

\* deleteCanvasChip, requestDeleteEdge and deleteSelectedLayers.
AskDelete(ids, cut) ==
  /\ Edit /\ ~busy
  /\ ids \subseteq DOMAIN canvas.chips /\ cut \subseteq canvas.edges /\ ids \cup cut # {}
  /\ dialog' = [ask |-> "delete", chips |-> Without(canvas.chips, ids), basis |-> basis,
                edges |-> {e \in canvas.edges \ cut : {e.from, e.to} \cap ids = {}},
                drop |-> ids, to |-> None]
  /\ UNCHANGED <<page, drag>> /\ Rest

\* Mutant: the handler applies its lists and forgets markDirty.
ConfirmEditUnmarked ==
  /\ dialog # None /\ dialog.ask \in {"delete", "connect"}
  /\ PushUndo(canvas)
  /\ canvas' = [chips |-> dialog.chips, at |-> Without(canvas.at, dialog.drop), edges |-> dialog.edges]
  /\ basis' = dialog.basis
  /\ drag' = IF drag # None /\ drag.id \in dialog.drop THEN None ELSE drag
  /\ dialog' = None
  /\ UNCHANGED <<saved, dirty, version, edits>> /\ Rest

ConfirmEdit ==
  /\ dialog # None /\ dialog.ask \in {"delete", "connect"}
  /\ PushUndo(canvas)
  /\ Show([chips |-> dialog.chips, at |-> Without(canvas.at, dialog.drop), edges |-> dialog.edges])
  /\ basis' = dialog.basis
  /\ drag' = IF drag # None /\ drag.id \in dialog.drop THEN None ELSE drag
  /\ dialog' = None
  /\ UNCHANGED edits /\ Rest

Undo ==
  /\ Free /\ ~busy /\ undo # <<>>
  /\ undo' = SubSeq(undo, 1, Len(undo) - 1) /\ redo' = Append50(redo, canvas)
  /\ Show(undo[Len(undo)]) /\ drag' = None
  /\ edits < MaxEdits /\ edits' = edits + 1
  /\ UNCHANGED <<basis, dialog>> /\ Rest

Redo ==
  /\ Free /\ ~busy /\ redo # <<>>
  /\ redo' = SubSeq(redo, 1, Len(redo) - 1) /\ undo' = Append50(undo, canvas)
  /\ Show(redo[Len(redo)]) /\ drag' = None
  /\ UNCHANGED <<basis, dialog, edits>> /\ Rest

-----------------------------------------------------------------------------
(* Leaving the canvas                                                      *)

\* The load effect of the new route; the canvas stays until its answer comes.
Goto(w) ==
  /\ route' = w /\ load' = Request(w) /\ busy' = FALSE /\ save' = Mixed(save)
  /\ UNCHANGED <<page, drag, refresh, carried>>

\* The editor page replaces the canvas page and with it all of its state.
ClosePage ==
  /\ route' = None /\ load' = None /\ refresh' = None /\ drag' = None /\ busy' = FALSE
  /\ canvas' = Empty /\ saved' = Empty /\ dirty' = FALSE /\ version' = 1
  /\ basis' = NoBasis /\ ClearHistory

GotoEditor ==
  /\ carried' = [of |-> route, chips |-> canvas.chips, at |-> saved.at, edges |-> saved.edges,
                 basis |-> basis]
  /\ ClosePage

Ask(what, w) ==
  dialog' = [ask |-> what, chips |-> canvas.chips, edges |-> canvas.edges, basis |-> basis,
             drop |-> {}, to |-> w]

Saving == save # None /\ save.of = route

\* useBlocker: a dirty canvas is left only through the dialog, and no dialog
\* opens while one is open or its save goes on.
Leave(w) ==
  /\ route # None /\ w # route /\ dialog = None /\ events < MaxEvents /\ events' = events + 1
  /\ IF dirty
     THEN (save # None => ~save.confirming) /\ Ask("leave", w)
          /\ UNCHANGED <<route, page, busy, drag, load, refresh, save, carried>>
     ELSE Goto(w) /\ UNCHANGED dialog
  /\ UNCHANGED <<server, defs, edits>>

OpenEditor(i) ==
  /\ Free /\ i \in DOMAIN canvas.chips \ Memo /\ events < MaxEvents /\ events' = events + 1
  /\ save = None
  /\ IF dirty \/ i \in Draft
     THEN Ask("edit", None) /\ UNCHANGED <<route, page, busy, drag, load, refresh, carried>>
     ELSE GotoEditor /\ UNCHANGED dialog
  /\ UNCHANGED <<server, defs, save, edits>>

ReturnFromEditor ==
  /\ route = None
  /\ route' = carried.of /\ load' = Request(carried.of)
  /\ UNCHANGED <<server, defs, page, busy, drag, dialog, refresh, save, carried, bounds>>

Decline ==
  /\ dialog # None /\ dialog' = None
  /\ IF dialog.ask = "leave" THEN Goto(dialog.to)
     ELSE UNCHANGED <<route, page, busy, drag, load, refresh, save, carried>>
  /\ UNCHANGED <<server, defs, bounds>>

-----------------------------------------------------------------------------
(* saveCanvas, one request at a time                                       *)

RequestSave ==
  /\ Free /\ ~busy /\ dirty /\ save = None
  /\ Ask("save", None)
  /\ UNCHANGED <<route, server, defs, page, busy, drag, load, refresh, save, carried, bounds>>

\* What is saved: the chips of now, the edges the handler was called with.  What
\* needs no request runs on at once: the positions are taken when the removed memos
\* are gone, the changed texts are looked up when all drafts are stored.
Changed(c) == {i \in DOMAIN c \cap DOMAIN saved.chips : c[i] # saved.chips[i]}

AfterUpdate(s) == IF s.todo # {} THEN s ELSE [s EXCEPT !.step = "put", !.version = version]
AfterCreate(s) ==
  IF s.drafts # {} THEN s ELSE AfterUpdate([s EXCEPT !.step = "update", !.todo = Changed(s.chips)])
AfterRemove(s) ==
  IF s.memos # {} THEN s ELSE AfterCreate([s EXCEPT !.step = "create", !.at = canvas.at])

ConfirmSave ==
  /\ dialog # None /\ dialog.ask \in {"save", "leave", "edit"} /\ save = None
  /\ save' = AfterRemove(
       [of |-> route, step |-> "remove", confirming |-> dialog.ask # "edit",
        then |-> dialog.ask, to |-> dialog.to,
        memos |-> (DOMAIN saved.chips \cap Memo) \ DOMAIN canvas.chips,
        drafts |-> DOMAIN canvas.chips \cap Draft,
        chips |-> canvas.chips, at |-> canvas.at, edges |-> dialog.edges,
        basis |-> dialog.basis, todo |-> {}, version |-> 0, answer |-> None, replaced |-> None])
  /\ busy' = TRUE /\ dialog' = None
  /\ UNCHANGED <<route, server, defs, page, drag, load, refresh, carried, bounds>>

\* After each await the save is given up when the page has moved on.
GivenUp == save.of # route
Still(s) == save' = IF GivenUp THEN None ELSE s

Dropped(ids) ==
  [w \in Workspace |->
     [server[w] EXCEPT !.placed = @ \ ids, !.edges = {e \in @ : {e.from, e.to} \cap ids = {}}]]

SaveRemove ==
  /\ save # None /\ save.step = "remove"
  /\ \E m \in save.memos \cap DOMAIN defs :
       /\ defs' = Without(defs, {m}) /\ server' = Dropped({m})
       /\ Still(AfterRemove([save EXCEPT !.memos = @ \ {m}]))
  /\ UNCHANGED <<route, page, busy, drag, dialog, load, refresh, carried, bounds>>

\* chipApi.create answers with the id that stands for the draft from now on; with
\* the last one the page shows all the new ids.
Renamed(f, d, i) == [k \in (DOMAIN f \ {d}) \cup {i} |-> f[IF k = i THEN d ELSE k]]
Moved(edges, d, i) ==
  LET new(x) == IF x = d THEN i ELSE x IN
  {[id |-> e.id, from |-> new(e.from), to |-> new(e.to)] : e \in edges}

\* Mutant: the connections keep the ids of the drafts.
StoredUnmoved(s, d, i) ==
  [s EXCEPT !.drafts = @ \ {d}, !.chips = Renamed(@, d, i),
            !.at = Put(Without(@, {d}), i, IF d \in DOMAIN @ THEN @[d] ELSE 0)]

Stored(s, d, i) ==
  [s EXCEPT !.drafts = @ \ {d}, !.chips = Renamed(@, d, i), !.edges = Moved(@, d, i),
            !.at = Put(Without(@, {d}), i, IF d \in DOMAIN @ THEN @[d] ELSE 0)]

SaveCreate(i) ==
  /\ save # None /\ save.step = "create" /\ i \in Fresh \ DOMAIN defs
  /\ \E d \in save.drafts :
       LET s == Stored(save, d, i) IN
       /\ defs' = Put(defs, i, save.chips[d])
       /\ Still(AfterCreate(s))
       /\ IF s.drafts = {} /\ ~GivenUp
          THEN /\ canvas' = [chips |-> s.chips, at |-> s.at, edges |-> s.edges]
               /\ basis' = s.basis /\ dialog' = Mixed(dialog)
          ELSE UNCHANGED <<canvas, basis, dialog>>
  /\ UNCHANGED <<route, server, saved, dirty, version, undo, redo, busy, drag,
                 load, refresh, carried, bounds>>

SaveUpdate ==
  /\ save # None /\ save.step = "update"
  /\ \E i \in save.todo \cap DOMAIN defs :
       /\ defs' = [defs EXCEPT ![i] = save.chips[i]]
       /\ Still(AfterUpdate([save EXCEPT !.todo = @ \ {i}]))
  /\ UNCHANGED <<route, server, page, busy, drag, dialog, load, refresh, carried, bounds>>

\* save_workspace of the server: the version decides, and what is not whole is refused.
Whole(s) == DOMAIN s.chips \subseteq DOMAIN defs /\ Ends(s.edges) \subseteq DOMAIN s.chips
Orphans == {m \in Memo \cap DOMAIN defs : \A w \in Workspace : m \notin server'[w].placed}

SavePut ==
  /\ save # None /\ save.step = "put"
  /\ LET now == server[save.of] IN
     IF save.version # now.version
     THEN /\ save' = [save EXCEPT !.step = "conflict"]
          /\ UNCHANGED <<server, defs>>
     ELSE /\ Whole(save)
          /\ server' = [server EXCEPT ![save.of] =
               [placed |-> DOMAIN save.chips, nodes |-> save.at, edges |-> save.edges,
                version |-> now.version + 1]]
          /\ defs' = Without(defs, Orphans)
          /\ save' = [save EXCEPT !.step = "answer", !.replaced = <<save.of, now.version>>,
                                  !.answer = [chips |-> Restrict(defs, DOMAIN save.chips),
                                              at |-> PositionsFrom(DOMAIN save.chips, save.at),
                                              edges |-> save.edges]]
  /\ UNCHANGED <<route, page, busy, drag, dialog, load, refresh, carried, bounds>>

\* The answer becomes the canvas, whatever was edited since the save began.  A leave
\* dialog that is open when the page goes on to an editor page is gone with it.
Kept(s) == <<s.of, s.replaced[2] + 1>>

SaveAnswer ==
  /\ save # None /\ save.step = "answer"
  /\ save' = None
  /\ \/ /\ GivenUp
        /\ UNCHANGED <<route, page, busy, drag, load, refresh, carried, dialog>>
     \/ /\ ~GivenUp /\ save.then = "edit"
        /\ carried' = [of |-> route, chips |-> save.answer.chips, at |-> save.answer.at,
                       edges |-> save.answer.edges, basis |-> Kept(save)]
        /\ ClosePage /\ dialog' = None
     \/ /\ ~GivenUp /\ save.then # "edit"
        /\ RememberSaved(save.answer, Kept(save)[2], Kept(save)) /\ ClearHistory
        /\ IF save.then = "leave" THEN route' = save.to /\ load' = Request(save.to)
           ELSE UNCHANGED <<route, load>>
        /\ busy' = FALSE /\ dialog' = Mixed(dialog)
        /\ UNCHANGED <<drag, refresh, carried>>
  /\ UNCHANGED <<server, defs, bounds>>

\* A version conflict reloads the canvas and drops the edits.
SaveConflict ==
  /\ save # None /\ save.step = "conflict"
  /\ save' = None
  /\ IF GivenUp THEN UNCHANGED <<load, busy>> ELSE load' = Request(route) /\ busy' = FALSE
  /\ UNCHANGED <<route, server, defs, page, drag, dialog, refresh, carried, bounds>>

\* A request fails: the network, or a definition that another session has removed.
\* The checks of names and connections before the first request end a save in the
\* same way.
Refused ==
  \/ save.step = "remove" /\ save.memos \cap DOMAIN defs = {}
  \/ save.step = "update" /\ save.todo \cap DOMAIN defs = {}
  \/ save.step = "create" /\ Fresh \subseteq DOMAIN defs
  \/ save.step = "put" /\ save.version = server[save.of].version /\ ~Whole(save)

\* Mutant: a failed save does not give the page back.
SaveErrorStuck ==
  /\ save # None
  /\ \/ Refused /\ UNCHANGED events
     \/ save.step # "conflict" /\ events < MaxEvents /\ events' = events + 1
  /\ save' = None
  /\ UNCHANGED <<route, server, defs, page, busy, drag, dialog, load, refresh, carried, edits>>

SaveError ==
  /\ save # None
  /\ \/ Refused /\ UNCHANGED events
     \/ save.step # "conflict" /\ events < MaxEvents /\ events' = events + 1
  /\ save' = None
  /\ busy' = IF GivenUp THEN busy ELSE FALSE
  /\ UNCHANGED <<route, server, defs, page, drag, dialog, load, refresh, carried, edits>>

-----------------------------------------------------------------------------
\* Another session saves the workspace with one chip more or less.
OtherSave(w, i) ==
  /\ events < MaxEvents /\ events' = events + 1
  /\ i \in DOMAIN defs \ Memo
  /\ LET now == server[w] IN
     server' = [server EXCEPT ![w] =
       IF i \in now.placed
       THEN [now EXCEPT !.placed = @ \ {i}, !.nodes = Without(@, {i}), !.version = @ + 1,
                        !.edges = {e \in @ : i \notin {e.from, e.to}}]
       ELSE [now EXCEPT !.placed = @ \cup {i}, !.nodes = Put(@, i, 1), !.version = @ + 1]]
  /\ UNCHANGED <<route, defs, page, busy, drag, dialog, load, refresh, save, carried, edits>>

UserNext ==
  \/ \E i \in Id : DragStart(i) \/ Rename(i) \/ PlaceChip(i) \/ AskDelete({i}, {})
                   \/ OpenEditor(i)
  \/ \E f, t \in Id, l \in Link : Connect(f, t, l)
  \/ \E e \in canvas.edges : AskDelete({}, {e})
  \/ DragEnd \/ ConfirmEdit \/ Undo \/ Redo
  \/ RequestSave \/ ConfirmSave \/ Decline \/ RefreshStart \/ ReturnFromEditor
  \/ \E w \in Workspace : Leave(w)

Answers ==
  \/ LoadRead \/ LoadAnswer \/ RefreshRead \/ RefreshAnswer
  \/ SaveRemove \/ (\E i \in Fresh : SaveCreate(i)) \/ SaveUpdate \/ SavePut
  \/ SaveAnswer \/ SaveConflict \/ SaveError

Next ==
  \/ UserNext \/ Answers \/ LoadError
  \/ \E w \in Workspace, i \in Chip : OtherSave(w, i)

Spec == Init /\ [][Next]_vars

-----------------------------------------------------------------------------
\* The page warns before it drops work (beforeunload, useBlocker) only when dirty
\* is set: a canvas that differs from what was saved is dirty, however edits,
\* undo, dialogs, refreshes, reloads and the steps of a save interleave, as long as
\* both come from one reading of the workspace.
DirtyIsHonest ==
  route # None /\ drag = None /\ basis # NoBasis /\ ~dirty => ~DirtyAgainst(saved, canvas)

\* What saveCanvas sends of one reading is one canvas: no draft, no connection to a
\* chip that is not sent, although chips, positions and connections are taken at
\* different times and the ids of drafts change on the way.
PutIsWhole ==
  save # None /\ save.step = "put" /\ save.of = route /\ save.basis # NoBasis =>
    /\ DOMAIN save.chips \cap Draft = {}
    /\ Ends(save.edges) \subseteq DOMAIN save.chips
    /\ DOMAIN save.chips \subseteq DOMAIN save.at

\* The busy page is given back by the save that made it busy: whatever the user
\* opens or another request does meanwhile, no page stays busy without one.
BusyHasSave == busy => save # None /\ save.of = route

-----------------------------------------------------------------------------
(* What docs/workspace.md:40 says of a save, and the page does not keep    *)

\* A save that the server accepts replaces the very version the canvas was read at:
\* when another session has saved in between it is refused.
SaveReplacesWhatItRead ==
  save # None /\ save.step = "answer" /\ save.basis # NoBasis => save.basis = save.replaced
=============================================================================
