-------------------------- MODULE CanvasEditorProofs --------------------------
(***************************************************************************)
(* Theorems about the canvas editor: the dirty flag is honest, a save      *)
(* sends one canvas and a busy page has its save, for any workspaces,      *)
(* chips and connections, and any number of edits, faults and other        *)
(* sessions.                                                               *)
(***************************************************************************)
EXTENDS CanvasEditor, TLAPS

-----------------------------------------------------------------------------
(* Types                                                                   *)

Known == Chip \cup Fresh          \* ids the server knows
Value == {0, 1}                     \* of texts and places
Map == UNION {[S -> Value] : S \in SUBSET Id}
Edge == [id : Link, from : Id \ Memo, to : Id \ Memo]
Basis == (Workspace \cup {None}) \X Nat
Steps == {"remove", "create", "update", "put", "answer", "conflict"}
Wholes == {"save", "leave", "edit"}   \* dialogs that ask for a save
Parts == {"connect", "delete"}        \* dialogs that ask for an edit

Canvas == [chips : Map, at : Map, edges : SUBSET Edge]
ServerCanvas == [placed : SUBSET Known, nodes : Map, edges : SUBSET Edge, version : Nat]
Graph == [nodes : Map, edges : SUBSET Edge, version : Nat]
Asked == [of : Workspace, graph : Graph \cup {None}, list : Map \cup {None}, seen : Nat]
Drag == [id : Id, origin : Value]
Dialog == [ask : Wholes \cup Parts, chips : Map, edges : SUBSET Edge, basis : Basis,
           drop : SUBSET Id, to : Workspace \cup {None}]
Save == [of : Workspace, step : Steps, confirming : BOOLEAN, then : Wholes,
         to : Workspace \cup {None}, memos : SUBSET Memo, drafts : SUBSET Draft,
         chips : Map, at : Map, edges : SUBSET Edge, basis : Basis, todo : SUBSET Id,
         version : Nat, answer : Canvas \cup {None}, replaced : Basis \cup {None}]
Carried == [of : Workspace, chips : Map, at : Map, edges : SUBSET Edge, basis : Basis]

\* None is no workspace, no map and no record.
NoneIsNothing ==
  None \notin Workspace \cup Map \cup Graph \cup Asked \cup Drag \cup Dialog \cup Save
              \cup Carried \cup Canvas \cup Basis

PageTypeOK ==
  /\ route \in Workspace \cup {None}
  /\ canvas \in Canvas /\ saved \in Canvas
  /\ dirty \in BOOLEAN /\ busy \in BOOLEAN /\ version \in Nat
  /\ undo \in Seq(Canvas) /\ redo \in Seq(Canvas)
  /\ drag \in Drag \cup {None} /\ dialog \in Dialog \cup {None}
  /\ basis \in Basis

EditorTypeOK ==
  /\ PageTypeOK
  /\ server \in [Workspace -> ServerCanvas]
  /\ defs \in Map /\ DOMAIN defs \subseteq Known
  /\ load \in Asked \cup {None} /\ refresh \in Asked \cup {None}
  /\ save \in Save \cup {None} /\ carried \in Carried \cup {None}

-----------------------------------------------------------------------------
(* The invariant                                                           *)

\* A canvas whose connections end at its chips, each of which has a place.
Proper(c) == Ends(c.edges) \subseteq DOMAIN c.chips /\ DOMAIN c.chips \subseteq DOMAIN c.at
AllProper(stack) == \A i \in 1..Len(stack) : Proper(stack[i])

\* Who is on the page: a page that is left holds nothing, a busy page has its save.
RouteInv ==
  /\ route = None => save = None /\ load = None /\ refresh = None /\ dialog = None /\ carried # None
  /\ BusyHasSave
  /\ dialog # None /\ dialog.ask = "leave" => dialog.to \in Workspace
  /\ save # None /\ save.then = "leave" => save.to \in Workspace

\* What has been read of one version is of one canvas.  A memo that is deleted raises no
\* version, but no connection ends at a memo.
ReadOf(q, s) ==
  /\ q.graph # None =>
       /\ q.graph.version <= s[q.of].version
       /\ q.graph.version = s[q.of].version => q.graph.edges = s[q.of].edges
  /\ q.list # None =>
       /\ q.seen <= s[q.of].version
       /\ q.seen = s[q.of].version => s[q.of].placed \ Memo \subseteq DOMAIN q.list
       /\ DOMAIN q.list \cap Draft = {}
  /\ Complete(q) /\ q.graph.version = q.seen => Ends(q.graph.edges) \subseteq DOMAIN q.list

ServerInv ==
  /\ \A w \in Workspace :
       /\ Ends(server[w].edges) \subseteq server[w].placed
       /\ server[w].placed \subseteq DOMAIN defs
  /\ load # None => ReadOf(load, server)
  /\ refresh # None => ReadOf(refresh, server)

\* A page that is not dirty shows what was saved, but for a chip that is being dragged.
Honest ==
  ~dirty =>
    /\ DOMAIN canvas.chips = DOMAIN saved.chips
    /\ canvas.edges = saved.edges
    /\ drag = None => ~DirtyAgainst(saved, canvas)

PageInv ==
  /\ DOMAIN saved.chips \cap Draft = {} /\ DOMAIN saved.chips \subseteq DOMAIN saved.at
  /\ basis # NoBasis =>
       /\ Honest /\ Proper(canvas) /\ AllProper(undo) /\ AllProper(redo)
  /\ carried # None /\ carried.basis # NoBasis => Proper(carried)

\* What an open dialog holds is of the canvas that is shown.
DialogInv ==
  dialog # None =>
    /\ dialog.ask = "connect" => dialog.drop = {}
    /\ dialog.basis # NoBasis =>
         /\ dialog.basis = basis
         /\ dialog.ask \in Parts =>
              /\ Ends(dialog.edges) \subseteq DOMAIN dialog.chips
              /\ DOMAIN dialog.chips \subseteq DOMAIN canvas.at \ dialog.drop
         /\ dialog.ask \in Wholes => Ends(dialog.edges) \subseteq DOMAIN canvas.chips

\* Until its drafts are stored a save is of the canvas that is shown: nothing that is
\* still to be stored can leave it.
SaveFollows ==
  /\ save.basis = basis
  /\ save.drafts \subseteq DOMAIN canvas.chips
  /\ dialog # None => dialog.ask # "delete" /\ dialog.basis # NoBasis
  /\ dialog # None /\ dialog.ask = "connect" => save.drafts \subseteq DOMAIN dialog.chips

HoldsTodo(s) == s.step = "update" => s.todo \subseteq DOMAIN s.chips

SaveInv ==
  save # None =>
    /\ HoldsTodo(save)
    /\ save.drafts = DOMAIN save.chips \cap Draft
    /\ save.step = "create" => save.drafts # {}
    /\ save.step \notin {"remove", "create"} => save.drafts = {}
    /\ save.step = "answer" =>
         save.answer # None /\ save.replaced # None
         /\ Proper(save.answer) /\ DOMAIN save.answer.chips \cap Draft = {}
    /\ save.basis # NoBasis =>
         /\ save.of = route /\ busy
         /\ Ends(save.edges) \subseteq DOMAIN save.chips
         /\ DOMAIN save.chips \subseteq DOMAIN (IF save.step = "remove" THEN canvas.at ELSE save.at)
         /\ save.step \in {"remove", "create"} => SaveFollows

EditorInv ==
  EditorTypeOK /\ RouteInv /\ ServerInv /\ PageInv /\ DialogInv /\ SaveInv

-----------------------------------------------------------------------------
(* Maps                                                                    *)

\* What the operators on maps do to a map and to its domain.
LEMMA MapIs ==
  ASSUME NEW f
  PROVE  f \in Map <=> f = [i \in DOMAIN f |-> f[i]] /\ DOMAIN f \subseteq Id
                       /\ \A i \in DOMAIN f : f[i] \in Value
<1>1. ASSUME f \in Map
      PROVE  f = [i \in DOMAIN f |-> f[i]] /\ DOMAIN f \subseteq Id /\ \A i \in DOMAIN f : f[i] \in Value
  <2>1. PICK S \in SUBSET Id : f \in [S -> Value]
    BY <1>1 DEF Map
  <2> QED
    BY <2>1
<1>2. ASSUME f = [i \in DOMAIN f |-> f[i]], DOMAIN f \subseteq Id, \A i \in DOMAIN f : f[i] \in Value
      PROVE  f \in Map
  <2>1. f \in [DOMAIN f -> Value] /\ DOMAIN f \in SUBSET Id
    BY <1>2
  <2> QED
    BY <2>1 DEF Map
<1> QED
  BY <1>1, <1>2

LEMMA MapPut ==
  ASSUME NEW f \in Map, NEW i \in Id, NEW v \in Value
  PROVE  /\ Put(f, i, v) \in Map
         /\ DOMAIN Put(f, i, v) = DOMAIN f \cup {i}
         /\ \A k \in DOMAIN f \ {i} : Put(f, i, v)[k] = f[k]
<1> DEFINE g == Put(f, i, v)
<1>1. DOMAIN g = DOMAIN f \cup {i} /\ (\A k \in DOMAIN g : g[k] \in Value) /\ g = [x \in DOMAIN g |-> g[x]]
  BY MapIs DEF Put
<1> QED
  BY <1>1, MapIs DEF Put

LEMMA MapWithout ==
  ASSUME NEW f \in Map, NEW S
  PROVE  /\ Without(f, S) \in Map /\ DOMAIN Without(f, S) = DOMAIN f \ S
         /\ \A k \in DOMAIN f \ S : Without(f, S)[k] = f[k]
BY MapIs, MapIs DEF Without, Restrict

LEMMA MapPositions ==
  ASSUME NEW S \in SUBSET Id, NEW f \in Map
  PROVE  PositionsFrom(S, f) \in Map /\ DOMAIN PositionsFrom(S, f) = S
<1> DEFINE g == PositionsFrom(S, f)
<1>1. DOMAIN g = S /\ (\A i \in S : g[i] \in Value) /\ g = [i \in DOMAIN g |-> g[i]]
  BY MapIs DEF PositionsFrom, Value
<1> QED
  BY <1>1, MapIs

LEMMA MapRenamed ==
  ASSUME NEW f \in Map, NEW d \in DOMAIN f, NEW i \in Id
  PROVE  Renamed(f, d, i) \in Map /\ DOMAIN Renamed(f, d, i) = (DOMAIN f \ {d}) \cup {i}
<1> DEFINE g == Renamed(f, d, i)
<1>1. DOMAIN g = (DOMAIN f \ {d}) \cup {i} /\ (\A k \in DOMAIN g : g[k] \in Value) /\ g = [k \in DOMAIN g |-> g[k]]
  BY MapIs DEF Renamed
<1> QED
  BY <1>1, MapIs

LEMMA MapFlip ==
  ASSUME NEW f \in Map, NEW i \in DOMAIN f
  PROVE  [f EXCEPT ![i] = 1 - @] \in Map /\ DOMAIN [f EXCEPT ![i] = 1 - @] = DOMAIN f
<1> DEFINE g == [f EXCEPT ![i] = 1 - @]
<1>1. DOMAIN g = DOMAIN f /\ (\A k \in DOMAIN g : g[k] \in Value) /\ g = [k \in DOMAIN g |-> g[k]]
  BY MapIs DEF Value
<1> QED
  BY <1>1, MapIs

LEMMA EmptyIs == Empty \in Canvas /\ DOMAIN Empty.chips = {} /\ DOMAIN Empty.at = {} /\ Empty.edges = {}
<1>1. <<>> \in Seq(Value) /\ Len(<<>>) = 0
  OBVIOUS
<1>2. \A s \in Seq(Value) : s \in [1..Len(s) -> Value]
  OBVIOUS
<1>3. <<>> \in [{} -> Value]
  BY <1>1, <1>2
<1>4. <<>> \in Map /\ DOMAIN <<>> = {}
  BY <1>3 DEF Map
<1> QED
  BY <1>4 DEF Empty, Canvas

-----------------------------------------------------------------------------
(* Stacks                                                                  *)

\* Undo and redo hold proper canvases when what is pushed is proper.
LEMMA StackPush ==
  ASSUME NEW stack \in Seq(Canvas), NEW c \in Canvas
  PROVE  /\ Append50(stack, c) \in Seq(Canvas)
         /\ AllProper(stack) /\ Proper(c) => AllProper(Append50(stack, c))
<1>1. CASE stack # <<>> /\ stack[Len(stack)] = c
  BY <1>1 DEF Append50
<1>2. CASE ~(stack # <<>> /\ stack[Len(stack)] = c) /\ Len(stack) < UndoLimit
  BY <1>2 DEF Append50, AllProper
<1>3. CASE ~(stack # <<>> /\ stack[Len(stack)] = c) /\ ~(Len(stack) < UndoLimit)
  <2> DEFINE tail == SubSeq(stack, Len(stack) - UndoLimit + 2, Len(stack))
  <2>1. UndoLimit \in Nat \ {0} /\ Len(stack) \in Nat /\ Len(stack) >= UndoLimit
    BY <1>3, EditorAssumption
  <2>2. /\ tail \in Seq(Canvas) /\ Len(tail) = UndoLimit - 1
        /\ \A i \in 1..Len(tail) : tail[i] = stack[Len(stack) - UndoLimit + 1 + i]
    BY <2>1
  <2>3. AllProper(stack) => \A i \in 1..Len(tail) : Proper(tail[i])
    BY <2>1, <2>2 DEF AllProper
  <2>4. Append50(stack, c) = Append(tail, c)
    BY <1>3 DEF Append50
  <2> HIDE DEF tail
  <2> QED
    BY <2>2, <2>3, <2>4 DEF AllProper
<1> QED
  BY <1>1, <1>2, <1>3

LEMMA StackPop ==
  ASSUME NEW stack \in Seq(Canvas), stack # <<>>
  PROVE  /\ SubSeq(stack, 1, Len(stack) - 1) \in Seq(Canvas) /\ stack[Len(stack)] \in Canvas
         /\ AllProper(stack) => AllProper(SubSeq(stack, 1, Len(stack) - 1)) /\ Proper(stack[Len(stack)])
BY DEF AllProper

LEMMA StackEmpty == <<>> \in Seq(Canvas) /\ AllProper(<<>>)
BY DEF AllProper

-----------------------------------------------------------------------------
(* Requests                                                                *)

LEMMA RequestIs ==
  ASSUME NoneIsNothing, EditorTypeOK, NEW w \in Workspace
  PROVE  Request(w) \in Asked /\ ReadOf(Request(w), server)
BY DEF Request, Asked, ReadOf, Complete

\* A request reads the graph and the list of one workspace, in either order.
LEMMA GraphRead ==
  ASSUME NoneIsNothing, EditorTypeOK, ServerInv, NEW q \in Asked, ReadOf(q, server)
  PROVE  ReadGraph(q) \in Asked /\ ReadOf(ReadGraph(q), server)
<1> DEFINE g == [nodes |-> server[q.of].nodes, edges |-> server[q.of].edges, version |-> server[q.of].version]
           r == ReadGraph(q)
<1>1. q.of \in Workspace /\ server[q.of] \in ServerCanvas
  BY DEF EditorTypeOK, Asked
<1>2. g \in Graph
  BY <1>1 DEF Graph, ServerCanvas
<1>3. r.of = q.of /\ r.graph = g /\ r.list = q.list /\ r.seen = q.seen /\ r \in Asked
  BY <1>2 DEF ReadGraph, Asked
<1>4. Ends(g.edges) \cap Memo = {}
  BY <1>2 DEF Graph, Edge, Ends
<1>5. Ends(g.edges) \subseteq server[q.of].placed
  BY <1>1 DEF ServerInv
<1> QED
  BY <1>1, <1>2, <1>3, <1>4, <1>5 DEF ReadOf, Complete, ServerCanvas

LEMMA ListRead ==
  ASSUME NoneIsNothing, EditorTypeOK, ServerInv, NEW q \in Asked, ReadOf(q, server)
  PROVE  ReadList(q) \in Asked /\ ReadOf(ReadList(q), server)
<1> DEFINE c == [i \in server[q.of].placed |-> defs[i]]
           r == ReadList(q)
<1>1. q.of \in Workspace /\ server[q.of] \in ServerCanvas /\ server[q.of].version \in Nat
  BY DEF EditorTypeOK, Asked, ServerCanvas
<1>2. server[q.of].placed \subseteq DOMAIN defs /\ server[q.of].placed \subseteq Id
  BY <1>1 DEF ServerInv, ServerCanvas, Known, Id
<1>3. DOMAIN c = server[q.of].placed /\ c = [i \in DOMAIN c |-> c[i]] /\ \A i \in DOMAIN c : c[i] \in Value
  BY <1>2, MapIs DEF EditorTypeOK
<1>4. c \in Map
  BY <1>2, <1>3, MapIs
<1>5. r.of = q.of /\ r.graph = q.graph /\ r.list = c /\ r.seen = server[q.of].version /\ r \in Asked
  BY <1>1, <1>4 DEF ReadList, Asked
<1>6. DOMAIN c \cap Draft = {}
  BY <1>1, <1>3, EditorAssumption DEF ServerCanvas, Known
<1>7. Ends(server[q.of].edges) \subseteq server[q.of].placed
  BY <1>1 DEF ServerInv
<1> HIDE DEF c, r
<1> QED
  BY <1>1, <1>3, <1>5, <1>6, <1>7 DEF ReadOf, Complete, r

-----------------------------------------------------------------------------
(* What a step leaves alone                                                *)

LEMMA RouteFrame ==
  ASSUME RouteInv, UNCHANGED <<route, busy, dialog, load, refresh, save, carried>>
  PROVE  RouteInv'
BY DEF RouteInv, BusyHasSave

LEMMA ServerFrame ==
  ASSUME ServerInv, UNCHANGED <<server, defs, load, refresh>>
  PROVE  ServerInv'
BY DEF ServerInv

LEMMA PageFrame ==
  ASSUME PageInv, UNCHANGED <<page, drag, carried>>
  PROVE  PageInv'
BY DEF PageInv, Honest, page

LEMMA DialogFrame ==
  ASSUME DialogInv, UNCHANGED <<canvas, basis, dialog>>
  PROVE  DialogInv'
BY DEF DialogInv

LEMMA SaveFrame ==
  ASSUME SaveInv, UNCHANGED <<route, canvas, basis, busy, dialog, save>>
  PROVE  SaveInv'
BY DEF SaveInv, SaveFollows

LEMMA PageTypeFrame ==
  ASSUME PageTypeOK, UNCHANGED <<route, page, busy, drag, dialog>>
  PROVE  PageTypeOK'
BY DEF PageTypeOK, page

\* What is mixed is of no reading and keeps the rest.
LEMMA DialogMixed ==
  ASSUME NoneIsNothing, EditorInv, dialog' = Mixed(dialog)
  PROVE  /\ dialog' \in Dialog \cup {None} /\ DialogInv'
         /\ dialog' = None <=> dialog = None
         /\ dialog # None => dialog'.ask = dialog.ask /\ dialog'.to = dialog.to /\ dialog'.basis = NoBasis
<1>1. NoBasis \in Basis
  BY DEF NoBasis, Basis
<1>2. CASE dialog = None
  BY <1>2 DEF Mixed, DialogInv
<1>3. CASE dialog # None
  <2>1. dialog \in Dialog /\ dialog' = [dialog EXCEPT !.basis = NoBasis]
    BY <1>3 DEF Mixed, EditorInv, EditorTypeOK, PageTypeOK
  <2>2. dialog' \in Dialog /\ dialog'.basis = NoBasis /\ dialog'.ask = dialog.ask /\ dialog'.to = dialog.to
        /\ dialog'.drop = dialog.drop
    BY <2>1, <1>1 DEF Dialog
  <2> QED
    BY <1>3, <2>2 DEF NoneIsNothing, DialogInv, EditorInv
<1> QED
  BY <1>2, <1>3

LEMMA SaveMixed ==
  ASSUME NoneIsNothing, EditorInv, save' = Mixed(save)
  PROVE  /\ save' \in Save \cup {None} /\ SaveInv'
         /\ save' = None <=> save = None
         /\ save # None => save'.of = save.of /\ save'.then = save.then /\ save'.to = save.to
<1>1. NoBasis \in Basis
  BY DEF NoBasis, Basis
<1>2. CASE save = None
  BY <1>2 DEF Mixed, SaveInv
<1>3. CASE save # None
  <2>1. save \in Save /\ save' = [save EXCEPT !.basis = NoBasis]
    BY <1>3 DEF Mixed, EditorInv, EditorTypeOK
  <2>2. /\ save' \in Save /\ save'.basis = NoBasis
        /\ save'.of = save.of /\ save'.then = save.then /\ save'.to = save.to /\ save'.step = save.step
        /\ save'.drafts = save.drafts /\ save'.chips = save.chips
        /\ save'.answer = save.answer /\ save'.replaced = save.replaced
        /\ HoldsTodo(save) => HoldsTodo(save')
    BY <2>1, <1>1 DEF Save, HoldsTodo
  <2> QED
    BY <1>3, <2>2 DEF NoneIsNothing, SaveInv, EditorInv
<1> QED
  BY <1>2, <1>3

-----------------------------------------------------------------------------
(* Reading                                                                 *)

LEMMA LoadReadKeeps ==
  ASSUME NoneIsNothing, EditorInv, LoadRead
  PROVE  EditorInv'
<1>1. load \in Asked /\ ReadOf(load, server)
  BY DEF LoadRead, EditorInv, EditorTypeOK, ServerInv
<1>2. load' \in Asked /\ ReadOf(load', server)
  BY <1>1, GraphRead, ListRead DEF LoadRead, EditorInv
<1>3. EditorTypeOK'
  BY <1>2, PageTypeFrame DEF LoadRead, EditorInv, EditorTypeOK
<1>4. ServerInv'
  BY <1>2 DEF LoadRead, EditorInv, ServerInv
<1>5. RouteInv'
  BY <1>1 DEF LoadRead, EditorInv, RouteInv, BusyHasSave
<1> QED
  BY <1>3, <1>4, <1>5, PageFrame, DialogFrame, SaveFrame DEF LoadRead, EditorInv, page

LEMMA RefreshReadKeeps ==
  ASSUME NoneIsNothing, EditorInv, RefreshRead
  PROVE  EditorInv'
<1>1. refresh \in Asked /\ ReadOf(refresh, server)
  BY DEF RefreshRead, EditorInv, EditorTypeOK, ServerInv
<1>2. refresh' \in Asked /\ ReadOf(refresh', server)
  BY <1>1, GraphRead, ListRead DEF RefreshRead, EditorInv
<1>3. EditorTypeOK'
  BY <1>2, PageTypeFrame DEF RefreshRead, EditorInv, EditorTypeOK
<1>4. ServerInv'
  BY <1>2 DEF RefreshRead, EditorInv, ServerInv
<1>5. RouteInv'
  BY <1>1 DEF RefreshRead, EditorInv, RouteInv, BusyHasSave
<1> QED
  BY <1>3, <1>4, <1>5, PageFrame, DialogFrame, SaveFrame DEF RefreshRead, EditorInv, page

LEMMA LoadErrorKeeps ==
  ASSUME NoneIsNothing, EditorInv, LoadError
  PROVE  EditorInv'
<1>1. EditorTypeOK'
  BY PageTypeFrame DEF LoadError, EditorInv, EditorTypeOK
<1>2. ServerInv' /\ RouteInv'
  BY DEF LoadError, EditorInv, ServerInv, RouteInv, BusyHasSave
<1> QED
  BY <1>1, <1>2, PageFrame, DialogFrame, SaveFrame DEF LoadError, EditorInv, page

LEMMA RefreshStartKeeps ==
  ASSUME NoneIsNothing, EditorInv, RefreshStart
  PROVE  EditorInv'
<1>1. route \in Workspace /\ refresh' \in Asked /\ ReadOf(refresh', server)
  BY RequestIs DEF RefreshStart, EditorInv, EditorTypeOK, PageTypeOK
<1>2. EditorTypeOK'
  BY <1>1, PageTypeFrame DEF RefreshStart, EditorInv, EditorTypeOK
<1>3. ServerInv' /\ RouteInv'
  BY <1>1 DEF RefreshStart, EditorInv, ServerInv, RouteInv, BusyHasSave
<1> QED
  BY <1>2, <1>3, PageFrame, DialogFrame, SaveFrame DEF RefreshStart, EditorInv, page

\* The canvas of an answer, and the reading it is of.
LEMMA AnswerIs ==
  ASSUME NoneIsNothing, EditorTypeOK, NEW q \in Asked, ReadOf(q, server), Complete(q)
  PROVE  /\ FromServer(q) \in Canvas /\ q.graph.version \in Nat /\ Reading(q) \in Basis
         /\ DOMAIN FromServer(q).chips \cap Draft = {}
         /\ DOMAIN FromServer(q).chips = DOMAIN FromServer(q).at
         /\ Reading(q) # NoBasis => Proper(FromServer(q))
<1>1. q.graph \in Graph /\ q.list \in Map /\ q.of \in Workspace /\ q.seen \in Nat
  BY DEF Complete, Asked
<1>2. q.graph.nodes \in Map /\ q.graph.edges \in SUBSET Edge /\ q.graph.version \in Nat
  BY <1>1 DEF Graph
<1>3. DOMAIN q.list \in SUBSET Id
  BY <1>1, MapIs
<1> DEFINE p == PositionsFrom(DOMAIN q.list, q.graph.nodes)
<1>4. p \in Map /\ DOMAIN p = DOMAIN q.list
  BY <1>2, <1>3, MapPositions
<1> HIDE DEF p
<1>5. FromServer(q) = [chips |-> q.list, at |-> p, edges |-> q.graph.edges]
  BY DEF FromServer, p
<1>6. Reading(q) \in Basis /\ (Reading(q) # NoBasis => q.graph.version = q.seen)
  BY <1>1 DEF Reading, Basis, NoBasis
<1> QED
  BY <1>1, <1>2, <1>4, <1>5, <1>6 DEF Canvas, Proper, ReadOf, Complete

\* A canvas is not dirty against itself when all its chips have a place.
LEMMA SameIsClean ==
  ASSUME NEW c, DOMAIN c.chips \subseteq DOMAIN c.at
  PROVE  ~DirtyAgainst(c, c)
BY DEF DirtyAgainst

LEMMA DirtyIsBoolean ==
  ASSUME NEW s, NEW c
  PROVE  DirtyAgainst(s, c) \in BOOLEAN
BY DEF DirtyAgainst

\* What is remembered as saved is shown, is clean and is of one canvas.
LEMMA Remembered ==
  ASSUME NoneIsNothing, EditorInv, NEW c \in Canvas, NEW v \in Nat, NEW b \in Basis,
         RememberSaved(c, v, b), ClearHistory, UNCHANGED carried,
         DOMAIN c.chips \cap Draft = {}, DOMAIN c.chips \subseteq DOMAIN c.at, b # NoBasis => Proper(c)
  PROVE  PageInv'
<1>1. canvas' = c /\ saved' = c /\ dirty' = FALSE /\ basis' = b /\ undo' = <<>> /\ redo' = <<>>
  BY DEF RememberSaved, ClearHistory
<1>2. ~DirtyAgainst(saved', canvas')
  BY <1>1, SameIsClean
<1>3. AllProper(undo') /\ AllProper(redo')
  BY <1>1, StackEmpty
<1> QED
  BY <1>1, <1>2, <1>3 DEF PageInv, Honest, EditorInv

LEMMA LoadAnswerKeeps ==
  ASSUME NoneIsNothing, EditorInv, LoadAnswer
  PROVE  EditorInv'
<1> DEFINE c == FromServer(load)
           draft == [chips |-> carried.chips, at |-> carried.at, edges |-> carried.edges]
<1>1. load \in Asked /\ ReadOf(load, server) /\ Complete(load) /\ route # None
  BY DEF LoadAnswer, EditorInv, EditorTypeOK, ServerInv, RouteInv
<1>2. /\ c \in Canvas /\ load.graph.version \in Nat /\ Reading(load) \in Basis
      /\ DOMAIN c.chips \cap Draft = {} /\ DOMAIN c.chips = DOMAIN c.at
      /\ Reading(load) # NoBasis => Proper(c)
  BY <1>1, AnswerIs DEF EditorInv
<1> HIDE DEF c
<1>3. dialog' = Mixed(dialog) /\ save' = Mixed(save) /\ undo' = <<>> /\ redo' = <<>> /\ load' = None
  BY DEF LoadAnswer, Superseded, ClearHistory
<1>4. /\ dialog' \in Dialog \cup {None} /\ DialogInv' /\ (dialog' = None <=> dialog = None)
      /\ dialog # None => dialog'.ask = dialog.ask /\ dialog'.to = dialog.to
  BY <1>3, DialogMixed
<1>5. /\ save' \in Save \cup {None} /\ SaveInv' /\ (save' = None <=> save = None)
      /\ save # None => save'.of = save.of /\ save'.then = save.then /\ save'.to = save.to
  BY <1>3, SaveMixed
<1>6. UNCHANGED <<route, server, defs, busy, drag, refresh>>
  BY DEF LoadAnswer
<1>7. RouteInv' /\ ServerInv'
  BY <1>1, <1>3, <1>4, <1>5, <1>6 DEF EditorInv, RouteInv, BusyHasSave, ServerInv
<1>8. CASE carried # None /\ carried.of = route
  <2>1. carried \in Carried
    BY <1>8 DEF EditorInv, EditorTypeOK
  <2>2. draft \in Canvas /\ carried.basis \in Basis /\ (carried.basis # NoBasis => Proper(draft))
    BY <1>8, <2>1 DEF Carried, Canvas, EditorInv, PageInv, Proper
  <2> HIDE DEF draft
  <2>3. /\ canvas' = draft /\ saved' = c /\ dirty' = DirtyAgainst(c, draft)
        /\ version' = load.graph.version /\ basis' = carried.basis /\ carried' = None
    BY <1>8 DEF LoadAnswer, c, draft
  <2>4. EditorTypeOK'
    BY <1>2, <1>3, <1>4, <1>5, <1>6, <2>2, <2>3, DirtyIsBoolean, StackEmpty
       DEF EditorInv, EditorTypeOK, PageTypeOK
  <2>5. ~dirty' => /\ DOMAIN canvas'.chips = DOMAIN saved'.chips /\ canvas'.edges = saved'.edges
                   /\ ~DirtyAgainst(saved', canvas')
    BY <2>3 DEF DirtyAgainst
  <2>6. AllProper(undo') /\ AllProper(redo')
    BY <1>3, StackEmpty
  <2>7. PageInv'
    BY <1>2, <2>2, <2>3, <2>5, <2>6 DEF PageInv, Honest
  <2> QED
    BY <1>4, <1>5, <1>7, <2>4, <2>7 DEF EditorInv
<1>9. CASE ~(carried # None /\ carried.of = route)
  <2>1. RememberSaved(c, load.graph.version, Reading(load)) /\ ClearHistory /\ UNCHANGED carried
    BY <1>9 DEF LoadAnswer, c
  <2>2. EditorTypeOK'
    BY <1>2, <1>3, <1>4, <1>5, <1>6, <2>1, StackEmpty DEF EditorInv, EditorTypeOK, PageTypeOK, RememberSaved
  <2>3. PageInv'
    BY <1>2, <2>1, Remembered
  <2> QED
    BY <1>4, <1>5, <1>7, <2>2, <2>3 DEF EditorInv
<1> QED
  BY <1>8, <1>9

LEMMA RefreshAnswerKeeps ==
  ASSUME NoneIsNothing, EditorInv, RefreshAnswer
  PROVE  EditorInv'
<1> DEFINE c == FromServer(refresh)
<1>1. refresh \in Asked /\ ReadOf(refresh, server) /\ Complete(refresh) /\ route # None
  BY DEF RefreshAnswer, EditorInv, EditorTypeOK, ServerInv, RouteInv
<1>2. /\ c \in Canvas /\ refresh.graph.version \in Nat /\ Reading(refresh) \in Basis
      /\ DOMAIN c.chips \cap Draft = {} /\ DOMAIN c.chips = DOMAIN c.at
      /\ Reading(refresh) # NoBasis => Proper(c)
  BY <1>1, AnswerIs DEF EditorInv
<1> HIDE DEF c
<1>3. UNCHANGED <<route, server, defs, busy, drag, load, carried>> /\ refresh' = None
  BY DEF RefreshAnswer
<1>4. CASE dirty
  <2>1. UNCHANGED <<page, dialog, save>>
    BY <1>4 DEF RefreshAnswer
  <2>2. EditorTypeOK'
    BY <1>3, <2>1, PageTypeFrame DEF EditorInv, EditorTypeOK
  <2>3. RouteInv' /\ ServerInv'
    BY <1>1, <1>3, <2>1 DEF EditorInv, RouteInv, BusyHasSave, ServerInv
  <2> QED
    BY <1>3, <2>1, <2>2, <2>3, PageFrame, DialogFrame, SaveFrame DEF EditorInv, page
<1>5. CASE ~dirty
  <2>1. /\ RememberSaved(c, refresh.graph.version, Reading(refresh)) /\ ClearHistory
        /\ dialog' = Mixed(dialog) /\ save' = Mixed(save)
    BY <1>5 DEF RefreshAnswer, Superseded, c
  <2>2. /\ dialog' \in Dialog \cup {None} /\ DialogInv' /\ (dialog' = None <=> dialog = None)
        /\ dialog # None => dialog'.ask = dialog.ask /\ dialog'.to = dialog.to
    BY <2>1, DialogMixed
  <2>3. /\ save' \in Save \cup {None} /\ SaveInv' /\ (save' = None <=> save = None)
        /\ save # None => save'.of = save.of /\ save'.then = save.then /\ save'.to = save.to
    BY <2>1, SaveMixed
  <2>4. RouteInv' /\ ServerInv'
    BY <1>1, <1>3, <2>2, <2>3 DEF EditorInv, RouteInv, BusyHasSave, ServerInv
  <2>5. EditorTypeOK'
    BY <1>2, <1>3, <2>1, <2>2, <2>3, StackEmpty
       DEF EditorInv, EditorTypeOK, PageTypeOK, RememberSaved, ClearHistory
  <2>6. PageInv'
    BY <1>2, <1>3, <2>1, Remembered
  <2> QED
    BY <2>2, <2>3, <2>4, <2>5, <2>6 DEF EditorInv
<1> QED
  BY <1>4, <1>5

-----------------------------------------------------------------------------
(* Edits                                                                   *)

\* What an edit that is pushed and shown does to the page.
LEMMA Edited ==
  ASSUME EditorInv, NEW c \in Canvas, PushUndo(canvas), Show(c), UNCHANGED carried,
         basis' # NoBasis => basis' = basis /\ Proper(c)
  PROVE  /\ PageInv' /\ canvas' \in Canvas /\ dirty' \in BOOLEAN /\ UNCHANGED <<saved, version>>
         /\ undo' \in Seq(Canvas) /\ redo' \in Seq(Canvas)
<1>1. canvas' = c /\ dirty' = DirtyAgainst(saved, c) /\ UNCHANGED <<saved, version>>
  BY DEF Show
<1>2. canvas \in Canvas /\ undo \in Seq(Canvas)
  BY DEF EditorInv, EditorTypeOK, PageTypeOK
<1>3. undo' = Append50(undo, canvas) /\ redo' = <<>>
  BY DEF PushUndo
<1>4. /\ undo' \in Seq(Canvas) /\ redo' \in Seq(Canvas) /\ AllProper(redo')
      /\ AllProper(undo) /\ Proper(canvas) => AllProper(undo')
  BY <1>2, <1>3, StackPush, StackEmpty
<1>5. Honest'
  BY <1>1 DEF Honest, DirtyAgainst
<1> QED
  BY <1>1, <1>4, <1>5, DirtyIsBoolean DEF EditorInv, PageInv

\* An edit under the same dialog and save that takes nothing off the canvas.
LEMMA Grown ==
  ASSUME EditorInv, UNCHANGED <<route, basis, busy, dialog, save>>,
         DOMAIN canvas.chips \subseteq DOMAIN canvas'.chips, DOMAIN canvas.at \subseteq DOMAIN canvas'.at
  PROVE  DialogInv' /\ SaveInv'
BY DEF EditorInv, DialogInv, SaveInv, SaveFollows

LEMMA DragStartKeeps ==
  ASSUME NoneIsNothing, EditorInv, NEW i, DragStart(i)
  PROVE  EditorInv'
<1>1. canvas \in Canvas /\ canvas.at \in Map /\ i \in DOMAIN canvas.at /\ i \in Id
  BY MapIs DEF DragStart, EditorInv, EditorTypeOK, PageTypeOK, Canvas
<1> DEFINE at == [canvas.at EXCEPT ![i] = 1 - @]
<1>2. at \in Map /\ DOMAIN at = DOMAIN canvas.at
  BY <1>1, MapFlip
<1> HIDE DEF at
<1>3. canvas' = [canvas EXCEPT !.at = at]
  BY <1>1 DEF DragStart, Canvas, at
<1>4. canvas' \in Canvas /\ canvas'.chips = canvas.chips /\ canvas'.edges = canvas.edges /\ canvas'.at = at
  BY <1>1, <1>2, <1>3 DEF Canvas
<1>5. drag' \in Drag
  BY <1>1, MapIs DEF DragStart, Drag
<1>6. /\ UNCHANGED <<saved, dirty, version, undo, redo, basis, dialog>>
      /\ UNCHANGED <<route, server, defs, busy, load, refresh, save, carried>>
  BY DEF DragStart, Rest
<1>7. EditorTypeOK'
  BY <1>4, <1>5, <1>6 DEF EditorInv, EditorTypeOK, PageTypeOK
<1>8. PageInv'
  BY <1>2, <1>4, <1>5, <1>6 DEF EditorInv, PageInv, Honest, Proper, NoneIsNothing
<1>9. DialogInv' /\ SaveInv'
  BY <1>2, <1>4, <1>6, Grown
<1> QED
  BY <1>6, <1>7, <1>8, <1>9, RouteFrame, ServerFrame DEF EditorInv

LEMMA DragEndKeeps ==
  ASSUME NoneIsNothing, EditorInv, DragEnd
  PROVE  EditorInv'
<1>1. /\ canvas \in Canvas /\ canvas.at \in Map /\ undo \in Seq(Canvas)
      /\ drag.id \in Id /\ drag.origin \in Value
  BY DEF DragEnd, EditorInv, EditorTypeOK, PageTypeOK, Canvas, Drag
<1> DEFINE at == Put(canvas.at, drag.id, drag.origin)
           before == [canvas EXCEPT !.at = at]
<1>2. at \in Map /\ DOMAIN at = DOMAIN canvas.at \cup {drag.id}
  BY <1>1, MapPut
<1> HIDE DEF at
<1>3. before \in Canvas /\ (Proper(canvas) => Proper(before))
  BY <1>1, <1>2 DEF Canvas, Proper
<1> HIDE DEF before
<1>4. /\ undo' = Append50(undo, before) /\ redo' = <<>> /\ dirty' = DirtyAgainst(saved, canvas)
      /\ drag' = None
  BY <1>1 DEF DragEnd, PushUndo, before, at, Canvas
<1>5. /\ undo' \in Seq(Canvas) /\ redo' \in Seq(Canvas) /\ AllProper(redo')
      /\ AllProper(undo) /\ Proper(canvas) => AllProper(undo')
  BY <1>1, <1>3, <1>4, StackPush, StackEmpty
<1>6. /\ UNCHANGED <<canvas, saved, version, basis, dialog>>
      /\ UNCHANGED <<route, server, defs, busy, load, refresh, save, carried>>
  BY DEF DragEnd, Rest
<1>7. EditorTypeOK'
  BY <1>4, <1>5, <1>6, DirtyIsBoolean DEF EditorInv, EditorTypeOK, PageTypeOK
<1>8. Honest'
  BY <1>4, <1>6 DEF Honest, DirtyAgainst
<1>9. PageInv'
  BY <1>5, <1>6, <1>8 DEF EditorInv, PageInv
<1> QED
  BY <1>6, <1>7, <1>9, RouteFrame, ServerFrame, DialogFrame, SaveFrame DEF EditorInv

LEMMA RenameKeeps ==
  ASSUME NoneIsNothing, EditorInv, NEW i, Rename(i)
  PROVE  EditorInv'
<1>1. canvas \in Canvas /\ canvas.chips \in Map /\ i \in DOMAIN canvas.chips
  BY DEF Rename, EditorInv, EditorTypeOK, PageTypeOK, Canvas
<1> DEFINE chips == [canvas.chips EXCEPT ![i] = 1 - @]
           c == [canvas EXCEPT !.chips = chips]
<1>2. chips \in Map /\ DOMAIN chips = DOMAIN canvas.chips
  BY <1>1, MapFlip
<1> HIDE DEF chips
<1>3. /\ c \in Canvas /\ c.chips = chips /\ c.at = canvas.at
      /\ Proper(canvas) => Proper(c)
  BY <1>1, <1>2 DEF Canvas, Proper
<1>4. Show(c) /\ PushUndo(canvas)
  BY <1>1 DEF Rename, chips, Canvas
<1> HIDE DEF c
<1>5. /\ UNCHANGED <<basis, drag, dialog>>
      /\ UNCHANGED <<route, server, defs, busy, load, refresh, save, carried>> /\ canvas' = c
  BY <1>4 DEF Rename, Rest, Show
<1>6. /\ PageInv' /\ canvas' \in Canvas /\ dirty' \in BOOLEAN /\ UNCHANGED <<saved, version>>
      /\ undo' \in Seq(Canvas) /\ redo' \in Seq(Canvas)
  BY <1>3, <1>4, <1>5, Edited DEF EditorInv, PageInv
<1>7. EditorTypeOK'
  BY <1>5, <1>6 DEF EditorInv, EditorTypeOK, PageTypeOK
<1>8. DialogInv' /\ SaveInv'
  BY <1>2, <1>3, <1>5, Grown
<1> QED
  BY <1>5, <1>6, <1>7, <1>8, RouteFrame, ServerFrame DEF EditorInv

LEMMA PlaceChipKeeps ==
  ASSUME NoneIsNothing, EditorInv, NEW i \in Id, PlaceChip(i)
  PROVE  EditorInv'
<1> DEFINE v == IF i \in Draft THEN 0 ELSE defs[i]
           chips == Put(canvas.chips, i, v)
           at == Put(canvas.at, i, 0)
           c == [canvas EXCEPT !.chips = chips, !.at = at]
<1>1. canvas \in Canvas /\ canvas.chips \in Map /\ canvas.at \in Map /\ v \in Value /\ 0 \in Value
  BY MapIs DEF PlaceChip, EditorInv, EditorTypeOK, PageTypeOK, Canvas, Value
<1> HIDE DEF v
<1>2. /\ chips \in Map /\ DOMAIN chips = DOMAIN canvas.chips \cup {i}
      /\ at \in Map /\ DOMAIN at = DOMAIN canvas.at \cup {i}
  BY <1>1, MapPut
<1> HIDE DEF chips, at
<1>3. /\ c \in Canvas /\ c.chips = chips /\ c.at = at
      /\ Proper(canvas) => Proper(c)
  BY <1>1, <1>2 DEF Canvas, Proper
<1>4. Show(c) /\ PushUndo(canvas)
  BY <1>1 DEF PlaceChip, chips, at, v, Canvas
<1> HIDE DEF c
<1>5. /\ UNCHANGED <<basis, drag, dialog>>
      /\ UNCHANGED <<route, server, defs, busy, load, refresh, save, carried>> /\ canvas' = c
  BY <1>4 DEF PlaceChip, Rest, Show
<1>6. /\ PageInv' /\ canvas' \in Canvas /\ dirty' \in BOOLEAN /\ UNCHANGED <<saved, version>>
      /\ undo' \in Seq(Canvas) /\ redo' \in Seq(Canvas)
  BY <1>3, <1>4, <1>5, Edited DEF EditorInv, PageInv
<1>7. EditorTypeOK'
  BY <1>5, <1>6 DEF EditorInv, EditorTypeOK, PageTypeOK
<1>8. DialogInv' /\ SaveInv'
  BY <1>2, <1>3, <1>5, Grown
<1> QED
  BY <1>5, <1>6, <1>7, <1>8, RouteFrame, ServerFrame DEF EditorInv

\* A dialog that opens holds what is shown; none asks for a deletion while a save runs.
LEMMA AskedBesideSave ==
  ASSUME NoneIsNothing, EditorInv, UNCHANGED <<route, page, busy, save>>,
         dialog' # None, dialog'.basis = basis,
         dialog'.ask = "delete" => ~busy,
         dialog'.ask = "connect" => dialog'.chips = canvas.chips
  PROVE  SaveInv'
BY DEF EditorInv, SaveInv, SaveFollows, page

LEMMA AskOpens ==
  ASSUME NoneIsNothing, EditorInv, NEW what \in Wholes, NEW w \in Workspace \cup {None},
         Ask(what, w), UNCHANGED <<route, page, busy, save>>
  PROVE  /\ dialog' \in Dialog /\ dialog'.ask = what /\ dialog'.to = w
         /\ DialogInv' /\ SaveInv'
<1>1. canvas \in Canvas /\ canvas.chips \in Map /\ canvas.edges \in SUBSET Edge /\ basis \in Basis
  BY DEF EditorInv, EditorTypeOK, PageTypeOK, Canvas
<1>2. /\ dialog' \in Dialog /\ dialog'.ask = what /\ dialog'.to = w /\ dialog'.basis = basis
      /\ dialog'.edges = canvas.edges
  BY <1>1 DEF Ask, Dialog
<1>3. dialog' # None /\ what \notin Parts
  BY <1>2 DEF NoneIsNothing, Wholes, Parts
<1>4. basis # NoBasis => Ends(canvas.edges) \subseteq DOMAIN canvas.chips
  BY DEF EditorInv, PageInv, Proper
<1>5. DialogInv'
  BY <1>2, <1>3, <1>4 DEF DialogInv, page, Parts
<1>6. SaveInv'
  BY <1>2, <1>3, AskedBesideSave DEF Parts
<1> QED
  BY <1>2, <1>5, <1>6

LEMMA ConnectKeeps ==
  ASSUME NoneIsNothing, EditorInv, NEW f \in Id, NEW t \in Id, NEW l \in Link, Connect(f, t, l)
  PROVE  EditorInv'
<1> DEFINE edges == Connected(canvas, f, t, l)
           c == [canvas EXCEPT !.edges = edges]
<1>1. /\ canvas \in Canvas /\ canvas.chips \in Map /\ canvas.at \in Map /\ canvas.edges \in SUBSET Edge
      /\ basis \in Basis
  BY DEF EditorInv, EditorTypeOK, PageTypeOK, Canvas
<1>2. [id |-> l, from |-> f, to |-> t] \in Edge
  BY DEF Connect, Edge
<1>3. /\ edges \in SUBSET Edge
      /\ Ends(canvas.edges) \subseteq DOMAIN canvas.chips => Ends(edges) \subseteq DOMAIN canvas.chips
  BY <1>1, <1>2 DEF Connected, Between, Ends, Connect
<1> HIDE DEF edges
<1>4. route # None /\ dialog = None /\ UNCHANGED drag
      /\ UNCHANGED <<route, server, defs, busy, load, refresh, save, carried>>
  BY DEF Connect, Edit, Free, Rest
<1>5. CASE Between(canvas.edges, f, t) = {}
  <2>1. PushUndo(canvas) /\ Show(c) /\ UNCHANGED <<basis, dialog>>
    BY <1>5 DEF Connect, edges
  <2>2. /\ c \in Canvas /\ c.chips = canvas.chips /\ c.at = canvas.at
        /\ Proper(canvas) => Proper(c)
    BY <1>1, <1>3 DEF Canvas, Proper
  <2> HIDE DEF c
  <2>3. /\ PageInv' /\ canvas' \in Canvas /\ dirty' \in BOOLEAN /\ UNCHANGED <<saved, version>>
        /\ undo' \in Seq(Canvas) /\ redo' \in Seq(Canvas) /\ canvas' = c
    BY <1>4, <2>1, <2>2, Edited DEF EditorInv, PageInv, Show
  <2>4. EditorTypeOK'
    BY <1>4, <2>1, <2>3 DEF EditorInv, EditorTypeOK, PageTypeOK
  <2>5. DialogInv' /\ SaveInv'
    BY <1>4, <2>1, <2>2, <2>3, Grown
  <2> QED
    BY <1>4, <2>1, <2>3, <2>4, <2>5, RouteFrame, ServerFrame DEF EditorInv
<1>6. CASE Between(canvas.edges, f, t) # {}
  <2>1. /\ UNCHANGED page
        /\ dialog' = [ask |-> "connect", chips |-> canvas.chips, basis |-> basis,
                      edges |-> edges, drop |-> {}, to |-> None]
    BY <1>6 DEF Connect, edges
  <2>2. dialog' \in Dialog /\ dialog' # None
    BY <1>1, <1>3, <2>1 DEF Dialog, Parts, NoneIsNothing
  <2>3. DialogInv'
    BY <1>3, <2>1 DEF EditorInv, PageInv, Proper, DialogInv, page, Wholes
  <2>4. SaveInv'
    BY <1>4, <2>1, <2>2, AskedBesideSave
  <2>5. RouteInv'
    BY <1>4, <2>1 DEF EditorInv, RouteInv, BusyHasSave
  <2>6. EditorTypeOK'
    BY <1>4, <2>1, <2>2 DEF EditorInv, EditorTypeOK, PageTypeOK, page
  <2> QED
    BY <1>4, <2>1, <2>3, <2>4, <2>5, <2>6, PageFrame, ServerFrame DEF EditorInv
<1> QED
  BY <1>5, <1>6

LEMMA AskDeleteKeeps ==
  ASSUME NoneIsNothing, EditorInv, NEW ids, NEW cut, AskDelete(ids, cut)
  PROVE  EditorInv'
<1> DEFINE chips == Without(canvas.chips, ids)
           edges == {e \in canvas.edges \ cut : {e.from, e.to} \cap ids = {}}
<1>1. /\ canvas \in Canvas /\ canvas.chips \in Map /\ canvas.at \in Map /\ canvas.edges \in SUBSET Edge
      /\ basis \in Basis /\ ids \subseteq DOMAIN canvas.chips
  BY DEF AskDelete, EditorInv, EditorTypeOK, PageTypeOK, Canvas
<1>2. chips \in Map /\ DOMAIN chips = DOMAIN canvas.chips \ ids /\ ids \in SUBSET Id
  BY <1>1, MapWithout, MapIs
<1> HIDE DEF chips
<1>3. /\ edges \in SUBSET Edge
      /\ Ends(canvas.edges) \subseteq DOMAIN canvas.chips => Ends(edges) \subseteq DOMAIN chips
  BY <1>1, <1>2 DEF Ends
<1> HIDE DEF edges
<1>4. /\ route # None /\ ~busy /\ UNCHANGED <<page, drag>>
      /\ UNCHANGED <<route, server, defs, busy, load, refresh, save, carried>>
      /\ dialog' = [ask |-> "delete", chips |-> chips, basis |-> basis, edges |-> edges,
                    drop |-> ids, to |-> None]
  BY DEF AskDelete, Edit, Free, Rest, chips, edges
<1>5. dialog' \in Dialog /\ dialog' # None
  BY <1>1, <1>2, <1>3, <1>4 DEF Dialog, Parts, NoneIsNothing
<1>6. DialogInv'
  BY <1>2, <1>3, <1>4 DEF EditorInv, PageInv, Proper, DialogInv, page, Wholes
<1>7. SaveInv'
  BY <1>4, <1>5, AskedBesideSave
<1>8. RouteInv'
  BY <1>4 DEF EditorInv, RouteInv, BusyHasSave
<1>9. EditorTypeOK'
  BY <1>4, <1>5 DEF EditorInv, EditorTypeOK, PageTypeOK, page
<1> QED
  BY <1>4, <1>6, <1>7, <1>8, <1>9, PageFrame, ServerFrame DEF EditorInv

LEMMA ConfirmEditKeeps ==
  ASSUME NoneIsNothing, EditorInv, ConfirmEdit
  PROVE  EditorInv'
<1> DEFINE at == Without(canvas.at, dialog.drop)
           c == [chips |-> dialog.chips, at |-> at, edges |-> dialog.edges]
<1>1. /\ dialog \in Dialog /\ dialog # None /\ dialog.ask \in Parts
      /\ dialog.chips \in Map /\ dialog.edges \in SUBSET Edge /\ dialog.basis \in Basis
      /\ canvas \in Canvas /\ canvas.at \in Map
  BY DEF ConfirmEdit, Parts, EditorInv, EditorTypeOK, PageTypeOK, Canvas, Dialog
<1>2. at \in Map /\ DOMAIN at = DOMAIN canvas.at \ dialog.drop
  BY <1>1, MapWithout
<1>3. PushUndo(canvas) /\ Show(c) /\ basis' = dialog.basis /\ dialog' = None
  BY DEF ConfirmEdit
<1> HIDE DEF at
<1>4. c \in Canvas /\ (dialog.basis # NoBasis => dialog.basis = basis /\ Proper(c))
  BY <1>1, <1>2 DEF Canvas, EditorInv, DialogInv, Proper
<1>5. c.chips = dialog.chips /\ c.at = at
  OBVIOUS
<1> HIDE DEF c
<1>6. /\ UNCHANGED <<route, server, defs, busy, load, refresh, save, carried>>
      /\ drag' \in Drag \cup {None}
  BY DEF ConfirmEdit, Rest, EditorInv, EditorTypeOK, PageTypeOK
<1>7. /\ PageInv' /\ canvas' \in Canvas /\ dirty' \in BOOLEAN /\ UNCHANGED <<saved, version>>
      /\ undo' \in Seq(Canvas) /\ redo' \in Seq(Canvas) /\ canvas' = c
  BY <1>3, <1>4, <1>6, Edited DEF Show
<1>8. EditorTypeOK'
  BY <1>1, <1>3, <1>6, <1>7 DEF EditorInv, EditorTypeOK, PageTypeOK
<1>9. DialogInv'
  BY <1>3 DEF DialogInv
<1>10. RouteInv'
  BY <1>3, <1>6 DEF EditorInv, RouteInv, BusyHasSave
<1>11. dialog.ask = "connect" => DOMAIN at = DOMAIN canvas.at
  BY <1>1, <1>2 DEF EditorInv, DialogInv
<1>12. SaveInv'
  BY <1>1, <1>3, <1>4, <1>5, <1>6, <1>7, <1>11 DEF EditorInv, SaveInv, SaveFollows, Parts
<1> QED
  BY <1>6, <1>7, <1>8, <1>9, <1>10, <1>12, ServerFrame DEF EditorInv

\* Undo and redo are refused while a save runs, so no save of this reading is at work.
LEMMA Stepped ==
  ASSUME NoneIsNothing, EditorInv, ~busy, dialog = None, NEW c \in Canvas, Show(c), drag' = None,
         UNCHANGED <<basis, dialog>>, Rest,
         undo' \in Seq(Canvas), redo' \in Seq(Canvas),
         basis # NoBasis => Proper(c) /\ AllProper(undo') /\ AllProper(redo')
  PROVE  EditorInv'
<1>1. canvas' = c /\ dirty' = DirtyAgainst(saved, c) /\ UNCHANGED <<saved, version>>
  BY DEF Show
<1>2. UNCHANGED <<route, server, defs, busy, load, refresh, save, carried>>
  BY DEF Rest
<1>3. EditorTypeOK'
  BY <1>1, <1>2, DirtyIsBoolean DEF EditorInv, EditorTypeOK, PageTypeOK
<1>4. Honest'
  BY <1>1 DEF Honest, DirtyAgainst
<1>5. PageInv'
  BY <1>1, <1>2, <1>4 DEF EditorInv, PageInv
<1>6. DialogInv' /\ SaveInv'
  BY <1>2 DEF EditorInv, DialogInv, SaveInv
<1> QED
  BY <1>2, <1>3, <1>5, <1>6, RouteFrame, ServerFrame DEF EditorInv

LEMMA UndoKeeps ==
  ASSUME NoneIsNothing, EditorInv, Undo
  PROVE  EditorInv'
<1>1. canvas \in Canvas /\ undo \in Seq(Canvas) /\ redo \in Seq(Canvas) /\ undo # <<>>
  BY DEF Undo, EditorInv, EditorTypeOK, PageTypeOK
<1>2. /\ undo' \in Seq(Canvas) /\ undo[Len(undo)] \in Canvas
      /\ AllProper(undo) => AllProper(undo') /\ Proper(undo[Len(undo)])
  BY <1>1, StackPop DEF Undo
<1>3. redo' \in Seq(Canvas) /\ (AllProper(redo) /\ Proper(canvas) => AllProper(redo'))
  BY <1>1, StackPush DEF Undo
<1>4. basis # NoBasis => Proper(undo[Len(undo)]) /\ AllProper(undo') /\ AllProper(redo')
  BY <1>2, <1>3 DEF EditorInv, PageInv
<1>5. ~busy /\ dialog = None /\ Show(undo[Len(undo)]) /\ drag' = None /\ UNCHANGED <<basis, dialog>> /\ Rest
  BY DEF Undo, Free
<1> QED
  BY <1>2, <1>3, <1>4, <1>5, Stepped

LEMMA RedoKeeps ==
  ASSUME NoneIsNothing, EditorInv, Redo
  PROVE  EditorInv'
<1>1. canvas \in Canvas /\ undo \in Seq(Canvas) /\ redo \in Seq(Canvas) /\ redo # <<>>
  BY DEF Redo, EditorInv, EditorTypeOK, PageTypeOK
<1>2. /\ redo' \in Seq(Canvas) /\ redo[Len(redo)] \in Canvas
      /\ AllProper(redo) => AllProper(redo') /\ Proper(redo[Len(redo)])
  BY <1>1, StackPop DEF Redo
<1>3. undo' \in Seq(Canvas) /\ (AllProper(undo) /\ Proper(canvas) => AllProper(undo'))
  BY <1>1, StackPush DEF Redo
<1>4. basis # NoBasis => Proper(redo[Len(redo)]) /\ AllProper(undo') /\ AllProper(redo')
  BY <1>2, <1>3 DEF EditorInv, PageInv
<1>5. ~busy /\ dialog = None /\ Show(redo[Len(redo)]) /\ drag' = None /\ UNCHANGED <<basis, dialog>> /\ Rest
  BY DEF Redo, Free
<1> QED
  BY <1>2, <1>3, <1>4, <1>5, Stepped

-----------------------------------------------------------------------------
(* Leaving the canvas                                                      *)

\* The page goes on to another workspace; what a save still holds is of the one before.
LEMMA GotoKeeps ==
  ASSUME NoneIsNothing, EditorInv, NEW w \in Workspace, Goto(w), dialog' = None,
         UNCHANGED <<server, defs>>
  PROVE  EditorInv'
<1>1. /\ route' = w /\ busy' = FALSE /\ save' = Mixed(save) /\ UNCHANGED <<page, drag, refresh, carried>>
      /\ load' \in Asked /\ ReadOf(load', server) /\ w # None
  BY RequestIs DEF Goto, EditorInv, NoneIsNothing
<1>2. /\ save' \in Save \cup {None} /\ SaveInv' /\ (save' = None <=> save = None)
      /\ save # None => save'.then = save.then /\ save'.to = save.to
  BY <1>1, SaveMixed
<1>3. EditorTypeOK'
  BY <1>1, <1>2 DEF EditorInv, EditorTypeOK, PageTypeOK, page
<1>4. RouteInv' /\ ServerInv' /\ DialogInv'
  BY <1>1, <1>2 DEF EditorInv, RouteInv, BusyHasSave, ServerInv, DialogInv
<1> QED
  BY <1>1, <1>2, <1>3, <1>4, PageFrame DEF EditorInv

\* An editor page opens; what it carries of one reading is one canvas.
LEMMA CloseKeeps ==
  ASSUME NoneIsNothing, EditorInv, ClosePage, save' = None, dialog' = None,
         carried' \in Carried, carried'.basis # NoBasis => Proper(carried'),
         UNCHANGED <<server, defs>>
  PROVE  EditorInv'
<1>1. /\ route' = None /\ load' = None /\ refresh' = None /\ drag' = None /\ busy' = FALSE
      /\ canvas' = Empty /\ saved' = Empty /\ dirty' = FALSE /\ version' = 1
      /\ basis' = NoBasis /\ undo' = <<>> /\ redo' = <<>>
  BY DEF ClosePage, ClearHistory
<1>2. NoBasis \in Basis
  BY DEF NoBasis, Basis
<1>3. EditorTypeOK'
  BY <1>1, <1>2, EmptyIs, StackEmpty DEF EditorInv, EditorTypeOK, PageTypeOK
<1>4. RouteInv' /\ ServerInv' /\ DialogInv' /\ SaveInv'
  BY <1>1 DEF EditorInv, RouteInv, BusyHasSave, ServerInv, DialogInv, SaveInv, NoneIsNothing
<1>5. PageInv'
  BY <1>1, EmptyIs DEF PageInv
<1> QED
  BY <1>3, <1>4, <1>5 DEF EditorInv

LEMMA LeaveKeeps ==
  ASSUME NoneIsNothing, EditorInv, NEW w \in Workspace, Leave(w)
  PROVE  EditorInv'
<1>1. CASE dirty
  <2>1. /\ Ask("leave", w) /\ route # None /\ UNCHANGED <<server, defs>>
        /\ UNCHANGED <<route, page, busy, drag, load, refresh, save, carried>>
    BY <1>1 DEF Leave
  <2>2. dialog' \in Dialog /\ dialog'.ask = "leave" /\ dialog'.to = w /\ DialogInv' /\ SaveInv'
    BY <2>1, AskOpens DEF Wholes
  <2>3. EditorTypeOK' /\ RouteInv'
    BY <2>1, <2>2 DEF EditorInv, EditorTypeOK, PageTypeOK, RouteInv, BusyHasSave, page
  <2> QED
    BY <2>1, <2>2, <2>3, PageFrame, ServerFrame DEF EditorInv
<1>2. CASE ~dirty
  <2>1. Goto(w) /\ dialog' = None /\ UNCHANGED <<server, defs>>
    BY <1>2 DEF Leave
  <2> QED
    BY <2>1, GotoKeeps
<1> QED
  BY <1>1, <1>2

LEMMA OpenEditorKeeps ==
  ASSUME NoneIsNothing, EditorInv, NEW i, OpenEditor(i)
  PROVE  EditorInv'
<1>1. route \in Workspace /\ route # None /\ dialog = None /\ save = None /\ UNCHANGED <<server, defs, save>>
  BY DEF OpenEditor, Free, EditorInv, EditorTypeOK, PageTypeOK
<1>2. CASE dirty \/ i \in Draft
  <2>1. Ask("edit", None) /\ UNCHANGED <<route, page, busy, drag, load, refresh, carried>>
    BY <1>2 DEF OpenEditor
  <2>2. dialog' \in Dialog /\ dialog'.ask = "edit" /\ DialogInv' /\ SaveInv'
    BY <1>1, <2>1, AskOpens DEF Wholes
  <2>3. EditorTypeOK' /\ RouteInv'
    BY <1>1, <2>1, <2>2 DEF EditorInv, EditorTypeOK, PageTypeOK, RouteInv, BusyHasSave, page
  <2> QED
    BY <1>1, <2>1, <2>2, <2>3, PageFrame, ServerFrame DEF EditorInv
<1>3. CASE ~(dirty \/ i \in Draft)
  <2>1. ClosePage /\ dialog' = None /\ save' = None
        /\ carried' = [of |-> route, chips |-> canvas.chips, at |-> saved.at, edges |-> saved.edges,
                       basis |-> basis]
    BY <1>1, <1>3 DEF OpenEditor, GotoEditor
  <2>2. canvas \in Canvas /\ saved \in Canvas /\ basis \in Basis
    BY DEF EditorInv, EditorTypeOK, PageTypeOK
  <2>3. carried' \in Carried
    BY <1>1, <2>1, <2>2 DEF Carried, Canvas
  <2>4. carried'.basis # NoBasis => Proper(carried')
    BY <1>3, <2>1 DEF EditorInv, PageInv, Honest, Proper
  <2> QED
    BY <1>1, <2>1, <2>3, <2>4, CloseKeeps
<1> QED
  BY <1>2, <1>3

LEMMA ReturnFromEditorKeeps ==
  ASSUME NoneIsNothing, EditorInv, ReturnFromEditor
  PROVE  EditorInv'
<1>1. /\ route = None /\ save = None /\ dialog = None /\ carried \in Carried /\ carried # None
      /\ UNCHANGED <<server, defs, page, busy, drag, dialog, refresh, save, carried>>
  BY DEF ReturnFromEditor, EditorInv, RouteInv, EditorTypeOK
<1>2. carried.of \in Workspace /\ route' = carried.of /\ load' \in Asked /\ ReadOf(load', server)
  BY <1>1, RequestIs DEF ReturnFromEditor, Carried, EditorInv
<1>3. EditorTypeOK'
  BY <1>1, <1>2 DEF EditorInv, EditorTypeOK, PageTypeOK, page
<1>4. RouteInv' /\ ServerInv' /\ SaveInv'
  BY <1>1, <1>2 DEF EditorInv, RouteInv, BusyHasSave, ServerInv, SaveInv, NoneIsNothing
<1> QED
  BY <1>1, <1>3, <1>4, PageFrame, DialogFrame DEF EditorInv, page

LEMMA DeclineKeeps ==
  ASSUME NoneIsNothing, EditorInv, Decline
  PROVE  EditorInv'
<1>1. dialog # None /\ dialog' = None /\ UNCHANGED <<server, defs>>
  BY DEF Decline
<1>2. CASE dialog.ask = "leave"
  <2>1. Goto(dialog.to) /\ dialog.to \in Workspace
    BY <1>1, <1>2 DEF Decline, EditorInv, RouteInv
  <2> QED
    BY <1>1, <2>1, GotoKeeps
<1>3. CASE dialog.ask # "leave"
  <2>1. UNCHANGED <<route, page, busy, drag, load, refresh, save, carried>>
    BY <1>3 DEF Decline
  <2>2. EditorTypeOK' /\ RouteInv' /\ DialogInv' /\ SaveInv'
    BY <1>1, <2>1 DEF EditorInv, EditorTypeOK, PageTypeOK, RouteInv, BusyHasSave, page, DialogInv,
                      SaveInv, SaveFollows
  <2> QED
    BY <1>1, <2>1, <2>2, PageFrame, ServerFrame DEF EditorInv
<1> QED
  BY <1>2, <1>3

-----------------------------------------------------------------------------
(* Saving                                                                  *)

LEMMA RequestSaveKeeps ==
  ASSUME NoneIsNothing, EditorInv, RequestSave
  PROVE  EditorInv'
<1>1. /\ Ask("save", None) /\ route # None
      /\ UNCHANGED <<route, server, defs, page, busy, drag, load, refresh, save, carried>>
  BY DEF RequestSave, Free
<1>2. dialog' \in Dialog /\ dialog'.ask = "save" /\ DialogInv' /\ SaveInv'
  BY <1>1, AskOpens DEF Wholes
<1>3. EditorTypeOK' /\ RouteInv'
  BY <1>1, <1>2 DEF EditorInv, EditorTypeOK, PageTypeOK, RouteInv, BusyHasSave, page
<1> QED
  BY <1>1, <1>2, <1>3, PageFrame, ServerFrame DEF EditorInv

\* What a save keeps while it goes on without a request.
SameSave(r, s) ==
  /\ r \in Save
  /\ r.of = s.of /\ r.then = s.then /\ r.to = s.to /\ r.drafts = s.drafts /\ r.chips = s.chips
  /\ r.edges = s.edges /\ r.basis = s.basis /\ r.answer = s.answer /\ r.replaced = s.replaced

LEMMA GoesOnToPut ==
  ASSUME PageTypeOK, NEW s \in Save
  PROVE  /\ SameSave(AfterUpdate(s), s) /\ AfterUpdate(s).at = s.at
         /\ AfterUpdate(s).step \in {s.step, "put"} /\ (HoldsTodo(s) => HoldsTodo(AfterUpdate(s)))
<1>1. version \in Nat
  BY DEF PageTypeOK
<1>2. CASE s.todo # {}
  BY <1>2 DEF AfterUpdate, SameSave
<1>3. CASE s.todo = {}
  BY <1>1, <1>3 DEF AfterUpdate, SameSave, Save, Steps, HoldsTodo
<1> QED
  BY <1>2, <1>3

LEMMA GoesOnToUpdate ==
  ASSUME PageTypeOK, NEW s \in Save
  PROVE  /\ SameSave(AfterCreate(s), s) /\ AfterCreate(s).at = s.at
         /\ HoldsTodo(s) => HoldsTodo(AfterCreate(s))
         /\ \/ s.drafts # {} /\ AfterCreate(s).step = s.step
            \/ s.drafts = {} /\ AfterCreate(s).step \in {"update", "put"}
<1>1. CASE s.drafts # {}
  BY <1>1 DEF AfterCreate, SameSave
<1>2. CASE s.drafts = {}
  <2> DEFINE todo == Changed(s.chips)
             u == [s EXCEPT !.step = "update", !.todo = todo]
  <2>1. todo \in SUBSET Id /\ todo \subseteq DOMAIN s.chips
    BY MapIs DEF Changed, Save
  <2> HIDE DEF todo
  <2>2. u \in Save /\ SameSave(u, s) /\ u.at = s.at /\ u.step = "update" /\ HoldsTodo(u)
    BY <2>1 DEF Save, Steps, SameSave, HoldsTodo
  <2>3. AfterCreate(s) = AfterUpdate(u)
    BY <1>2 DEF AfterCreate, todo
  <2> HIDE DEF u
  <2> QED
    BY <1>2, <2>2, <2>3, GoesOnToPut DEF SameSave
<1> QED
  BY <1>1, <1>2

LEMMA GoesOnToCreate ==
  ASSUME PageTypeOK, NEW s \in Save
  PROVE  /\ SameSave(AfterRemove(s), s) /\ (HoldsTodo(s) => HoldsTodo(AfterRemove(s)))
         /\ \/ AfterRemove(s).step = s.step /\ AfterRemove(s).at = s.at
            \/ s.drafts # {} /\ AfterRemove(s).step = "create" /\ AfterRemove(s).at = canvas.at
            \/ s.drafts = {} /\ AfterRemove(s).step \in {"update", "put"} /\ AfterRemove(s).at = canvas.at
<1>1. CASE s.memos # {}
  BY <1>1 DEF AfterRemove, SameSave
<1>2. CASE s.memos = {}
  <2> DEFINE u == [s EXCEPT !.step = "create", !.at = canvas.at]
  <2>1. canvas.at \in Map
    BY DEF PageTypeOK, Canvas
  <2>2. u \in Save /\ SameSave(u, s) /\ u.at = canvas.at /\ u.step = "create" /\ HoldsTodo(u)
    BY <2>1 DEF Save, Steps, SameSave, HoldsTodo
  <2>3. AfterRemove(s) = AfterCreate(u)
    BY <1>2 DEF AfterRemove
  <2> HIDE DEF u
  <2> QED
    BY <2>2, <2>3, GoesOnToUpdate DEF SameSave
<1> QED
  BY <1>1, <1>2

LEMMA ConfirmSaveKeeps ==
  ASSUME NoneIsNothing, EditorInv, ConfirmSave
  PROVE  EditorInv'
<1> DEFINE memos == (DOMAIN saved.chips \cap Memo) \ DOMAIN canvas.chips
           drafts == DOMAIN canvas.chips \cap Draft
           s == [of |-> route, step |-> "remove", confirming |-> dialog.ask # "edit",
                 then |-> dialog.ask, to |-> dialog.to, memos |-> memos, drafts |-> drafts,
                 chips |-> canvas.chips, at |-> canvas.at, edges |-> dialog.edges,
                 basis |-> dialog.basis, todo |-> {}, version |-> 0, answer |-> None, replaced |-> None]
<1>1. /\ dialog \in Dialog /\ dialog # None /\ dialog.ask \in Wholes /\ save = None
      /\ dialog.edges \in SUBSET Edge /\ dialog.basis \in Basis /\ dialog.to \in Workspace \cup {None}
      /\ canvas \in Canvas /\ canvas.chips \in Map /\ canvas.at \in Map /\ route \in Workspace
  BY DEF ConfirmSave, Wholes, EditorInv, EditorTypeOK, PageTypeOK, Canvas, Dialog, RouteInv
<1>2. memos \in SUBSET Memo /\ drafts \in SUBSET Draft
  OBVIOUS
<1>3. /\ save' = AfterRemove(s) /\ busy' = TRUE /\ dialog' = None
      /\ UNCHANGED <<route, server, defs, page, drag, load, refresh, carried>>
  BY DEF ConfirmSave
<1> HIDE DEF memos
<1>4. s \in Save
  BY <1>1, <1>2 DEF Save, Steps
<1>5. s.of = route /\ s.step = "remove" /\ s.then = dialog.ask /\ s.to = dialog.to /\ s.drafts = drafts
      /\ s.chips = canvas.chips /\ s.at = canvas.at /\ s.edges = dialog.edges /\ s.basis = dialog.basis
      /\ HoldsTodo(s)
  BY DEF HoldsTodo
<1> HIDE DEF s
<1>6. PageTypeOK
  BY DEF EditorInv, EditorTypeOK
<1>7. /\ SameSave(save', s) /\ HoldsTodo(save')
      /\ \/ save'.step = "remove" /\ save'.at = canvas.at
         \/ drafts # {} /\ save'.step = "create" /\ save'.at = canvas.at
         \/ drafts = {} /\ save'.step \in {"update", "put"} /\ save'.at = canvas.at
  BY <1>3, <1>4, <1>5, <1>6, GoesOnToCreate
<1>8. save' # None
  BY <1>7 DEF SameSave, NoneIsNothing
<1>9. EditorTypeOK'
  BY <1>3, <1>7 DEF EditorInv, EditorTypeOK, PageTypeOK, page, SameSave
<1>10. RouteInv' /\ DialogInv'
  BY <1>1, <1>3, <1>5, <1>7, <1>8 DEF EditorInv, RouteInv, BusyHasSave, DialogInv, SameSave, NoneIsNothing
<1>11. dialog.basis # NoBasis =>
         /\ dialog.basis = basis /\ Ends(dialog.edges) \subseteq DOMAIN canvas.chips
         /\ DOMAIN canvas.chips \subseteq DOMAIN canvas.at
  BY <1>1 DEF EditorInv, DialogInv, PageInv, Proper
<1>12. canvas' = canvas /\ basis' = basis
  BY <1>3 DEF page
<1>13. SaveInv'
  BY <1>3, <1>5, <1>7, <1>11, <1>12 DEF SaveInv, SaveFollows, SameSave
<1> QED
  BY <1>3, <1>9, <1>10, <1>13, PageFrame, ServerFrame DEF EditorInv

\* A request of a save that changes neither the page nor what the save holds of it.
LEMMA SaveGoesOn ==
  ASSUME NoneIsNothing, EditorInv, save # None,
         UNCHANGED <<route, page, busy, drag, dialog, load, refresh, carried>>,
         GivenUp => save' = None,
         ~GivenUp =>
           /\ SameSave(save', save) /\ save'.step # "answer" /\ HoldsTodo(save')
           /\ \/ save'.step = save.step /\ save'.at = save.at
              \/ save.step = "remove" /\ save'.at = canvas.at
                 /\ \/ save.drafts # {} /\ save'.step = "create"
                    \/ save.drafts = {} /\ save'.step \in {"update", "put"}
              \/ save.step \in {"update", "put"} /\ save'.at = save.at /\ save'.step \in {"put", "conflict"}
  PROVE  RouteInv' /\ SaveInv' /\ DialogInv' /\ PageInv' /\ PageTypeOK' /\ save' \in Save \cup {None}
<1>1. PageInv' /\ DialogInv' /\ PageTypeOK'
  BY PageFrame, DialogFrame, PageTypeFrame DEF EditorInv, EditorTypeOK, page
<1>2. canvas' = canvas /\ basis' = basis
  BY DEF page
<1>3. CASE GivenUp
  <2>1. save' = None /\ ~busy
    BY <1>3 DEF EditorInv, RouteInv, BusyHasSave, GivenUp
  <2> QED
    BY <1>1, <2>1 DEF EditorInv, RouteInv, BusyHasSave, SaveInv
<1>4. CASE ~GivenUp
  <2>1. save' # None
    BY <1>4 DEF SameSave, NoneIsNothing
  <2>2. RouteInv'
    BY <1>4, <2>1 DEF EditorInv, RouteInv, BusyHasSave, SameSave
  <2>3. SaveInv'
    BY <1>2, <1>4, <2>1 DEF EditorInv, SaveInv, SaveFollows, SameSave
  <2> QED
    BY <1>1, <1>4, <2>2, <2>3 DEF SameSave
<1> QED
  BY <1>3, <1>4

\* What has been read stays true to a version that the server changes or leaves alone.
LEMMA ServerMoves ==
  ASSUME NoneIsNothing, EditorInv, server' \in [Workspace -> ServerCanvas],
         UNCHANGED <<load, refresh>>,
         \A w \in Workspace :
           /\ \/ server[w].version < server'[w].version
              \/ /\ server'[w].version = server[w].version /\ server'[w].edges = server[w].edges
                 /\ server'[w].placed \ Memo \subseteq server[w].placed \ Memo
           /\ Ends(server'[w].edges) \subseteq server'[w].placed
           /\ server'[w].placed \subseteq DOMAIN defs'
  PROVE  ServerInv'
<1>1. server \in [Workspace -> ServerCanvas]
  BY DEF EditorInv, EditorTypeOK
<1>2. ASSUME NEW q \in Asked, ReadOf(q, server)
      PROVE  ReadOf(q, server')
  <2>1. /\ q.of \in Workspace /\ q.seen \in Nat
        /\ server[q.of].version \in Nat /\ server'[q.of].version \in Nat
    BY <1>1 DEF Asked, ServerCanvas
  <2>2. q.graph # None => q.graph.version \in Nat
    BY DEF Asked, Graph
  <2> QED
    BY <1>2, <2>1, <2>2 DEF ReadOf
<1>3. load # None => ReadOf(load', server')
  BY <1>2 DEF EditorInv, EditorTypeOK, ServerInv
<1>4. refresh # None => ReadOf(refresh', server')
  BY <1>2 DEF EditorInv, EditorTypeOK, ServerInv
<1> QED
  BY <1>3, <1>4 DEF ServerInv

LEMMA SaveRemoveKeeps ==
  ASSUME NoneIsNothing, EditorInv, SaveRemove
  PROVE  EditorInv'
<1>1. /\ save \in Save /\ save # None /\ save.step = "remove" /\ save.memos \in SUBSET Memo
      /\ defs \in Map /\ DOMAIN defs \subseteq Known /\ server \in [Workspace -> ServerCanvas]
      /\ UNCHANGED <<route, page, busy, drag, dialog, load, refresh, carried>>
  BY DEF SaveRemove, EditorInv, EditorTypeOK, Save
<1>2. PICK m \in save.memos \cap DOMAIN defs :
        /\ defs' = Without(defs, {m}) /\ server' = Dropped({m})
        /\ Still(AfterRemove([save EXCEPT !.memos = @ \ {m}]))
  BY DEF SaveRemove
<1>3. defs' \in Map /\ DOMAIN defs' = DOMAIN defs \ {m} /\ m \in Memo
  BY <1>1, <1>2, MapWithout
<1>4. \A w \in Workspace :
        /\ server'[w] \in ServerCanvas /\ server'[w].version = server[w].version
        /\ server'[w].placed = server[w].placed \ {m} /\ server'[w].edges = server[w].edges
  <2> TAKE w \in Workspace
  <2>1. server[w] \in ServerCanvas
    BY <1>1
  <2> DEFINE kept == {e \in server[w].edges : {e.from, e.to} \cap {m} = {}}
  <2>2. kept = server[w].edges
    BY <1>3, <2>1 DEF ServerCanvas, Edge
  <2>3. server'[w] = [server[w] EXCEPT !.placed = server[w].placed \ {m}, !.edges = kept]
    BY <1>2, <2>1 DEF Dropped, ServerCanvas
  <2> HIDE DEF kept
  <2> QED
    BY <2>1, <2>2, <2>3 DEF ServerCanvas
<1>5. server' \in [Workspace -> ServerCanvas]
  BY <1>2, <1>4 DEF Dropped
<1>6. \A w \in Workspace : Ends(server[w].edges) \subseteq server[w].placed /\ server[w].placed \subseteq DOMAIN defs
  BY DEF EditorInv, ServerInv
<1>7. \A w \in Workspace : m \notin Ends(server[w].edges)
  BY <1>1, <1>3 DEF ServerCanvas, Edge, Ends
<1>8. ServerInv'
  BY <1>1, <1>3, <1>4, <1>5, <1>6, <1>7, ServerMoves
<1> DEFINE s == [save EXCEPT !.memos = @ \ {m}]
<1>9. SameSave(s, save) /\ s.step = "remove" /\ s.at = save.at /\ HoldsTodo(s)
  BY <1>1 DEF Save, SameSave, HoldsTodo
<1>10. save' = IF GivenUp THEN None ELSE AfterRemove(s)
  BY <1>2 DEF Still
<1> HIDE DEF s
<1>11. /\ SameSave(AfterRemove(s), save) /\ HoldsTodo(AfterRemove(s))
       /\ \/ AfterRemove(s).step = save.step /\ AfterRemove(s).at = save.at
          \/ save.drafts # {} /\ AfterRemove(s).step = "create" /\ AfterRemove(s).at = canvas.at
          \/ save.drafts = {} /\ AfterRemove(s).step \in {"update", "put"} /\ AfterRemove(s).at = canvas.at
  BY <1>1, <1>9, GoesOnToCreate DEF SameSave, EditorInv, EditorTypeOK
<1>12. RouteInv' /\ SaveInv' /\ DialogInv' /\ PageInv' /\ PageTypeOK' /\ save' \in Save \cup {None}
  BY <1>1, <1>10, <1>11, SaveGoesOn
<1> QED
  BY <1>1, <1>3, <1>5, <1>8, <1>12 DEF EditorInv, EditorTypeOK

LEMMA SaveUpdateKeeps ==
  ASSUME NoneIsNothing, EditorInv, SaveUpdate
  PROVE  EditorInv'
<1>1. /\ save \in Save /\ save # None /\ save.step = "update" /\ save.chips \in Map
      /\ save.todo \subseteq DOMAIN save.chips /\ defs \in Map
      /\ UNCHANGED <<route, server, page, busy, drag, dialog, load, refresh, carried>>
  BY DEF SaveUpdate, EditorInv, EditorTypeOK, Save, SaveInv, HoldsTodo
<1>2. PICK i \in save.todo \cap DOMAIN defs :
        /\ defs' = [defs EXCEPT ![i] = save.chips[i]]
        /\ Still(AfterUpdate([save EXCEPT !.todo = @ \ {i}]))
  BY DEF SaveUpdate
<1> DEFINE s == [save EXCEPT !.todo = @ \ {i}]
<1>3. SameSave(s, save) /\ s.step = "update" /\ s.at = save.at /\ HoldsTodo(s)
  BY <1>1 DEF Save, SameSave, HoldsTodo
<1>4. save' = IF GivenUp THEN None ELSE AfterUpdate(s)
  BY <1>2 DEF Still
<1> HIDE DEF s
<1>5. /\ SameSave(AfterUpdate(s), save) /\ HoldsTodo(AfterUpdate(s))
      /\ AfterUpdate(s).at = save.at /\ AfterUpdate(s).step \in {"update", "put"}
  BY <1>3, GoesOnToPut DEF SameSave, EditorInv, EditorTypeOK
<1>6. RouteInv' /\ SaveInv' /\ DialogInv' /\ PageInv' /\ PageTypeOK' /\ save' \in Save \cup {None}
  BY <1>1, <1>4, <1>5, SaveGoesOn
<1>7. /\ DOMAIN defs' = DOMAIN defs /\ (\A k \in DOMAIN defs' : defs'[k] \in Value)
      /\ defs' = [k \in DOMAIN defs' |-> defs'[k]]
  BY <1>1, <1>2, MapIs
<1>8. defs' \in Map
  BY <1>1, <1>7, MapIs
<1> QED
  BY <1>1, <1>6, <1>7, <1>8 DEF EditorInv, EditorTypeOK, ServerInv

\* With a stored draft all that the save holds takes the new id.
LEMMA StoredIs ==
  ASSUME NEW s \in Save, NEW d \in s.drafts, NEW i \in Fresh, s.drafts = DOMAIN s.chips \cap Draft,
         s.step = "create"
  PROVE  /\ Stored(s, d, i) \in Save
         /\ Stored(s, d, i).of = s.of /\ Stored(s, d, i).then = s.then /\ Stored(s, d, i).to = s.to
         /\ Stored(s, d, i).step = s.step /\ Stored(s, d, i).basis = s.basis
         /\ Stored(s, d, i).drafts = s.drafts \ {d}
         /\ Stored(s, d, i).drafts = DOMAIN Stored(s, d, i).chips \cap Draft
         /\ Ends(s.edges) \subseteq DOMAIN s.chips =>
              Ends(Stored(s, d, i).edges) \subseteq DOMAIN Stored(s, d, i).chips
         /\ DOMAIN s.chips \subseteq DOMAIN s.at =>
              DOMAIN Stored(s, d, i).chips \subseteq DOMAIN Stored(s, d, i).at
<1>1. s.chips \in Map /\ s.at \in Map /\ s.edges \in SUBSET Edge /\ d \in DOMAIN s.chips /\ s.drafts \in SUBSET Draft
  BY DEF Save
<1>2. i \in Id /\ i \notin Draft /\ i \notin Memo /\ d \in Id
  BY <1>1, EditorAssumption DEF Id
<1> DEFINE chips == Renamed(s.chips, d, i)
           edges == Moved(s.edges, d, i)
           rest == Without(s.at, {d})
           place == IF d \in DOMAIN s.at THEN s.at[d] ELSE 0
           at == Put(rest, i, place)
<1>3. chips \in Map /\ DOMAIN chips = (DOMAIN s.chips \ {d}) \cup {i}
  <2> DEFINE f == s.chips
  <2>1. f \in Map /\ d \in DOMAIN f
    BY <1>1
  <2> HIDE DEF f
  <2>2. Renamed(f, d, i) \in Map /\ DOMAIN Renamed(f, d, i) = (DOMAIN f \ {d}) \cup {i}
    BY <1>2, <2>1, MapRenamed
  <2> QED
    BY <2>2 DEF f
<1>4. rest \in Map /\ DOMAIN rest = DOMAIN s.at \ {d}
  BY <1>1, MapWithout
<1>5. place \in Value
  BY <1>1, MapIs DEF Value
<1> HIDE DEF rest, place
<1>6. at \in Map /\ DOMAIN at = (DOMAIN s.at \ {d}) \cup {i}
  BY <1>2, <1>4, <1>5, MapPut
<1> DEFINE new(x) == IF x = d THEN i ELSE x
<1>7. edges = {[id |-> e.id, from |-> new(e.from), to |-> new(e.to)] : e \in s.edges}
  BY DEF Moved
<1>8. \A e \in s.edges : [id |-> e.id, from |-> new(e.from), to |-> new(e.to)] \in Edge
  BY <1>1, <1>2 DEF Edge
<1>9. edges \in SUBSET Edge
  BY <1>7, <1>8
<1>10. Ends(edges) \subseteq {new(x) : x \in Ends(s.edges)}
  BY <1>7 DEF Ends
<1>11. Ends(s.edges) \subseteq DOMAIN s.chips => Ends(edges) \subseteq DOMAIN chips
  BY <1>3, <1>10
<1>12. Stored(s, d, i) = [s EXCEPT !.drafts = s.drafts \ {d}, !.chips = chips, !.edges = edges, !.at = at]
  BY DEF Stored, rest, place, Save
<1> HIDE DEF chips, edges, at
<1>13. s.drafts \ {d} = DOMAIN chips \cap Draft
  BY <1>2, <1>3
<1> QED
  BY <1>1, <1>3, <1>6, <1>9, <1>11, <1>12, <1>13 DEF Save

LEMMA SaveCreateKeeps ==
  ASSUME NoneIsNothing, EditorInv, NEW i \in Fresh, SaveCreate(i)
  PROVE  EditorInv'
<1>1. /\ save \in Save /\ save # None /\ save.step = "create" /\ save.chips \in Map
      /\ save.drafts = DOMAIN save.chips \cap Draft /\ defs \in Map /\ i \in Id
      /\ UNCHANGED <<route, server, saved, dirty, version, undo, redo, busy, drag, load, refresh, carried>>
  BY DEF SaveCreate, EditorInv, EditorTypeOK, Save, SaveInv, Id
<1>2. PICK d \in save.drafts :
        LET s == Stored(save, d, i) IN
        /\ defs' = Put(defs, i, save.chips[d])
        /\ Still(AfterCreate(s))
        /\ IF s.drafts = {} /\ ~GivenUp
           THEN /\ canvas' = [chips |-> s.chips, at |-> s.at, edges |-> s.edges]
                /\ basis' = s.basis /\ dialog' = Mixed(dialog)
           ELSE UNCHANGED <<canvas, basis, dialog>>
  BY DEF SaveCreate
<1>3. d \in DOMAIN save.chips /\ save.chips[d] \in Value
  BY <1>1, MapIs
<1>4. defs' \in Map /\ DOMAIN defs' = DOMAIN defs \cup {i}
  BY <1>1, <1>2, <1>3, MapPut
<1>5. ServerInv' /\ server' \in [Workspace -> ServerCanvas] /\ DOMAIN defs' \subseteq Known
  BY <1>1, <1>4 DEF EditorInv, EditorTypeOK, ServerInv, Known
<1> DEFINE s == Stored(save, d, i)
<1>6. /\ s \in Save /\ s.of = save.of /\ s.then = save.then /\ s.to = save.to /\ s.step = "create"
      /\ s.basis = save.basis /\ s.drafts = save.drafts \ {d} /\ s.drafts = DOMAIN s.chips \cap Draft
      /\ Ends(save.edges) \subseteq DOMAIN save.chips => Ends(s.edges) \subseteq DOMAIN s.chips
      /\ DOMAIN save.chips \subseteq DOMAIN save.at => DOMAIN s.chips \subseteq DOMAIN s.at
  BY <1>1, StoredIs
<1>7. save' = IF GivenUp THEN None ELSE AfterCreate(s)
  BY <1>2 DEF Still
<1>8. IF s.drafts = {} /\ ~GivenUp
      THEN /\ canvas' = [chips |-> s.chips, at |-> s.at, edges |-> s.edges]
           /\ basis' = s.basis /\ dialog' = Mixed(dialog)
      ELSE UNCHANGED <<canvas, basis, dialog>>
  BY <1>2
<1> HIDE DEF s
<1>9. /\ SameSave(AfterCreate(s), s) /\ AfterCreate(s).at = s.at /\ HoldsTodo(AfterCreate(s))
      /\ \/ s.drafts # {} /\ AfterCreate(s).step = "create"
         \/ s.drafts = {} /\ AfterCreate(s).step \in {"update", "put"}
  BY <1>6, GoesOnToUpdate DEF EditorInv, EditorTypeOK, HoldsTodo
<1>10. CASE GivenUp
  <2>1. save' = None /\ ~busy /\ UNCHANGED <<canvas, basis, dialog>>
    BY <1>7, <1>8, <1>10 DEF EditorInv, RouteInv, BusyHasSave, GivenUp
  <2>2. EditorTypeOK' /\ RouteInv' /\ SaveInv'
    BY <1>1, <1>4, <1>5, <2>1 DEF EditorInv, EditorTypeOK, PageTypeOK, RouteInv, BusyHasSave, SaveInv
  <2> QED
    BY <1>1, <1>5, <2>1, <2>2, PageFrame, DialogFrame DEF EditorInv, page
<1>11. CASE ~GivenUp /\ s.drafts # {}
  <2>1. /\ UNCHANGED <<canvas, basis, dialog>> /\ SameSave(save', s) /\ save'.at = s.at /\ HoldsTodo(save')
        /\ save'.step = "create"
    BY <1>7, <1>8, <1>9, <1>11
  <2>2. save' # None /\ save' \in Save
    BY <2>1 DEF SameSave, NoneIsNothing
  <2>3. EditorTypeOK'
    BY <1>1, <1>4, <1>5, <2>1, <2>2 DEF EditorInv, EditorTypeOK, PageTypeOK
  <2>4. RouteInv'
    BY <1>1, <1>6, <2>1, <2>2 DEF EditorInv, RouteInv, BusyHasSave, SameSave
  <2>5. SaveInv'
    BY <1>1, <1>6, <1>11, <2>1, <2>2 DEF EditorInv, SaveInv, SaveFollows, SameSave
  <2> QED
    BY <1>1, <1>5, <2>1, <2>3, <2>4, <2>5, PageFrame, DialogFrame DEF EditorInv, page
<1>12. CASE ~GivenUp /\ s.drafts = {}
  <2>1. /\ SameSave(save', s) /\ save'.at = s.at /\ HoldsTodo(save') /\ save'.step \in {"update", "put"}
        /\ canvas' = [chips |-> s.chips, at |-> s.at, edges |-> s.edges]
        /\ basis' = save.basis /\ dialog' = Mixed(dialog)
    BY <1>6, <1>7, <1>8, <1>9, <1>12
  <2>2. save' # None /\ save' \in Save
    BY <2>1 DEF SameSave, NoneIsNothing
  <2>3. /\ dialog' \in Dialog \cup {None} /\ DialogInv' /\ (dialog' = None <=> dialog = None)
        /\ dialog # None => dialog'.ask = dialog.ask /\ dialog'.to = dialog.to
    BY <2>1, DialogMixed
  <2>4. canvas' \in Canvas /\ save.basis \in Basis
    BY <1>1, <1>6, <2>1 DEF Canvas, Save
  <2>5. EditorTypeOK'
    BY <1>1, <1>4, <1>5, <2>1, <2>2, <2>3, <2>4 DEF EditorInv, EditorTypeOK, PageTypeOK
  <2>6. RouteInv'
    BY <1>1, <1>6, <2>1, <2>2, <2>3 DEF EditorInv, RouteInv, BusyHasSave, SameSave
  <2>7. SaveInv'
    BY <1>1, <1>6, <1>12, <2>1, <2>2 DEF EditorInv, SaveInv, SameSave
  <2>8. ASSUME save.basis # NoBasis
        PROVE  dirty /\ basis = save.basis /\ Proper(canvas')
    <3>1. /\ basis = save.basis /\ d \in DOMAIN canvas.chips /\ d \in Draft
          /\ Ends(save.edges) \subseteq DOMAIN save.chips /\ DOMAIN save.chips \subseteq DOMAIN save.at
      BY <1>1, <2>8 DEF EditorInv, SaveInv, SaveFollows
    <3>2. d \notin DOMAIN saved.chips /\ Honest
      BY <2>8, <3>1 DEF EditorInv, PageInv
    <3>3. dirty
      BY <3>1, <3>2 DEF Honest
    <3> QED
      BY <1>6, <2>1, <3>1, <3>3 DEF Proper
  <2>9. PageInv'
    BY <1>1, <2>1, <2>8 DEF EditorInv, PageInv, Honest
  <2> QED
    BY <1>5, <2>3, <2>5, <2>6, <2>7, <2>9 DEF EditorInv
<1> QED
  BY <1>10, <1>11, <1>12

\* A conflict, or a version that takes the place of the one the save names.
LEMMA SavePutKeeps ==
  ASSUME NoneIsNothing, EditorInv, SavePut
  PROVE  EditorInv'
<1>1. /\ save \in Save /\ save # None /\ save.step = "put" /\ save.chips \in Map /\ save.at \in Map
      /\ save.edges \in SUBSET Edge /\ save.of \in Workspace /\ save.drafts = {}
      /\ defs \in Map /\ DOMAIN defs \subseteq Known
      /\ server \in [Workspace -> ServerCanvas] /\ server[save.of].version \in Nat
      /\ UNCHANGED <<route, page, busy, drag, dialog, load, refresh, carried>>
  BY DEF SavePut, EditorInv, EditorTypeOK, Save, ServerCanvas, SaveInv
<1>2. CASE save.version # server[save.of].version
  <2>1. save' = [save EXCEPT !.step = "conflict"] /\ UNCHANGED <<server, defs>>
    BY <1>2 DEF SavePut
  <2>2. SameSave(save', save) /\ save'.at = save.at /\ save'.step = "conflict" /\ HoldsTodo(save')
    BY <1>1, <2>1 DEF Save, Steps, SameSave, HoldsTodo
  <2>3. save' # None /\ canvas' = canvas /\ basis' = basis
    BY <1>1, <2>2 DEF SameSave, NoneIsNothing, page
  <2>4. RouteInv' /\ SaveInv'
    BY <1>1, <2>2, <2>3 DEF EditorInv, RouteInv, BusyHasSave, SaveInv, SameSave
  <2>5. EditorTypeOK'
    BY <1>1, <2>1, <2>2, PageTypeFrame DEF EditorInv, EditorTypeOK, SameSave
  <2> QED
    BY <1>1, <2>1, <2>4, <2>5, PageFrame, DialogFrame, ServerFrame DEF EditorInv, page
<1>3. CASE save.version = server[save.of].version
  <2> DEFINE chips == Restrict(defs, DOMAIN save.chips)
             at == PositionsFrom(DOMAIN save.chips, save.at)
             answer == [chips |-> chips, at |-> at, edges |-> save.edges]
             stored == [placed |-> DOMAIN save.chips, nodes |-> save.at, edges |-> save.edges,
                        version |-> server[save.of].version + 1]
             replaced == <<save.of, server[save.of].version>>
  <2>1. /\ DOMAIN save.chips \subseteq DOMAIN defs /\ Ends(save.edges) \subseteq DOMAIN save.chips
        /\ server' = [server EXCEPT ![save.of] = stored] /\ defs' = Without(defs, Orphans)
        /\ save' = [save EXCEPT !.step = "answer", !.replaced = replaced, !.answer = answer]
    BY <1>3 DEF SavePut, Whole
  <2>2. DOMAIN save.chips \subseteq Known /\ DOMAIN save.chips \in SUBSET Id
    BY <1>1, <2>1 DEF Known, Id
  <2>3. chips \in Map /\ DOMAIN chips = DOMAIN save.chips
    <3>1. /\ DOMAIN chips = DOMAIN save.chips /\ chips = [i \in DOMAIN chips |-> chips[i]]
          /\ \A i \in DOMAIN chips : chips[i] \in Value
      BY <1>1, <2>1, MapIs DEF Restrict
    <3> HIDE DEF chips
    <3> QED
      BY <2>2, <3>1, MapIs
  <2>4. at \in Map /\ DOMAIN at = DOMAIN save.chips
    BY <1>1, <2>2, MapPositions
  <2> HIDE DEF chips, at
  <2>5. /\ answer \in Canvas /\ Proper(answer) /\ DOMAIN answer.chips \cap Draft = {}
        /\ answer # None
    BY <1>1, <2>1, <2>2, <2>3, <2>4, EditorAssumption DEF Canvas, Proper, NoneIsNothing, Known
  <2>6. replaced \in Basis /\ replaced # None
    BY <1>1 DEF Basis, NoneIsNothing
  <2> HIDE DEF answer, replaced
  <2>7. SameSave(save', [save EXCEPT !.answer = answer, !.replaced = replaced])
    BY <1>1, <2>1, <2>5, <2>6 DEF Save, Steps, SameSave
  <2>8. /\ save' \in Save /\ save' # None /\ save'.of = save.of /\ save'.then = save.then /\ save'.to = save.to
        /\ save'.drafts = save.drafts /\ save'.chips = save.chips /\ save'.edges = save.edges
        /\ save'.basis = save.basis /\ save'.at = save.at /\ save'.step = "answer"
        /\ save'.answer = answer /\ save'.replaced = replaced
    BY <1>1, <2>1, <2>7 DEF SameSave, Save, NoneIsNothing
  <2>9. canvas' = canvas /\ basis' = basis
    BY <1>1 DEF page
  <2>10. RouteInv'
    BY <1>1, <2>8 DEF EditorInv, RouteInv, BusyHasSave
  <2>11. SaveInv'
    BY <1>1, <2>5, <2>6, <2>8, <2>9 DEF EditorInv, SaveInv, HoldsTodo
  <2>12. stored \in ServerCanvas
    BY <1>1, <2>2 DEF ServerCanvas
  <2>13. server' \in [Workspace -> ServerCanvas]
    BY <1>1, <2>1, <2>12
  <2>14. defs' \in Map /\ DOMAIN defs' = DOMAIN defs \ Orphans
    BY <1>1, <2>1, MapWithout
  <2>15. \A w \in Workspace : server'[w].placed \subseteq DOMAIN defs
    BY <1>1, <2>1 DEF EditorInv, ServerInv
  <2>16. \A w \in Workspace : server'[w].placed \subseteq DOMAIN defs'
    BY <2>14, <2>15 DEF Orphans
  <2>17. ServerInv'
    <3>1. \A w \in Workspace :
            /\ \/ server[w].version < server'[w].version
               \/ server'[w] = server[w]
            /\ Ends(server'[w].edges) \subseteq server'[w].placed
      BY <1>1, <2>1 DEF EditorInv, ServerInv
    <3> QED
      BY <1>1, <2>13, <2>16, <3>1, ServerMoves
  <2>18. EditorTypeOK'
    BY <1>1, <2>8, <2>13, <2>14, PageTypeFrame DEF EditorInv, EditorTypeOK
  <2> QED
    BY <1>1, <2>10, <2>11, <2>17, <2>18, PageFrame, DialogFrame DEF EditorInv, page
<1> QED
  BY <1>2, <1>3

LEMMA SaveAnswerKeeps ==
  ASSUME NoneIsNothing, EditorInv, SaveAnswer
  PROVE  EditorInv'
<1>1. /\ save \in Save /\ save # None /\ save.step = "answer" /\ save.of \in Workspace
      /\ save.answer \in Canvas /\ Proper(save.answer) /\ DOMAIN save.answer.chips \cap Draft = {}
      /\ save.replaced \in Basis /\ save' = None /\ UNCHANGED <<server, defs>>
  BY DEF SaveAnswer, EditorInv, EditorTypeOK, SaveInv, Save
<1>2. Kept(save) \in Basis /\ Kept(save)[2] \in Nat
  BY <1>1 DEF Kept, Basis
<1>3. CASE GivenUp /\ UNCHANGED <<route, page, busy, drag, load, refresh, carried, dialog>>
  <2>1. ~busy
    BY <1>3 DEF EditorInv, RouteInv, BusyHasSave, GivenUp
  <2>2. EditorTypeOK' /\ RouteInv' /\ SaveInv'
    BY <1>1, <1>3, <2>1 DEF EditorInv, EditorTypeOK, PageTypeOK, RouteInv, BusyHasSave, SaveInv, page
  <2> QED
    BY <1>1, <1>3, <2>2, PageFrame, DialogFrame, ServerFrame DEF EditorInv, page
<1>4. CASE ~GivenUp /\ save.then = "edit"
  <2>1. /\ carried' = [of |-> route, chips |-> save.answer.chips, at |-> save.answer.at,
                       edges |-> save.answer.edges, basis |-> Kept(save)]
        /\ ClosePage /\ dialog' = None /\ route \in Workspace
    BY <1>1, <1>4 DEF SaveAnswer, GivenUp
  <2>2. carried' \in Carried /\ Proper(carried')
    BY <1>1, <1>2, <2>1 DEF Carried, Canvas, Proper
  <2> QED
    BY <1>1, <2>1, <2>2, CloseKeeps
<1>5. CASE ~GivenUp /\ save.then # "edit"
  <2>1. /\ RememberSaved(save.answer, Kept(save)[2], Kept(save)) /\ ClearHistory
        /\ busy' = FALSE /\ dialog' = Mixed(dialog) /\ UNCHANGED <<drag, refresh, carried>>
    BY <1>5 DEF SaveAnswer
  <2>2. route \in Workspace /\ route # None
    BY <1>1, <1>5 DEF GivenUp, NoneIsNothing
  <2>3. \/ save.then = "leave" /\ route' = save.to /\ load' = Request(save.to) /\ save.to \in Workspace
        \/ save.then # "leave" /\ UNCHANGED <<route, load>>
    BY <1>1, <1>5 DEF SaveAnswer, EditorInv, RouteInv
  <2>4. /\ route' \in Workspace /\ route' # None /\ load' \in Asked \cup {None}
        /\ load' # None => ReadOf(load', server)
    BY <2>2, <2>3, RequestIs DEF EditorInv, EditorTypeOK, ServerInv, NoneIsNothing
  <2>5. /\ dialog' \in Dialog \cup {None} /\ DialogInv' /\ (dialog' = None <=> dialog = None)
        /\ dialog # None => dialog'.ask = dialog.ask /\ dialog'.to = dialog.to
    BY <2>1, DialogMixed
  <2>6. EditorTypeOK'
    BY <1>1, <1>2, <2>1, <2>4, <2>5, StackEmpty
       DEF EditorInv, EditorTypeOK, PageTypeOK, RememberSaved, ClearHistory
  <2>7. RouteInv' /\ ServerInv' /\ SaveInv'
    BY <1>1, <2>1, <2>4, <2>5 DEF EditorInv, RouteInv, BusyHasSave, ServerInv, SaveInv
  <2>8. PageInv'
    BY <1>1, <1>2, <2>1, Remembered DEF Proper
  <2> QED
    BY <2>5, <2>6, <2>7, <2>8 DEF EditorInv
<1> QED
  BY <1>3, <1>4, <1>5 DEF SaveAnswer

LEMMA SaveConflictKeeps ==
  ASSUME NoneIsNothing, EditorInv, SaveConflict
  PROVE  EditorInv'
<1>1. /\ save \in Save /\ save # None /\ save' = None
      /\ UNCHANGED <<route, server, defs, page, drag, dialog, refresh, carried>>
  BY DEF SaveConflict, EditorInv, EditorTypeOK
<1>2. /\ ~busy' /\ busy' \in BOOLEAN
      /\ load' \in Asked \cup {None} /\ (load' # None => ReadOf(load', server) /\ route # None)
  <2>1. CASE GivenUp
    BY <2>1 DEF SaveConflict, EditorInv, EditorTypeOK, PageTypeOK, RouteInv, BusyHasSave, GivenUp, ServerInv
  <2>2. CASE ~GivenUp
    <3>1. route \in Workspace /\ load' = Request(route) /\ busy' = FALSE
      BY <1>1, <2>2 DEF SaveConflict, GivenUp, Save
    <3> QED
      BY <3>1, RequestIs DEF EditorInv, NoneIsNothing
  <2> QED
    BY <2>1, <2>2
<1>3. EditorTypeOK'
  BY <1>1, <1>2 DEF EditorInv, EditorTypeOK, PageTypeOK, page
<1>4. RouteInv' /\ ServerInv' /\ SaveInv'
  BY <1>1, <1>2 DEF EditorInv, RouteInv, BusyHasSave, ServerInv, SaveInv
<1> QED
  BY <1>1, <1>3, <1>4, PageFrame, DialogFrame DEF EditorInv, page

LEMMA SaveErrorKeeps ==
  ASSUME NoneIsNothing, EditorInv, SaveError
  PROVE  EditorInv'
<1>1. /\ save # None /\ save' = None
      /\ UNCHANGED <<route, server, defs, page, drag, dialog, load, refresh, carried>>
  BY DEF SaveError
<1>2. ~busy' /\ busy' \in BOOLEAN
  BY DEF SaveError, EditorInv, EditorTypeOK, PageTypeOK, RouteInv, BusyHasSave, GivenUp
<1>3. EditorTypeOK'
  BY <1>1, <1>2 DEF EditorInv, EditorTypeOK, PageTypeOK, page
<1>4. RouteInv' /\ SaveInv'
  BY <1>1, <1>2 DEF EditorInv, RouteInv, BusyHasSave, SaveInv
<1> QED
  BY <1>1, <1>3, <1>4, PageFrame, DialogFrame, ServerFrame DEF EditorInv, page

-----------------------------------------------------------------------------
(* Other sessions                                                          *)

LEMMA OtherSaveKeeps ==
  ASSUME NoneIsNothing, EditorInv, NEW w \in Workspace, NEW i \in Chip, OtherSave(w, i)
  PROVE  EditorInv'
<1> DEFINE v == server[w]
<1>1. /\ server \in [Workspace -> ServerCanvas] /\ v \in ServerCanvas
      /\ v.placed \in SUBSET Known /\ v.nodes \in Map /\ v.edges \in SUBSET Edge /\ v.version \in Nat
      /\ Ends(v.edges) \subseteq v.placed /\ v.placed \subseteq DOMAIN defs
      /\ i \in DOMAIN defs /\ i \in Known /\ i \in Id
      /\ UNCHANGED <<route, defs, page, busy, drag, dialog, load, refresh, save, carried>>
  BY DEF OtherSave, EditorInv, EditorTypeOK, ServerInv, ServerCanvas, Known, Id
<1>2. Without(v.nodes, {i}) \in Map /\ Put(v.nodes, i, 1) \in Map
  BY <1>1, MapWithout, MapPut DEF Value
<1> DEFINE kept == {e \in v.edges : i \notin {e.from, e.to}}
           less == [v EXCEPT !.placed = v.placed \ {i}, !.nodes = Without(v.nodes, {i}),
                             !.version = v.version + 1, !.edges = kept]
           more == [v EXCEPT !.placed = v.placed \cup {i}, !.nodes = Put(v.nodes, i, 1),
                             !.version = v.version + 1]
<1>3. server' = [server EXCEPT ![w] = IF i \in v.placed THEN less ELSE more]
  BY DEF OtherSave
<1> HIDE DEF v
<1>4. kept \in SUBSET Edge /\ Ends(kept) \subseteq v.placed \ {i}
  BY <1>1 DEF Ends
<1> HIDE DEF kept
<1>5. /\ less \in ServerCanvas /\ less.version = v.version + 1
      /\ less.edges = kept /\ less.placed = v.placed \ {i}
  <2> DEFINE p == v.placed \ {i}
             n == Without(v.nodes, {i})
             k == v.version + 1
  <2>1. p \in SUBSET Known /\ n \in Map /\ k \in Nat
    BY <1>1, <1>2
  <2> HIDE DEF p, n, k
  <2>2. less = [v EXCEPT !.placed = p, !.nodes = n, !.version = k, !.edges = kept]
    BY DEF p, n, k
  <2> HIDE DEF less
  <2>3. less \in ServerCanvas /\ less.placed = p /\ less.version = k /\ less.edges = kept
    BY <1>1, <1>4, <2>1, <2>2 DEF ServerCanvas
  <2> QED
    BY <2>3 DEF p, k
<1>6. /\ more \in ServerCanvas /\ more.version = v.version + 1
      /\ more.edges = v.edges /\ more.placed = v.placed \cup {i}
  <2> DEFINE p == v.placed \cup {i}
             n == Put(v.nodes, i, 1)
             k == v.version + 1
  <2>1. p \in SUBSET Known /\ n \in Map /\ k \in Nat
    BY <1>1, <1>2
  <2> HIDE DEF p, n, k
  <2>2. more = [v EXCEPT !.placed = p, !.nodes = n, !.version = k]
    BY DEF p, n, k
  <2> HIDE DEF more
  <2>3. more \in ServerCanvas /\ more.placed = p /\ more.version = k /\ more.edges = v.edges
    BY <1>1, <2>1, <2>2 DEF ServerCanvas
  <2> QED
    BY <2>3 DEF p, k
<1> HIDE DEF less, more
<1>7. server' \in [Workspace -> ServerCanvas]
  BY <1>1, <1>3, <1>5, <1>6
<1>8. /\ server'[w].version = v.version + 1 /\ Ends(server'[w].edges) \subseteq server'[w].placed
      /\ server'[w].placed \subseteq DOMAIN defs
  BY <1>1, <1>3, <1>4, <1>5, <1>6
<1>9. \A x \in Workspace : x # w => server'[x] = server[x]
  BY <1>1, <1>3
<1>10. \A x \in Workspace :
        /\ server[x].version < server'[x].version \/ server'[x] = server[x]
        /\ Ends(server'[x].edges) \subseteq server'[x].placed
        /\ server'[x].placed \subseteq DOMAIN defs'
  BY <1>1, <1>8, <1>9 DEF EditorInv, ServerInv, v
<1>11. ServerInv'
  BY <1>1, <1>7, <1>10, ServerMoves
<1>12. EditorTypeOK'
  BY <1>1, <1>7, PageTypeFrame DEF EditorInv, EditorTypeOK
<1> QED
  BY <1>1, <1>11, <1>12, RouteFrame, PageFrame, DialogFrame, SaveFrame DEF EditorInv, page

-----------------------------------------------------------------------------
(* Theorems                                                                *)

LEMMA EditorInitially ==
  ASSUME NoneIsNothing, Init
  PROVE  EditorInv
<1>1. First \in Workspace /\ route = First /\ First # None
  BY EditorAssumption DEF Init, NoneIsNothing
<1>2. NoBasis \in Basis
  BY DEF NoBasis, Basis
<1>3. PageTypeOK
  BY <1>1, <1>2, EmptyIs, StackEmpty DEF Init, PageTypeOK
<1> DEFINE d == [i \in Chip |-> 0]
<1>4. defs = d /\ DOMAIN d = Chip /\ d \in Map
  BY MapIs DEF Init, Id, Value
<1>5. ASSUME NEW w \in Workspace
      PROVE  /\ server[w] \in ServerCanvas /\ server[w].placed \subseteq Chip
             /\ Ends(server[w].edges) \subseteq server[w].placed
  <2> DEFINE nodes == [i \in Placed[w] |-> 0]
             v == [placed |-> Placed[w], nodes |-> nodes, edges |-> {}, version |-> 1]
  <2>1. Placed[w] \in SUBSET Chip
    BY EditorAssumption
  <2>2. nodes \in Map
    BY <2>1, MapIs DEF Id, Value
  <2> HIDE DEF nodes
  <2>3. v \in ServerCanvas /\ v.placed \subseteq Chip /\ Ends(v.edges) \subseteq v.placed
    BY <2>1, <2>2 DEF ServerCanvas, Known, Ends
  <2>4. server[w] = v
    BY DEF Init, nodes
  <2> QED
    BY <2>3, <2>4
<1>6. server \in [Workspace -> ServerCanvas]
  BY <1>5 DEF Init
<1>7. load = Request(First) /\ Request(First) \in Asked /\ refresh = None /\ save = None /\ carried = None
  BY <1>1 DEF Init, Request, Asked
<1>8. EditorTypeOK
  BY <1>3, <1>4, <1>6, <1>7 DEF EditorTypeOK, Known
<1>9. ServerInv
  BY <1>1, <1>4, <1>5, <1>7, <1>8, RequestIs DEF ServerInv
<1>10. RouteInv /\ DialogInv /\ SaveInv
  BY <1>1 DEF Init, RouteInv, BusyHasSave, DialogInv, SaveInv
<1>11. PageInv
  BY <1>7, EmptyIs DEF Init, PageInv
<1> QED
  BY <1>8, <1>9, <1>10, <1>11 DEF EditorInv

LEMMA UserKeeps ==
  ASSUME NoneIsNothing, EditorInv, UserNext
  PROVE  EditorInv'
BY DragStartKeeps, RenameKeeps, PlaceChipKeeps, AskDeleteKeeps, OpenEditorKeeps, ConnectKeeps,
   DragEndKeeps, ConfirmEditKeeps, UndoKeeps, RedoKeeps, RequestSaveKeeps, ConfirmSaveKeeps,
   DeclineKeeps, RefreshStartKeeps, ReturnFromEditorKeeps, LeaveKeeps
DEF UserNext

LEMMA AnswersKeep ==
  ASSUME NoneIsNothing, EditorInv, Answers
  PROVE  EditorInv'
BY LoadReadKeeps, LoadAnswerKeeps, RefreshReadKeeps, RefreshAnswerKeeps, SaveRemoveKeeps,
   SaveCreateKeeps, SaveUpdateKeeps, SavePutKeeps, SaveAnswerKeeps, SaveConflictKeeps, SaveErrorKeeps
DEF Answers

LEMMA EditorKeeps ==
  ASSUME NoneIsNothing, EditorInv, [Next]_vars
  PROVE  EditorInv'
<1>1. CASE UNCHANGED vars
  <2>1. EditorTypeOK'
    BY <1>1, PageTypeFrame DEF EditorInv, EditorTypeOK, vars
  <2> QED
    BY <1>1, <2>1, RouteFrame, ServerFrame, PageFrame, DialogFrame, SaveFrame DEF EditorInv, vars, page
<1>2. CASE Next
  BY <1>2, UserKeeps, AnswersKeep, LoadErrorKeeps, OtherSaveKeeps DEF Next
<1> QED
  BY <1>1, <1>2

LEMMA EditorAlways ==
  ASSUME NoneIsNothing
  PROVE  Spec => []EditorInv
<1>1. Init => EditorInv
  BY EditorInitially
<1>2. EditorInv /\ [Next]_vars => EditorInv'
  BY EditorKeeps
<1> QED
  BY <1>1, <1>2, PTL DEF Spec

\* The variables of the page, the requests and the server keep their types, whatever
\* is edited, answered, refused or saved by others.
THEOREM EditorTypes ==
  ASSUME NoneIsNothing
  PROVE  Spec => []EditorTypeOK
<1>1. EditorInv => EditorTypeOK
  BY DEF EditorInv
<1> QED
  BY <1>1, EditorAlways, PTL

\* A canvas of one reading that differs from what was saved is dirty, so the page asks
\* before it drops work (markDirty and useBlocker of WorkspacePage.tsx).
THEOREM DirtyStaysHonest ==
  ASSUME NoneIsNothing
  PROVE  Spec => []DirtyIsHonest
<1>1. EditorInv => DirtyIsHonest
  BY DEF EditorInv, PageInv, Honest, DirtyIsHonest
<1> QED
  BY <1>1, EditorAlways, PTL

\* What saveCanvas puts of one reading is one canvas: no draft, no dangling connection,
\* a place for every chip.
THEOREM PutsAreWhole ==
  ASSUME NoneIsNothing
  PROVE  Spec => []PutIsWhole
<1>1. EditorInv => PutIsWhole
  BY DEF EditorInv, SaveInv, PutIsWhole
<1> QED
  BY <1>1, EditorAlways, PTL

\* No page stays busy without the save that will give it back (the finally of
\* saveCanvas and the change of the route).
THEOREM BusyPagesHaveSaves ==
  ASSUME NoneIsNothing
  PROVE  Spec => []BusyHasSave
<1>1. EditorInv => BusyHasSave
  BY DEF EditorInv, RouteInv
<1> QED
  BY <1>1, EditorAlways, PTL
=============================================================================
