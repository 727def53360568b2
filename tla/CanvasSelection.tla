-------------------------- MODULE CanvasSelection --------------------------
(***************************************************************************)
(* The pointer, the keyboard and the clipboard on the canvas               *)
(* (ui/src/pages/WorkspacePage.tsx, chipClipboard.ts): dragging chips,     *)
(* drawing a connection, the selection box and the pan, and what is        *)
(* selected, copied, pasted and deleted in the end.  A gesture is kept in  *)
(* a ref (drag, link, box, pan) beside what is rendered of it (line,       *)
(* marquee), and lives until the pointer is up: the pointer is captured by *)
(* what it was pressed on, and that may be gone before.                    *)
(*                                                                         *)
(* grid is the state of the page: ws, chips and wires of the workspace,    *)
(* dirty and busy, the selection, the gestures, down (what has captured    *)
(* the pointer), past (the snapshot undo goes back to), the context menu,  *)
(* the dialog that asks, the clipboard, and the request that waits.        *)
(* stored is the server's: the chips of every workspace.                   *)
(***************************************************************************)
EXTENDS Naturals, FiniteSets

CONSTANTS
  Workspace,   \* workspaces
  Chip,        \* chips that are stored at the start, all of the first workspace
  Draft,       \* ids of chips that exist on the page only
  Fresh,       \* ids the server gives to what it stores
  Wire,        \* the connections that may be drawn, pairs of chips
  MaxClicks,   \* bound on what the user does
  MaxFaults,   \* bound on the requests that fail
  None

VARIABLES grid, stored
vars == <<grid, stored>>

Snapshot(q) == [chips |-> q.chips, wires |-> q.wires]
Between(chips, wires) == {e \in wires : e[1] \in chips /\ e[2] \in chips}

Init ==
  \E w \in Workspace :
    /\ stored = [v \in Workspace |-> IF v = w THEN Chip ELSE {}]
    /\ grid = [ws |-> w, chips |-> Chip, wires |-> Between(Chip, Wire), dirty |-> FALSE, busy |-> FALSE,
               selChips |-> {}, selWires |-> {}, drag |-> None, link |-> None, line |-> None, box |-> None,
               marquee |-> FALSE, pan |-> None, down |-> None, past |-> None, menu |-> None, dialog |-> None,
               clip |-> None, asked |-> None, clicks |-> 0, faults |-> 0]

Do(q) == grid.clicks < MaxClicks /\ grid' = [q EXCEPT !.clicks = @ + 1]
Goes(q) == grid' = q /\ UNCHANGED stored
Fails(q) == grid.faults < MaxFaults /\ Goes([q EXCEPT !.faults = @ + 1])
Edited(q) == [q EXCEPT !.dirty = TRUE]
WithPast(q) == [q EXCEPT !.past = Snapshot(grid)]

Select(q, chips, wires) == [q EXCEPT !.selChips = chips, !.selWires = wires]
Toggle(set, x) == IF x \in set THEN set \ {x} ELSE set \cup {x}

\* What captured the pointer is no longer there: nobody hears that the pointer is up.
Shows(q, chips, wires) ==
  [q EXCEPT !.chips = chips, !.wires = wires, !.down = IF @ # None /\ @ \notin chips \cup {"canvas"} THEN None ELSE @]

-----------------------------------------------------------------------------
(* A chip is pressed, dragged and dropped                                  *)

Up == grid.down = None /\ grid.dialog = None

NodeDown(c, additive) ==
  /\ Up /\ c \in grid.chips /\ UNCHANGED stored
  /\ LET was == c \in grid.selChips
         q == IF ~additive /\ ~was THEN Select(grid, {c}, {})
              ELSE [grid EXCEPT !.selChips = @ \cup {c}]
         ids == IF was THEN grid.selChips ELSE IF additive THEN grid.selChips \cup {c} ELSE {c}
     IN  Do([q EXCEPT !.down = c, !.menu = None,
                      !.drag = [id |-> c, ids |-> ids, additive |-> additive, was |-> was, moved |-> FALSE]])

NodeMove ==
  /\ grid.drag # None /\ grid.down = grid.drag.id /\ ~grid.drag.moved
  /\ Goes([grid EXCEPT !.drag.moved = TRUE])

\* Dropped inside the canvas, or carried out of it or canceled, which selects nothing.
FinishDrag(inside) ==
  /\ grid.drag # None /\ grid.down = grid.drag.id
  /\ LET d == grid.drag
         q == [grid EXCEPT !.drag = None, !.down = None]
     IN  Goes(IF d.moved THEN Edited(WithPast(q))
              ELSE IF d.additive THEN IF d.was THEN [q EXCEPT !.selChips = @ \ {d.id}] ELSE q
              ELSE IF inside THEN Select(q, {d.id}, {}) ELSE q)

-----------------------------------------------------------------------------
(* A connection is drawn from a port                                       *)

PortDown(c) ==
  /\ Up /\ c \in grid.chips /\ UNCHANGED stored
  /\ LET new == [from |-> c, to |-> None] IN
     Do([grid EXCEPT !.selWires = {}, !.link = new, !.line = new, !.down = c, !.menu = None])

\* The chip under the pointer, or the nearest one.
PortMove(to) ==
  /\ grid.link # None /\ grid.down = grid.link.from /\ to \in (grid.chips \ {grid.link.from}) \cup {None}
  /\ LET new == [grid.link EXCEPT !.to = to] IN Goes([grid EXCEPT !.link = new, !.line = new])

ClearLinking(q) == [q EXCEPT !.link = None, !.line = None]

\* The ref decides, shown or not: connectChips is modelled in CanvasGraph.
PortUp ==
  /\ grid.link # None /\ grid.down = grid.link.from
  /\ LET q == [ClearLinking(grid) EXCEPT !.down = None]
         wire == <<grid.link.from, grid.link.to>>
     IN  Goes(IF wire \in Wire \ grid.wires /\ grid.link.to \in grid.chips
              THEN Edited([WithPast(q) EXCEPT !.wires = @ \cup {wire}]) ELSE q)
PortCancel == grid.link # None /\ grid.down = grid.link.from /\ Goes([ClearLinking(grid) EXCEPT !.down = None])

-----------------------------------------------------------------------------
(* The box and the pan                                                     *)

CanvasDown(additive) ==
  Up /\ UNCHANGED stored
  /\ Do([grid EXCEPT !.box = [additive |-> additive, moved |-> FALSE], !.marquee = TRUE, !.down = "canvas",
                     !.menu = None])
PanDown == Up /\ UNCHANGED stored /\ Do([grid EXCEPT !.pan = [moved |-> FALSE], !.down = "canvas", !.menu = None])

CanvasMove ==
  /\ grid.down = "canvas"
  /\ IF grid.pan # None THEN ~grid.pan.moved /\ Goes([grid EXCEPT !.pan.moved = TRUE])
     ELSE grid.box # None /\ ~grid.box.moved /\ Goes([grid EXCEPT !.box.moved = TRUE])

\* The box selects the chips it touches and the wires it crosses.
CanvasUp(picked) ==
  /\ grid.down = "canvas" /\ picked \subseteq grid.chips
  /\ LET q == [grid EXCEPT !.pan = None, !.down = None]
         b == [q EXCEPT !.box = None, !.marquee = FALSE]
     IN  Goes(IF grid.pan # None THEN IF grid.pan.moved THEN q ELSE Select(q, {}, {})
              ELSE IF grid.box = None THEN q
              ELSE IF ~grid.box.moved THEN Select(b, {}, {})
              ELSE IF grid.box.additive
                   THEN Select(b, grid.selChips \cup picked, grid.selWires \cup Between(picked, grid.wires))
              ELSE Select(b, picked, Between(picked, grid.wires)))
CanvasCancel ==
  grid.down = "canvas" /\ Goes([grid EXCEPT !.pan = None, !.box = None, !.marquee = FALSE, !.down = None])

\* Escape takes the box back for good, but of a connection only what is rendered.
Escape ==
  /\ grid.dialog = None /\ UNCHANGED stored
  /\ Do(Select([grid EXCEPT !.line = None, !.box = None, !.marquee = FALSE, !.menu = None], {}, {}))

-----------------------------------------------------------------------------
(* Layers, menu, undo and delete                                           *)

SelectLayer(x, additive) ==
  /\ Up /\ UNCHANGED stored
  /\ IF x \in grid.chips
     THEN Do(IF additive THEN [grid EXCEPT !.selChips = Toggle(@, x)] ELSE Select(grid, {x}, {}))
     ELSE /\ x \in grid.wires
          /\ Do(IF additive THEN [grid EXCEPT !.selWires = Toggle(@, x)] ELSE Select(grid, {}, {x}))
SelectAllLayers(checked) ==
  /\ Up /\ UNCHANGED stored
  /\ Do(IF checked THEN Select(grid, grid.chips, grid.wires) ELSE Select(grid, {}, {}))

OpenMenu(c) ==
  /\ Up /\ c \in grid.chips /\ UNCHANGED stored
  /\ Do([IF c \in grid.selChips THEN grid ELSE Select(grid, {c}, {}) EXCEPT !.menu = c])

UndoCanvas ==
  /\ grid.past # None /\ grid.dialog = None /\ ~grid.busy /\ UNCHANGED stored
  /\ Do(Edited([Shows(grid, grid.past.chips, grid.past.wires) EXCEPT
          !.drag = None, !.past = Snapshot(grid), !.selChips = @ \cap grid.past.chips,
          !.selWires = @ \cap grid.past.wires]))

\* By the key what is selected, by the menu the chip of the menu.
DeleteLayers(byMenu) ==
  /\ grid.dialog = None /\ ~grid.busy /\ UNCHANGED stored
  /\ LET chips == IF byMenu THEN {grid.menu} ELSE grid.selChips \cap grid.chips
         wires == IF byMenu THEN {} ELSE grid.selWires \cap grid.wires
     IN  /\ chips \cup wires # {} /\ (byMenu => grid.menu # None)
         /\ Do([grid EXCEPT !.menu = None, !.dialog = [kind |-> "delete", chips |-> chips, wires |-> wires]])

Removed(chips, wires) ==
  LET left == grid.chips \ chips
      kept == Between(left, grid.wires \ wires)
  IN  [Edited(WithPast(Shows(grid, left, kept))) EXCEPT
         !.selChips = @ \ chips, !.selWires = @ \cap kept,
         !.drag = IF @ # None /\ @.id \in chips THEN None ELSE @]

-----------------------------------------------------------------------------
(* Copy and paste: the canvas is saved before, if it has to be             *)

MustSave == grid.dirty \/ grid.chips \cap Draft # {}

\* A chip that was a draft when it was selected is no longer there after the save.
CopyIds(q) ==
  LET ids == (q.selChips \cap q.chips) \ Draft IN
  IF ids = {} THEN q ELSE [q EXCEPT !.clip = [of |-> q.ws, ids |-> ids]]

Copy ==
  /\ grid.dialog = None /\ ~grid.busy /\ UNCHANGED stored
  /\ Do(IF MustSave THEN [grid EXCEPT !.menu = None, !.dialog = [kind |-> "copy"]]
        ELSE [CopyIds(grid) EXCEPT !.menu = None])
Paste ==
  /\ grid.dialog = None /\ ~grid.busy /\ grid.clip # None /\ UNCHANGED stored
  /\ Do(IF MustSave THEN [grid EXCEPT !.dialog = [kind |-> "paste"]]
        ELSE [grid EXCEPT !.busy = TRUE, !.asked = [kind |-> "paste", of |-> grid.ws, next |-> None]])

Confirm(yes) ==
  /\ grid.dialog # None
  /\ LET q == [grid EXCEPT !.dialog = None] IN
     Goes(IF ~yes THEN q
          ELSE IF grid.dialog.kind = "delete"
          THEN [Removed(grid.dialog.chips, grid.dialog.wires) EXCEPT !.dialog = None]
          ELSE [q EXCEPT !.busy = TRUE, !.asked = [kind |-> "save", of |-> grid.ws, next |-> grid.dialog.kind]])

\* External: the ids the server gives to what is sent.
NewIds(ids) == {new \in SUBSET (Fresh \ UNION {stored[w] : w \in Workspace}) : Cardinality(new) = Cardinality(ids)}

\* The canvas of the answer is shown; the selection is the one of before.
SaveAnswer ==
  /\ grid.asked # None /\ grid.asked.kind = "save"
  /\ LET here == grid.asked.of = grid.ws
         q == [grid EXCEPT !.asked = None, !.busy = IF here THEN FALSE ELSE @]
     IN  \/ \E new \in NewIds(grid.chips \cap Draft) :
              LET chips == (grid.chips \ Draft) \cup new
                  saved == [Shows(q, chips, Between(chips, q.wires)) EXCEPT !.dirty = FALSE, !.past = None]
              IN  /\ here
                  /\ stored' = [stored EXCEPT ![grid.ws] = chips]
                  /\ grid' = IF grid.asked.next = "copy" THEN CopyIds(saved)
                             ELSE [saved EXCEPT !.busy = TRUE,
                                     !.asked = [kind |-> "paste", of |-> grid.ws, next |-> None]]
         \/ ~here /\ Goes(q)
         \/ Fails(q)

\* The copies are of the clipboard as it is when the server reads it; they are selected.
PasteAnswer ==
  /\ grid.asked # None /\ grid.asked.kind = "paste"
  /\ LET here == grid.asked.of = grid.ws
         q == [grid EXCEPT !.asked = None, !.busy = IF here THEN FALSE ELSE @]
     IN  \/ \E new \in NewIds(grid.clip.ids) :
              LET chips == stored[grid.asked.of] \cup new IN
              /\ grid.clip.ids \subseteq stored[grid.clip.of]
              /\ stored' = [stored EXCEPT ![grid.asked.of] = chips]
              /\ grid' = IF ~here THEN q
                         ELSE Select([Shows(WithPast(q), chips, Between(chips, q.wires)) EXCEPT !.dirty = FALSE],
                                     new, {})
         \/ Fails(q)

-----------------------------------------------------------------------------
(* What else changes the canvas                                            *)

Place(d) ==
  /\ Up /\ d \in Draft \ grid.chips /\ UNCHANGED stored
  /\ Do(Edited(Select([WithPast(grid) EXCEPT !.chips = @ \cup {d}], {d}, {})))

\* A refresh replaces what has no unsaved edits, and leaves the selection alone.
Refresh ==
  /\ ~grid.busy /\ ~grid.dirty /\ grid.dialog = None
  /\ Goes([Shows(grid, stored[grid.ws], Between(stored[grid.ws], Wire)) EXCEPT !.past = None])
Elsewhere(c) ==
  grid.asked = None /\ \E w \in Workspace : c \in stored[w] /\ stored' = [stored EXCEPT ![w] = @ \ {c}] /\ UNCHANGED grid

Open(w) ==
  /\ w # grid.ws /\ Up /\ UNCHANGED stored
  /\ Do(Select([Shows(grid, stored[w], Between(stored[w], Wire)) EXCEPT
          !.ws = w, !.dirty = FALSE, !.busy = FALSE, !.past = None, !.menu = None], {}, {}))

Next ==
  \/ \E c \in Chip \cup Draft \cup Fresh :
       \/ \E additive \in BOOLEAN : NodeDown(c, additive)
       \/ PortDown(c) \/ PortMove(c) \/ OpenMenu(c) \/ Place(c) \/ Elsewhere(c)
  \/ PortMove(None)
  \/ \E x \in grid.chips \cup grid.wires, additive \in BOOLEAN : SelectLayer(x, additive)
  \/ \E yes \in BOOLEAN :
       FinishDrag(yes) \/ CanvasDown(yes) \/ SelectAllLayers(yes) \/ DeleteLayers(yes) \/ Confirm(yes)
  \/ \E picked \in SUBSET grid.chips : CanvasUp(picked)
  \/ \E w \in Workspace : Open(w)
  \/ NodeMove \/ PortUp \/ PortCancel \/ PanDown \/ CanvasMove \/ CanvasCancel \/ Escape \/ UndoCanvas
  \/ Copy \/ Paste \/ SaveAnswer \/ PasteAnswer \/ Refresh

-----------------------------------------------------------------------------
\* What is rendered of a gesture has the gesture behind it: no line and no box hangs on
\* the canvas that the pointer no longer draws.
GesturesMatch ==
  /\ grid.line # None => grid.link = grid.line
  /\ grid.marquee = (grid.box # None)
=============================================================================
