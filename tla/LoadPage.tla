------------------------------ MODULE LoadPage ------------------------------
(***************************************************************************)
(* The load editor (ui/src/pages/LoadPage.tsx): an input, a table or file  *)
(* it is loaded into, a run, and the chip that is registered or changed.   *)
(*                                                                         *)
(* load is the state of the page, its fields named as in the source:       *)
(*   mode     plain: a load of its own; chip: of a chip of the catalog;    *)
(*           canvas: of a chip on a canvas                                 *)
(*   dest     the connection and table, of which status and columns tell   *)
(*   timer    the delayed question for the columns of the table            *)
(*   preview  the dataset the rows on the page are of                      *)
(*   save     the registration: off, define, register or undo              *)
(*   asks     requests whose answer still counts, [kind, of]               *)
(* made is what the page created on the server.                            *)
(***************************************************************************)
EXTENDS Naturals

CONSTANTS
  Dataset,    \* datasets
  Conn,       \* connections
  Table,      \* tables
  Load,       \* load definitions that are stored
  MaxClicks,  \* bound on what the user does
  None

VARIABLES load, made
vars == <<load, made>>

Ask(kind, of) == [kind |-> kind, of |-> of]
Nowhere == [conn |-> None, table |-> None]
Known(d) == d.conn # None /\ d.table # None

Init ==
  /\ made = [definition |-> FALSE, chip |-> FALSE]
  /\ \E mode \in {"plain", "chip", "canvas"} :
       load = [mode |-> mode, left |-> FALSE, loads |-> FALSE, inputDatasetId |-> None,
               userSelected |-> FALSE, type |-> "database", dest |-> Nowhere, status |-> "idle",
               columns |-> None, timer |-> FALSE, preview |-> None, previewOpen |-> FALSE,
               editingId |-> None, lastRun |-> None, busy |-> FALSE, save |-> "off",
               asks |-> {Ask("lists", None)} \cup (IF mode = "canvas" THEN {Ask("slot", None)} ELSE {}),
               clicks |-> 0]

Answer(a) == ~load.left /\ a \in load.asks /\ UNCHANGED made
Without(a) == [load EXCEPT !.asks = @ \ {a}]

-----------------------------------------------------------------------------
(* The effects that run after a render                                     *)

Drop(q, kind) == {a \in q.asks : a.kind # kind}
Target(q) == [type |-> q.type, dest |-> q.dest]

\* Mutant: the question for the table before is not forgotten.
ColumnsOfKeeps(q) ==
  IF Target(q) = Target(load) THEN q
  ELSE IF q.type = "database" /\ Known(q.dest) THEN [q EXCEPT !.status = "loading", !.timer = TRUE]
  ELSE [q EXCEPT !.status = "idle", !.columns = None, !.timer = FALSE]

\* A new table is asked for its columns after a pause, and only the last one counts.
ColumnsOf(q) ==
  IF Target(q) = Target(load) THEN q
  ELSE LET fresh == [q EXCEPT !.asks = Drop(q, "columns")] IN
       IF q.type = "database" /\ Known(q.dest) THEN [fresh EXCEPT !.status = "loading", !.timer = TRUE]
       ELSE [fresh EXCEPT !.status = "idle", !.columns = None, !.timer = FALSE]

\* A new input is read, and so is the last run of a definition; older answers count too.
Rendered(q) ==
  LET read == IF q.inputDatasetId = load.inputDatasetId THEN q
              ELSE IF q.inputDatasetId = None THEN [q EXCEPT !.preview = None]
              ELSE [q EXCEPT !.asks = @ \cup {Ask("inspect", q.inputDatasetId)}]
      run == IF read.editingId \in {load.editingId, None} THEN read
             ELSE [read EXCEPT !.asks = @ \cup {Ask("last", read.editingId)}]
  IN ColumnsOf(run)

Do(q) ==
  /\ ~load.left /\ load.clicks < MaxClicks
  /\ load' = [Rendered(q) EXCEPT !.clicks = @ + 1] /\ UNCHANGED made

InspectAnswer(a) ==
  /\ Answer(a) /\ a.kind = "inspect"
  /\ load' \in {Without(a), [Without(a) EXCEPT !.preview = a.of]}

LastRunAnswer(a) ==
  /\ Answer(a) /\ a.kind = "last" /\ load' \in {[Without(a) EXCEPT !.lastRun = r] : r \in {a.of, None}}

ColumnsTimer ==
  /\ ~load.left /\ load.timer /\ UNCHANGED made
  /\ load' = [load EXCEPT !.timer = FALSE, !.asks = @ \cup {Ask("columns", load.dest)}]

\* An error counts as a table that does not exist yet.
ColumnsAnswer(a) ==
  /\ Answer(a) /\ a.kind = "columns"
  /\ \/ load' = [Without(a) EXCEPT !.columns = a.of, !.status = "existing"]
     \/ load' = [Without(a) EXCEPT !.columns = None, !.status = "new"]

-----------------------------------------------------------------------------
(* What the page loads: the lists, the wired input, the binding of the chip *)

\* edit: a stored definition replaces what is on the page.
Edit(q, id, d, dest) ==
  [q EXCEPT !.editingId = id, !.dest = dest, !.type = IF dest = Nowhere THEN "file" ELSE "database",
            !.inputDatasetId = IF load.mode = "canvas" THEN @ ELSE d]

ListsAnswer ==
  LET a == Ask("lists", None) IN
  /\ Answer(a)
  /\ load' \in {Without(a), [Without(a) EXCEPT !.loads = TRUE,
                  !.asks = @ \cup IF load.mode = "plain" THEN {} ELSE {Ask("binding", None)}]}

\* The slot gives the dataset that is wired, or none.
SlotAnswer(d) ==
  LET a == Ask("slot", None) IN
  /\ Answer(a)
  /\ load' = IF d = None THEN Without(a)
             ELSE Rendered([Without(a) EXCEPT !.inputDatasetId = d, !.userSelected = FALSE])

BindingAnswer(id, d, dest) ==
  LET a == Ask("binding", None) IN
  Answer(a) /\ load' \in {Without(a), Rendered(Edit(Without(a), id, d, dest))}

-----------------------------------------------------------------------------
(* Editing                                                                 *)

PickInput(d) ==
  /\ load.mode # "canvas" /\ ~load.previewOpen
  /\ Do([load EXCEPT !.inputDatasetId = d, !.userSelected = TRUE])

PickConnection(c) == ~load.previewOpen /\ Do([load EXCEPT !.dest = [conn |-> c, table |-> None]])

PickTable(t) ==
  ~load.previewOpen /\ load.dest.conn # None /\ Do([load EXCEPT !.dest.table = t])

PickType(type) == ~load.previewOpen /\ type # load.type /\ Do([load EXCEPT !.type = type])

Reset ==
  /\ ~load.previewOpen
  /\ Do([load EXCEPT !.editingId = None, !.type = "database", !.dest = Nowhere, !.lastRun = None,
                     !.columns = None, !.status = "idle",
                     !.inputDatasetId = IF load.mode = "canvas" THEN @ ELSE None])

OpenPreview == load.inputDatasetId # None /\ load.preview # None /\ Do([load EXCEPT !.previewOpen = TRUE])
ClosePreview == load.previewOpen /\ Do([load EXCEPT !.previewOpen = FALSE])

-----------------------------------------------------------------------------
(* Running and saving                                                      *)

CanSave == load.inputDatasetId # None /\ (load.type = "file" \/ Known(load.dest))

\* The schemas may not match: the preview and the columns decide, when both are there.
CanRun(matching) == CanSave /\ (load.type = "database" /\ load.status = "existing" => matching)

RunLoad(matching) ==
  /\ CanRun(matching) /\ ~load.busy /\ ~load.previewOpen /\ (load.mode # "canvas" \/ load.userSelected)
  /\ Do([load EXCEPT !.busy = TRUE, !.asks = @ \cup {Ask("run", None)}])

RunAnswer(r) ==
  LET a == Ask("run", None) IN
  Answer(a) /\ load' \in {[Without(a) EXCEPT !.busy = FALSE, !.lastRun = x] : x \in {r, load.lastRun}}

SaveLoad ==
  /\ CanSave /\ ~load.busy /\ ~load.previewOpen
  /\ Do([load EXCEPT !.busy = TRUE, !.save = IF load.editingId # None /\ load.mode # "plain"
                                             THEN "update" ELSE "define"])

Done(left) == [load EXCEPT !.busy = FALSE, !.save = "off", !.left = left]

\* A chip is bound to its definition by this request; a new load is registered next.
Define ==
  /\ ~load.left /\ load.save \in {"define", "update"}
  /\ \/ /\ load' = IF load.mode = "plain" THEN [load EXCEPT !.save = "register"] ELSE Done(TRUE)
        /\ made' = IF load.mode = "plain" THEN [definition |-> TRUE, chip |-> FALSE] ELSE made
     \/ load' = Done(FALSE) /\ UNCHANGED made

\* The name comes from the catalog, and may be taken by now.
Register ==
  /\ ~load.left /\ load.save = "register"
  /\ \/ made' = [made EXCEPT !.chip = TRUE] /\ load' = Done(FALSE)
     \/ load' = [load EXCEPT !.save = "undo"] /\ UNCHANGED made

\* An error of this request is swallowed; it is taken to go through here.
Undo ==
  /\ ~load.left /\ load.save = "undo"
  /\ made' = [made EXCEPT !.definition = FALSE] /\ load' = Done(FALSE)

LeaveEditor == load.mode # "plain" /\ ~load.busy /\ ~load.previewOpen /\ Do([load EXCEPT !.left = TRUE])

Next ==
  \/ \E a \in load.asks : InspectAnswer(a) \/ LastRunAnswer(a) \/ ColumnsAnswer(a)
  \/ \E d \in Dataset : PickInput(d)
  \/ \E d \in Dataset \cup {None} :
       \/ SlotAnswer(d)
       \/ \E id \in Load, c \in Conn, t \in Table :
            BindingAnswer(id, d, [conn |-> c, table |-> t]) \/ BindingAnswer(id, d, Nowhere)
  \/ \E c \in Conn : PickConnection(c)
  \/ \E t \in Table \cup {None} : PickTable(t)
  \/ \E type \in {"database", "file"} : PickType(type)
  \/ \E matching \in BOOLEAN : RunLoad(matching)
  \/ ListsAnswer \/ ColumnsTimer \/ Reset \/ OpenPreview \/ ClosePreview \/ RunAnswer("now")
  \/ SaveLoad \/ Define \/ Register \/ Undo \/ LeaveEditor

-----------------------------------------------------------------------------
\* However fast the user changes the table, and whenever the stored definition comes in
\* between: the columns the page checks a run by are those of the table it would load
\* into, or it says that it is still asking for them.
DestinationIsCurrent ==
  ~load.left =>
    /\ load.status = "existing" => load.columns = load.dest /\ load.type = "database"
    /\ load.status = "loading" <=> load.timer \/ \E a \in load.asks : a.kind = "columns"

\* A load whose chip could not be registered leaves no definition behind.
FailedLoadLeavesNothing == load.mode = "plain" /\ load.save = "off" => made.definition = made.chip
=============================================================================
