----------------------------- MODULE ScriptPage -----------------------------
(***************************************************************************)
(* The script editor (ui/src/pages/ScriptPage.tsx): the files and inputs   *)
(* of a script, its preview, and the chip it is saved as.                  *)
(*                                                                         *)
(* script is the state of the page, its fields named as in the source:     *)
(*   mode     plain: a script of its own; chip: of a chip of the catalog;  *)
(*           canvas: of a chip on a canvas; new: a chip to be placed       *)
(*   chip     whether the chip is loaded or was saved                      *)
(*   inputs   datasets in their order; lockedIds those that are wired,     *)
(*            draft those the address of the page names                    *)
(*   files    files besides the entry, of which active is open             *)
(*   save     the save that runs: off, create, update, place or undo       *)
(*   asks     requests whose answer still counts                           *)
(* made is what the page created: chips, and those placed on the canvas.   *)
(***************************************************************************)
EXTENDS Naturals, SequencesExt

CONSTANTS
  Dataset,    \* datasets
  Fetched,    \* those with rows, which a preview can read
  File,       \* names of further files
  MaxInputs,  \* MAX_SCRIPT_INPUTS
  MaxFiles,   \* MAX_SCRIPT_FILES
  MaxClicks,  \* bound on what the user does
  None

VARIABLES script, made
vars == <<script, made>>

Entry == "main"
InputLists == {s \in UNION {[1..n -> Dataset] : n \in 0..MaxInputs} : IsInjective(s)}

Init ==
  /\ made = [chip |-> FALSE, placed |-> FALSE]
  /\ \E mode \in {"plain", "chip", "canvas", "new"}, draft \in {s \in InputLists : Len(s) <= 1} :
       script = [mode |-> mode, left |-> FALSE, chip |-> FALSE, named |-> FALSE,
                 draft |-> IF mode \in {"chip", "canvas"} THEN <<>> ELSE draft,
                 inputs |-> IF mode \in {"chip", "canvas"} THEN <<>> ELSE draft, lockedIds |-> {},
                 files |-> {}, active |-> Entry, written |-> TRUE, adding |-> FALSE,
                 previewOpen |-> FALSE, preview |-> None, previewLoading |-> FALSE,
                 registerOpen |-> FALSE, pickOpen |-> FALSE, busy |-> FALSE, save |-> "off",
                 asks |-> {"catalog"} \cup (IF mode \in {"chip", "canvas"} THEN {"chip"} ELSE {})
                                      \cup (IF mode = "canvas" THEN {"slot"} ELSE {}),
                 clicks |-> 0]

Click == ~script.left /\ script.clicks < MaxClicks
Do(q) == Click /\ script' = [q EXCEPT !.clicks = @ + 1] /\ UNCHANGED made
Answer(a) == ~script.left /\ a \in script.asks
Without(a) == [script EXCEPT !.asks = @ \ {a}]

-----------------------------------------------------------------------------
(* What the page loads: the answers come in any order                      *)

Truncated(s) == SubSeq(s, 1, IF Len(s) > MaxInputs THEN MaxInputs ELSE Len(s))
Merge(first, rest) == Truncated(first \o SelectSeq(rest, LAMBDA d : d \notin ToSet(first)))

\* The catalog names a new chip; a failure leaves it without a name.
CatalogAnswer ==
  /\ Answer("catalog") /\ UNCHANGED made
  /\ script' \in {Without("catalog"),
                  [Without("catalog") EXCEPT !.named = @ \/ script.mode \in {"plain", "new"}]}

ChipAnswer(saved) ==
  /\ Answer("chip") /\ UNCHANGED made
  /\ \/ script' = Without("chip")
     \/ \E fs \in SUBSET File, w \in BOOLEAN :
          script' = [Without("chip") EXCEPT
            !.chip = TRUE, !.named = TRUE, !.files = fs, !.active = Entry, !.written = w,
            !.inputs = IF script.mode # "canvas" THEN saved
                       ELSE Merge(SelectSeq(@, LAMBDA d : d \in script.lockedIds), saved)]

SlotAnswer(locked) ==
  /\ Answer("slot") /\ UNCHANGED made
  /\ \/ script' = Without("slot")
     \/ script' = [Without("slot") EXCEPT
          !.lockedIds = ToSet(locked), !.inputs = IF locked = <<>> THEN @ ELSE Merge(locked, @)]

Fixed == script.mode \in {"chip", "canvas"}
Dialog == script.adding \/ script.previewOpen \/ script.registerOpen

\* A change of the language loads everything again, over what was edited.
Relabel ==
  /\ ~Dialog
  /\ Do([script EXCEPT
          !.asks = @ \cup {"catalog"} \cup (IF Fixed THEN {"chip"} ELSE {})
                                      \cup (IF script.mode = "canvas" THEN {"slot"} ELSE {}),
          !.chip = FALSE, !.files = {}, !.active = Entry, !.written = TRUE,
          !.inputs = IF Fixed THEN @ ELSE script.draft])

-----------------------------------------------------------------------------
(* Editing                                                                 *)

Editable == ~Dialog /\ ~script.busy

\* An effect brings the draft back when nothing is chosen any more.
ToggleInput(d) ==
  /\ Editable /\ d \notin script.lockedIds
  /\ IF d \in ToSet(script.inputs)
     THEN Do([script EXCEPT !.inputs = IF @ = <<d>> THEN script.draft ELSE SelectSeq(@, LAMBDA x : x # d)])
     ELSE Len(script.inputs) < MaxInputs /\ Do([script EXCEPT !.inputs = Append(@, d)])

\* Clearing or writing the open file; only the entry decides on a save.
SetSource(w) ==
  /\ Editable /\ script.active = Entry /\ w # script.written /\ Do([script EXCEPT !.written = w])

OpenAdding ==
  /\ Editable /\ Cardinality(script.files) + 1 < MaxFiles /\ Do([script EXCEPT !.adding = TRUE])

AddFile(f) ==
  /\ script.adding /\ f \notin script.files
  /\ Do([script EXCEPT !.files = @ \cup {f}, !.active = f, !.adding = FALSE])

CloseAdding == script.adding /\ Do([script EXCEPT !.adding = FALSE])

PickFile(f) == ~Dialog /\ f \in script.files \cup {Entry} /\ Do([script EXCEPT !.active = f])

\* After a question; the entry has no such button.
RemoveFile(f) ==
  /\ ~Dialog /\ f \in script.files
  /\ Do([script EXCEPT !.files = @ \ {f}, !.active = IF @ = f THEN Entry ELSE @])

-----------------------------------------------------------------------------
(* Preview and export                                                      *)

CanOpenSave == script.written /\ (script.mode = "canvas" \/ script.inputs # <<>>)
Rows == ToSet(script.inputs) \cap Fetched

OpenResult ==
  /\ ~script.adding /\ ~script.registerOpen /\ ~script.previewOpen /\ ~script.busy /\ CanOpenSave
  /\ LET ask == Rows # {} IN
     Do([script EXCEPT !.previewOpen = TRUE, !.preview = None, !.previewLoading = @ \/ ask,
                       !.asks = IF ask THEN @ \cup {"preview"} ELSE @])

PreviewAnswer ==
  /\ Answer("preview") /\ UNCHANGED made
  /\ script' \in {[Without("preview") EXCEPT !.previewLoading = FALSE, !.preview = p] :
                    p \in {"rows", script.preview}}

CloseResult == script.previewOpen /\ ~script.registerOpen /\ Do([script EXCEPT !.previewOpen = FALSE])

OnExport ==
  /\ script.mode = "plain" /\ script.previewOpen /\ ~script.registerOpen /\ Rows # {}
  /\ ~script.busy /\ ~script.previewLoading /\ ~script.pickOpen
  /\ Do([script EXCEPT !.pickOpen = TRUE])

PickFolder ==
  /\ script.pickOpen
  /\ \/ Do([script EXCEPT !.pickOpen = FALSE])
     \/ Do([script EXCEPT !.pickOpen = FALSE, !.busy = TRUE, !.asks = @ \cup {"export"}])

ExportAnswer ==
  Answer("export") /\ script' = [Without("export") EXCEPT !.busy = FALSE] /\ UNCHANGED made

-----------------------------------------------------------------------------
(* Saving                                                                  *)

OpenRegister ==
  /\ script.previewOpen /\ ~script.registerOpen /\ ~script.busy /\ ~script.pickOpen /\ CanOpenSave
  /\ Do([script EXCEPT !.registerOpen = TRUE, !.named = TRUE])

\* The cross closes it while a save runs, too.
CloseRegister == script.registerOpen /\ Do([script EXCEPT !.registerOpen = FALSE])

SaveScript ==
  /\ script.registerOpen /\ script.named /\ ~script.busy /\ CanOpenSave
  /\ Do([script EXCEPT !.busy = TRUE, !.save = IF script.chip THEN "update" ELSE "create"])

Done(q) == [q EXCEPT !.busy = FALSE, !.save = "off"]
Saved(q) == [Done(q) EXCEPT !.chip = TRUE, !.registerOpen = FALSE, !.previewOpen = FALSE,
                            !.left = script.mode # "chip"]

\* The chip is changed when it was loaded and made when it was not.
SaveChip ==
  /\ ~script.left /\ script.save \in {"create", "update"}
  /\ \/ /\ made' = [made EXCEPT !.chip = @ \/ script.save = "create"]
        /\ script' = IF script.mode = "new" THEN [script EXCEPT !.save = "place"] ELSE Saved(script)
     \/ script' = Done(script) /\ UNCHANGED made

\* workspace.get and chipApi.list, then the save with the version that was read
PlaceOnWorkspace ==
  /\ ~script.left /\ script.save = "place"
  /\ \/ made' = [made EXCEPT !.placed = TRUE] /\ script' = Saved(script)
     \/ script' = [script EXCEPT !.save = "undo"] /\ UNCHANGED made

\* An error of this request is swallowed; it is taken to go through here.
Undo ==
  /\ ~script.left /\ script.save = "undo"
  /\ made' = [made EXCEPT !.chip = FALSE] /\ script' = Done(script)

LeaveEditor == script.mode # "plain" /\ Editable /\ Do([script EXCEPT !.left = TRUE])

Next ==
  \/ CatalogAnswer \/ Relabel \/ OpenAdding \/ CloseAdding \/ OpenResult \/ PreviewAnswer
  \/ CloseResult \/ OnExport \/ PickFolder \/ ExportAnswer \/ OpenRegister \/ CloseRegister
  \/ SaveScript \/ SaveChip \/ PlaceOnWorkspace \/ Undo \/ LeaveEditor
  \/ \E s \in InputLists : ChipAnswer(s) \/ SlotAnswer(s)
  \/ \E d \in Dataset : ToggleInput(d)
  \/ \E w \in BOOLEAN : SetSource(w)
  \/ \E f \in File \cup {Entry} : AddFile(f) \/ PickFile(f) \/ RemoveFile(f)

-----------------------------------------------------------------------------
\* Chip and slot answer in any order, and again when the language changes: what is wired
\* is always an input, before the others, and the inputs are no more than allowed.
WiredComeFirst ==
  /\ Len(script.inputs) <= MaxInputs
  /\ {script.inputs[i] : i \in 1..Cardinality(script.lockedIds)} = script.lockedIds

\* A chip that is made for the canvas and cannot be placed there is taken back.
UnplacedIsTakenBack ==
  script.mode = "new" /\ script.save = "off" => made.chip = made.placed
=============================================================================
