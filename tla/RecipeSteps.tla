---------------------------- MODULE RecipeSteps ----------------------------
(***************************************************************************)
(* The steps of a recipe: the panel they are edited in                     *)
(* (ui/src/components/transform/CleanStepsPanel.tsx), the columns every    *)
(* step sees (transformEditorModel.ts), and the steps that are saved       *)
(* (usableSteps in TransformEditorParts.tsx).                              *)
(*                                                                         *)
(* A step is [op, columns, name, whole]: the columns it lists, or the one  *)
(* it renames; the name it makes; and whether a step that changes no       *)
(* column is filled in.  panel.editor is None or the step being edited     *)
(* with its index, 0 for a new one.                                        *)
(***************************************************************************)
EXTENDS Naturals, Sequences, SequencesExt

CONSTANTS
  Name,      \* names of columns
  Base,      \* the columns of the input
  MaxSteps,  \* bound on the length of a recipe
  None

VARIABLE panel
vars == <<panel>>

Step(op, columns, name, whole) == [op |-> op, columns |-> columns, name |-> name, whole |-> whole]
EmptyStep(op) == Step(op, <<>>, "", FALSE)

-----------------------------------------------------------------------------
(* Columns                                                                 *)

ApplyColumns(cols, step) ==
  CASE step.op = "select" /\ step.columns # <<>> -> SelectSeq(step.columns, LAMBDA c : Contains(cols, c))
    [] step.op = "drop" /\ step.columns # <<>> -> SelectSeq(cols, LAMBDA c : ~Contains(step.columns, c))
    [] step.op = "rename" /\ step.columns # <<>> ->
         [i \in DOMAIN cols |-> IF cols[i] = step.columns[1] THEN step.name ELSE cols[i]]
    [] step.op \in {"derive", "split"} /\ step.name # "" /\ ~Contains(cols, step.name) -> Append(cols, step.name)
    [] OTHER -> cols

ResolveColumnsAtStep(steps, n) == FoldLeft(ApplyColumns, Base, SubSeq(steps, 1, n))

KeptColumns(step, cols) ==
  IF step.op = "select" THEN (IF step.columns = <<>> THEN cols ELSE step.columns)
  ELSE SelectSeq(cols, LAMBDA c : ~Contains(step.columns, c))

IsColumnStepNoOp(step, cols) == cols = <<>> \/ Len(KeptColumns(step, cols)) = Len(cols)

\* What becomes of one step when the recipe is saved.  Mutant: a drop is saved with the
\* columns it removes.
SavedDropsKept(step, cols) ==
  CASE step.op = "select" \/ step.op = "drop" ->
         IF step.columns = <<>> \/ IsColumnStepNoOp(step, cols) THEN <<>>
         ELSE <<[step EXCEPT !.op = "select"]>>
    [] step.op = "rename" -> IF step.columns = <<>> THEN <<>> ELSE <<step>>
    [] step.op \in {"derive", "split"} -> IF step.name = "" \/ ~step.whole THEN <<>> ELSE <<step>>
    [] OTHER -> IF step.whole THEN <<step>> ELSE <<>>

Saved(step, cols) ==
  CASE step.op = "select" \/ step.op = "drop" ->
         IF step.columns = <<>> \/ IsColumnStepNoOp(step, cols) THEN <<>>
         ELSE <<Step("select", KeptColumns(step, cols), "", FALSE)>>
    [] step.op = "rename" -> IF step.columns = <<>> THEN <<>> ELSE <<step>>
    [] step.op \in {"derive", "split"} -> IF step.name = "" \/ ~step.whole THEN <<>> ELSE <<step>>
    [] OTHER -> IF step.whole THEN <<step>> ELSE <<>>

UsableSteps(steps) ==
  FoldLeftDomain(LAMBDA out, i : out \o Saved(steps[i], ResolveColumnsAtStep(steps, i - 1)), <<>>, steps)

-----------------------------------------------------------------------------
(* The panel                                                               *)

Ops == {"select", "rename", "derive", "split", "filter", "replace", "cast", "sort"}

\* An empty recipe, or a stored one, which may have a step that drops columns.
Init ==
  \E steps \in {<<>>} \cup {<<Step("drop", <<c>>, "", FALSE)>> : c \in Name} :
    panel = [steps |-> steps, editor |-> None]

Columns(index) == ResolveColumnsAtStep(panel.steps, IF index = 0 THEN Len(panel.steps) ELSE index - 1)

\* A new selection starts with every column there is at the end of the recipe.
PickMethod(op) ==
  /\ panel.editor = None /\ Len(panel.steps) < MaxSteps
  /\ panel' = [panel EXCEPT !.editor =
       [index |-> 0, draft |-> IF op = "select" THEN Step(op, Columns(0), "", FALSE) ELSE EmptyStep(op)]]

OpenEditor(i) ==
  /\ panel.editor = None /\ i \in DOMAIN panel.steps
  /\ panel' = [panel EXCEPT !.editor = [index |-> i, draft |-> panel.steps[i]]]

EditDraft(step) == panel' = [panel EXCEPT !.editor.draft = step]

\* The last column that is selected stays so.
Toggle(c) ==
  /\ panel.editor # None /\ panel.editor.draft.op \in {"select", "drop"}
  /\ Contains(Columns(panel.editor.index), c)
  /\ LET kept == KeptColumns(panel.editor.draft, Columns(panel.editor.index)) IN
     IF Contains(kept, c)
     THEN Len(kept) > 1 /\ EditDraft(Step("select", SelectSeq(kept, LAMBDA k : k # c), "", FALSE))
     ELSE EditDraft(Step("select", Append(kept, c), "", FALSE))

\* The buttons of the list keep the order of the columns and forget the others.
SelectVisible(all) ==
  /\ panel.editor # None /\ panel.editor.draft.op \in {"select", "drop"}
  /\ LET cols == Columns(panel.editor.index)
         selected == SelectSeq(cols, LAMBDA c : Contains(KeptColumns(panel.editor.draft, cols), c)) IN
     IF all THEN Len(selected) < Len(cols) /\ EditDraft(Step("select", cols, "", FALSE))
     ELSE Len(selected) > 1 /\ EditDraft(Step("select", <<Head(selected)>>, "", FALSE))

EditorHas(c) == Contains(Columns(panel.editor.index), c)
Filling(op) == panel.editor # None /\ panel.editor.draft.op = op /\ Columns(panel.editor.index) # <<>>

\* The new name of a column; the name it has, or none, takes the entry away.
RenameStepFields(c, name) ==
  /\ Filling("rename") /\ EditorHas(c)
  /\ EditDraft(IF name \in {c, ""} THEN EmptyStep("rename") ELSE Step("rename", <<c>>, name, FALSE))

\* The result is named like the left column until it gets a name of its own.
DeriveStepFields(c, whole) ==
  Filling("derive") /\ (EditorHas(c) \/ whole) /\ EditDraft(Step("derive", <<>>, c, whole))

SplitStepFields(c, whole) ==
  Filling("split") /\ (EditorHas(c) \/ whole) /\ EditDraft(Step("split", <<>>, c, whole))

\* Steps that change rows or values but no column: whole once they say what to do.
FilterStepFields(whole) == Filling("filter") /\ EditDraft(Step("filter", <<>>, "", whole))
ReplaceStepFields(whole) == Filling("replace") /\ EditDraft(Step("replace", <<>>, "", whole))
CastStepFields(whole) == Filling("cast") /\ EditDraft(Step("cast", <<>>, "", whole))
SortStepFields(whole) == Filling("sort") /\ EditDraft(Step("sort", <<>>, "", whole))

ApplyEditor ==
  /\ panel.editor # None
  /\ panel' = [steps |-> IF panel.editor.index = 0 THEN Append(panel.steps, panel.editor.draft)
                         ELSE [panel.steps EXCEPT ![panel.editor.index] = panel.editor.draft],
               editor |-> None]

CloseEditor == panel.editor # None /\ panel' = [panel EXCEPT !.editor = None]

MoveStep(i) ==
  /\ panel.editor = None /\ i \in DOMAIN panel.steps /\ i + 1 \in DOMAIN panel.steps
  /\ panel' = [panel EXCEPT !.steps = [@ EXCEPT ![i] = panel.steps[i + 1], ![i + 1] = panel.steps[i]]]

DeleteStep(i) ==
  /\ panel.editor = None /\ i \in DOMAIN panel.steps
  /\ panel' = [panel EXCEPT !.steps = RemoveAt(@, i)]

Next ==
  \/ \E op \in Ops : PickMethod(op)
  \/ \E i \in 1..MaxSteps : OpenEditor(i) \/ MoveStep(i) \/ DeleteStep(i)
  \/ \E c \in Name : Toggle(c) \/ \E name \in Name \cup {""} : RenameStepFields(c, name)
  \/ \E whole \in BOOLEAN :
       \/ SelectVisible(whole)
       \/ \E c \in Name : DeriveStepFields(c, whole) \/ SplitStepFields(c, whole)
       \/ FilterStepFields(whole) \/ ReplaceStepFields(whole) \/ CastStepFields(whole)
       \/ SortStepFields(whole)
  \/ ApplyEditor \/ CloseEditor

-----------------------------------------------------------------------------
(* A recipe whose steps name columns that are there, each once, is the one *)
(* the property is about: after a step was moved or deleted a selection    *)
(* may name a column no step makes any more.                               *)
Whole(steps) ==
  \A i \in DOMAIN steps :
    LET cols == ResolveColumnsAtStep(steps, i - 1) IN
    /\ cols # <<>> /\ IsInjective(cols) /\ IsInjective(steps[i].columns)
    /\ \A j \in DOMAIN steps[i].columns : Contains(cols, steps[i].columns[j])
    /\ steps[i].op = "drop" => Len(steps[i].columns) < Len(cols)
    /\ steps[i].op \in {"derive", "split"} => steps[i].whole

\* What is saved of a recipe, in which empty steps are left out and a drop has become
\* a selection, gives the columns the editor shows at its end, and no step the server
\* refuses: every selection that is saved names a column.
SavedStepsMean ==
  Whole(panel.steps) =>
    LET saved == UsableSteps(panel.steps)
        names(cols) == {cols[i] : i \in DOMAIN cols} IN
    /\ names(ResolveColumnsAtStep(saved, Len(saved)))
         = names(ResolveColumnsAtStep(panel.steps, Len(panel.steps)))
    /\ \A i \in DOMAIN saved : saved[i].op = "select" => saved[i].columns # <<>>
=============================================================================
