--------------------------- MODULE TransformPage ---------------------------
(***************************************************************************)
(* The recipe editor (ui/src/pages/TransformPage.tsx).  One component      *)
(* serves every route of the editor and reloads when the route changes.    *)
(*                                                                         *)
(* transform is the state of the page, its fields named as in the source:  *)
(*   mode    plain: a recipe of its own; chip: of a chip of the catalog;   *)
(*           canvas: of a chip on a canvas; new: a chip to be placed       *)
(*   spec    what the steps, combine and aggregate come from: nothing, the *)
(*           recipe that was loaded, or the user ("own")                   *)
(*   right   the right input of a join                                     *)
(*   job     the result that is exported: off, save, run, asked, waiting   *)
(*   reg     the registration of a chip: its step, its recipe, whether it  *)
(*           created that recipe, and whether the chip exists              *)
(*   asks    requests whose answer still counts, [kind, of]                *)
(* made is what the page created on the server: recipes, chips of recipes, *)
(* and the ones that were laid out on the canvas.                          *)
(***************************************************************************)
EXTENDS Naturals

CONSTANTS
  Transform,  \* recipes, stored ones and ones that may be created
  Known,      \* the stored ones
  Dataset,    \* datasets
  ColumnsOnly,\* those of which only the columns are known
  Gone,       \* those whose file is gone
  MaxClicks,  \* bound on what the user does on one page
  None

VARIABLES transform, made
vars == <<transform, made>>

Ask(kind, of) == [kind |-> kind, of |-> of]
Idle == [at |-> "off", of |-> None, created |-> FALSE, chip |-> FALSE]
Unasked(q, kind) == {a \in q.asks : a.kind # kind}

Click == ~transform.left /\ transform.clicks < MaxClicks
Editing == transform.mode \in {"chip", "canvas"}

-----------------------------------------------------------------------------
(* The effects that run after a render.  again: the language has changed,  *)
(* on which every one of them depends.                                     *)

Status(q) == IF q.datasetId = None \/ ~q.catalog THEN "unknown"
             ELSE IF q.datasetId \in ColumnsOnly THEN "connected"
             ELSE IF q.datasetId \in Gone THEN "gone" ELSE "ready"

SourceChanged(q) == q.datasetId # transform.datasetId \/ Status(q) # Status(transform)

LoadRecipe(q, again) ==
  IF q.id = transform.id /\ ~again THEN q
  ELSE LET canvasDraft == q.id = None /\ q.mode = "canvas" IN
       [q EXCEPT !.transformId = None, !.spec = None, !.right = None, !.rightPreview = None,
                 !.resultPreview = FALSE,
                 !.datasetId = IF canvasDraft THEN @ ELSE None,
                 !.asks = Unasked(q, "get") \cup (IF q.id = None THEN {} ELSE {Ask("get", q.id)})]

LoadSlot(q, again) ==
  IF q.mode = "canvas" /\ again
  THEN [q EXCEPT !.asks = Unasked(q, "slot") \cup {Ask("slot", None)}] ELSE q

\* Only the rows of a dataset that is there are asked for; what is shown stays until
\* the answer.
LoadSource(q, again) ==
  IF ~SourceChanged(q) /\ ~again THEN q
  ELSE LET show(d, missing) == [q EXCEPT !.sourcePreview = d, !.missing = missing,
                                         !.asks = Unasked(q, "inspect")] IN
       CASE q.datasetId = None -> show(None, FALSE)
         [] Status(q) = "connected" -> show(q.datasetId, FALSE)
         [] Status(q) = "gone" -> show(None, TRUE)
         [] OTHER -> [q EXCEPT !.missing = FALSE,
                               !.asks = Unasked(q, "inspect") \cup {Ask("inspect", q.datasetId)}]

LoadRight(q, again) ==
  IF q.right = transform.right /\ ~again THEN q
  ELSE IF q.right = None THEN [q EXCEPT !.rightPreview = None, !.asks = Unasked(q, "right")]
  ELSE [q EXCEPT !.asks = Unasked(q, "right") \cup {Ask("right", q.right)}]

LoadDetail(q, again) ==
  IF /\ ~again /\ ~SourceChanged(q) /\ q.spec = transform.spec /\ q.right = transform.right
     /\ q.detailOpen = transform.detailOpen /\ q.final = transform.final
  THEN q
  ELSE IF ~q.detailOpen \/ q.datasetId = None THEN [q EXCEPT !.asks = Unasked(q, "detail")]
  ELSE IF Status(q) = "connected"
  THEN [q EXCEPT !.sourcePreview = q.datasetId, !.resultPreview = TRUE, !.loading = FALSE,
                 !.asks = Unasked(q, "detail")]
  ELSE [q EXCEPT !.loading = TRUE, !.asks = Unasked(q, "detail") \cup {Ask("detail", q.datasetId)}]

Rendered(q, again) ==
  LET recipe == LoadRecipe(LoadSlot(q, again), again)
      source == LoadSource(recipe, again) IN
  LoadDetail(LoadRight(source, again), again)

Show(q) == transform' = Rendered(q, FALSE) /\ UNCHANGED made
Do(q) == Click /\ Show([q EXCEPT !.clicks = @ + 1])
Answer(a) == ~transform.left /\ a \in transform.asks
Without(a) == [transform EXCEPT !.asks = @ \ {a}]

Init ==
  /\ \E mode \in {"plain", "chip", "canvas", "new"}, id \in Known \cup {None} :
       /\ mode \in {"chip", "canvas"} \/ id = None
       /\ transform =
            [mode |-> mode, id |-> id, left |-> FALSE, catalog |-> FALSE, datasetId |-> None,
             transformId |-> None, spec |-> None, right |-> None, rightPreview |-> None,
             sourcePreview |-> None, missing |-> FALSE, resultPreview |-> FALSE,
             detailOpen |-> FALSE, final |-> FALSE, loading |-> FALSE, busy |-> FALSE,
             registerOpen |-> FALSE, registerBusy |-> FALSE, pickOpen |-> FALSE, job |-> "off",
             reg |-> Idle, lost |-> FALSE, clicks |-> 0,
             asks |-> {Ask("catalog", None)}
                      \cup (IF mode = "canvas" THEN {Ask("slot", None)} ELSE {})
                      \cup (IF id # None THEN {Ask("get", id)} ELSE {})]
  /\ made = [recipes |-> {}, chips |-> {}, laid |-> {}]

-----------------------------------------------------------------------------
(* Answers                                                                 *)

\* The dataset a new chip of a canvas was started with is chosen when the list is there.
CatalogAnswer(a) ==
  /\ Answer(a) /\ a.kind = "catalog"
  /\ \/ \E d \in Dataset \cup {None} :
          /\ transform.mode = "new" \/ d = None
          /\ Show([Without(a) EXCEPT !.catalog = TRUE,
                                     !.datasetId = IF d = None THEN @ ELSE d])
     \/ Show(Without(a))

SlotAnswer(a) ==
  /\ Answer(a) /\ a.kind = "slot"
  /\ \E d \in Dataset \cup {None} :
       Show([Without(a) EXCEPT !.datasetId = IF d = None THEN @ ELSE d])

GetAnswer(a) ==
  /\ Answer(a) /\ a.kind = "get"
  /\ \/ \E d \in Dataset, r \in Dataset \cup {None} :
          Show([Without(a) EXCEPT !.transformId = a.of, !.spec = a.of, !.right = r,
                                  !.datasetId = IF transform.mode = "canvas" THEN @ ELSE d])
     \/ Show(Without(a))

InspectAnswer(a) ==
  /\ Answer(a) /\ a.kind = "inspect"
  /\ \/ Show([Without(a) EXCEPT !.sourcePreview = a.of])
     \/ \E missing \in BOOLEAN :
          Show([Without(a) EXCEPT !.sourcePreview = None, !.missing = @ \/ missing])

RightAnswer(a) ==
  /\ Answer(a) /\ a.kind = "right"
  /\ \E shown \in {a.of, None} : Show([Without(a) EXCEPT !.rightPreview = shown])

\* The two requests of the dialog are settled together, each may fail.
DetailAnswer(a) ==
  /\ Answer(a) /\ a.kind = "detail"
  /\ \E inspected, previewed \in BOOLEAN :
       Show([Without(a) EXCEPT !.sourcePreview = IF inspected THEN a.of ELSE @,
                               !.resultPreview = previewed, !.loading = FALSE])

-----------------------------------------------------------------------------
(* The user edits the recipe                                               *)

Modal == transform.detailOpen \/ transform.registerOpen \/ transform.pickOpen

Relabel == Click /\ transform' = Rendered([transform EXCEPT !.clicks = @ + 1], TRUE) /\ UNCHANGED made

\* A link, or the history of the browser, to another recipe
Route(t) == transform.mode = "plain" /\ t # transform.id /\ Do([transform EXCEPT !.id = t])

PickDataset(d) ==
  /\ transform.mode # "canvas" /\ transform.catalog /\ ~Modal
  /\ Do([transform EXCEPT !.datasetId = IF @ = d THEN None ELSE d])

EditSteps == transform.datasetId # None /\ ~Modal /\ Do([transform EXCEPT !.spec = "own"])

PickRight(d) ==
  /\ transform.datasetId # None /\ transform.catalog /\ d # transform.datasetId /\ d \notin Gone
  /\ ~Modal /\ Do([transform EXCEPT !.right = d, !.spec = "own"])

\* The path of the editor names the recipe of the page, also when it was created
\* without the route being told: then the route changes and the recipe is loaded.
EditorPath(q) == [q EXCEPT !.id = q.transformId]

ResetRecipe(q) ==
  EditorPath([q EXCEPT !.spec = None, !.right = None, !.rightPreview = None, !.resultPreview = FALSE])

ChangeSection(reset) ==
  /\ ~Modal /\ ~transform.busy /\ (reset \/ transform.datasetId # None)
  /\ Do(IF reset THEN ResetRecipe(transform) ELSE EditorPath(transform))

OpenDetail(final) ==
  /\ transform.datasetId # None /\ ~transform.busy /\ ~Modal
  /\ Do([transform EXCEPT !.detailOpen = TRUE, !.final = final])

CloseDetail ==
  /\ transform.detailOpen /\ ~transform.registerOpen /\ ~transform.pickOpen
  /\ Do([transform EXCEPT !.detailOpen = FALSE, !.final = FALSE])

\* The button of the editor, which waits for a save, or the history of the browser
Leave == Do([transform EXCEPT !.left = TRUE])

-----------------------------------------------------------------------------
(* The result is exported, or saved into the chip that is edited: both     *)
(* save the recipe first, creating it when the page has none.              *)

Unused == Transform \ (Known \cup made.recipes)

ExportResult ==
  /\ transform.final /\ ~Editing /\ transform.mode # "new" /\ Status(transform) # "connected"
  /\ ~transform.busy /\ ~transform.registerOpen /\ ~transform.pickOpen
  /\ Do([transform EXCEPT !.pickOpen = TRUE])

\* useWorkspacePick; saveTransformDefinition returns at once without a dataset.
PickFolder(picked) ==
  /\ transform.pickOpen
  /\ IF picked /\ transform.datasetId # None
     THEN Do([transform EXCEPT !.pickOpen = FALSE, !.busy = TRUE, !.job = "save"])
     ELSE Do([transform EXCEPT !.pickOpen = FALSE])

ApplyToChip ==
  /\ Editing /\ transform.registerOpen /\ ~transform.registerBusy /\ transform.datasetId # None
  /\ Do([transform EXCEPT !.busy = TRUE, !.registerBusy = TRUE, !.job = "save"])

SaveAnswer(t) ==
  /\ transform.job = "save"
  /\ IF transform.transformId = None THEN t \in Unused ELSE t = transform.transformId
  /\ made' = [made EXCEPT !.recipes = @ \cup ({t} \ Known)]
  /\ transform' = Rendered([transform EXCEPT !.transformId = t, !.left = @ \/ Editing,
                                             !.job = IF Editing THEN "off" ELSE "run"], FALSE)

SaveFails ==
  /\ transform.job = "save"
  /\ Show([transform EXCEPT !.job = "off", !.busy = FALSE,
                            !.registerBusy = IF Editing THEN FALSE ELSE @])

\* The run is asked for, then polled every second until it has ended.
RunAnswer ==
  /\ transform.job \in {"run", "asked"}
  /\ \/ Show([transform EXCEPT !.job = IF @ = "run" THEN "asked" ELSE "waiting"])
     \/ Show([transform EXCEPT !.job = "off", !.busy = FALSE])

RunTimer == transform.job = "waiting" /\ Show([transform EXCEPT !.job = "asked"])

-----------------------------------------------------------------------------
(* Registering a chip: the recipe, the chip, and in new mode its place on  *)
(* the canvas.  The chain goes on when its dialog is closed or the page is *)
(* left.  Mutant: the recipe of a failed registration stays.               *)

OpenRegister ==
  /\ transform.final /\ ~transform.busy /\ ~transform.pickOpen /\ ~transform.registerOpen
  /\ IF Editing \/ transform.mode = "new"
     THEN Do([transform EXCEPT !.registerOpen = TRUE])
     ELSE Do([transform EXCEPT !.asks = @ \cup {Ask("names", None)}])

NamesAnswer(a) ==
  /\ Answer(a) /\ a.kind = "names" /\ Show([Without(a) EXCEPT !.registerOpen = TRUE])

CloseRegister == transform.registerOpen /\ Do([transform EXCEPT !.registerOpen = FALSE])

RegisterChip ==
  /\ ~Editing /\ transform.registerOpen /\ ~transform.registerBusy /\ transform.datasetId # None
  /\ Do([transform EXCEPT !.registerBusy = TRUE,
           !.reg = [Idle EXCEPT !.at = "recipe", !.of = transform.transformId]])

RegRecipe(t) ==
  /\ transform.reg.at = "recipe"
  /\ IF transform.reg.of = None THEN t \in Unused ELSE t = transform.reg.of
  /\ made' = [made EXCEPT !.recipes = @ \cup ({t} \ Known)]
  /\ LET created == transform.reg.of = None
         told == created /\ transform.mode # "new" IN
     transform' = Rendered([transform EXCEPT !.transformId = IF told THEN t ELSE @,
                              !.id = IF told THEN t ELSE @,
                              !.reg = [at |-> "chip", of |-> t, created |-> created, chip |-> FALSE]],
                           FALSE)

RegChip ==
  /\ transform.reg.at = "chip"
  /\ made' = [made EXCEPT !.chips = @ \cup {transform.reg.of}]
  /\ IF transform.mode = "new"
     THEN transform' = [transform EXCEPT !.reg.at = "lay", !.reg.chip = TRUE]
     ELSE transform' = [transform EXCEPT !.reg = Idle, !.registerBusy = FALSE, !.registerOpen = FALSE]

RegLay ==
  /\ transform.reg.at = "lay"
  /\ made' = [made EXCEPT !.laid = @ \cup {transform.reg.of}]
  /\ transform' = [transform EXCEPT !.reg = Idle, !.registerBusy = FALSE, !.registerOpen = FALSE,
                                    !.left = TRUE]

\* Mutant: see above.
RegFailsKeeps(unseen) ==
  /\ transform.reg.at \in {"recipe", "chip", "lay"} /\ ~unseen
  /\ transform' = [transform EXCEPT !.reg = Idle, !.registerBusy = FALSE]
  /\ UNCHANGED made

\* Only the chip of a canvas is taken back.  unseen: the server did what was asked and
\* its answer was lost.
RegFails(unseen) ==
  /\ transform.reg.at \in {"recipe", "chip", "lay"}
  /\ unseen => transform.reg.at # "lay" /\ (transform.reg.at = "recipe" => transform.reg.of = None /\ Unused # {})
  /\ LET r == transform.reg
         back == transform.mode = "new" /\ (r.chip \/ r.created) IN
     transform' = [transform EXCEPT !.lost = @ \/ unseen,
                     !.registerBusy = @ /\ back, !.reg = IF back THEN [r EXCEPT !.at = "back"] ELSE Idle]
  /\ IF unseen /\ transform.reg.at = "chip"
     THEN made' = [made EXCEPT !.chips = @ \cup {transform.reg.of}]
     ELSE IF unseen
     THEN \E t \in Unused : made' = [made EXCEPT !.recipes = @ \cup {t}]
     ELSE UNCHANGED made

\* First the chip is removed, then the recipe; an error of either is ignored.
RegBack(removed) ==
  /\ transform.reg.at = "back"
  /\ LET r == transform.reg IN
     /\ transform' = [transform EXCEPT
          !.lost = @ \/ ~removed,
          !.reg = IF r.chip THEN [r EXCEPT !.chip = FALSE] ELSE Idle,
          !.registerBusy = @ /\ r.chip]
     /\ made' = IF ~removed THEN made
                ELSE IF r.chip THEN [made EXCEPT !.chips = @ \ {r.of}]
                ELSE [made EXCEPT !.recipes = @ \ {r.of}]

Next ==
  \/ \E a \in transform.asks :
       \/ CatalogAnswer(a) \/ SlotAnswer(a) \/ GetAnswer(a) \/ InspectAnswer(a) \/ RightAnswer(a)
       \/ DetailAnswer(a) \/ NamesAnswer(a)
  \/ \E t \in Transform : Route(t) \/ SaveAnswer(t) \/ RegRecipe(t)
  \/ \E d \in Dataset : PickDataset(d) \/ PickRight(d)
  \/ \E b \in BOOLEAN : ChangeSection(b) \/ OpenDetail(b) \/ PickFolder(b) \/ RegFails(b) \/ RegBack(b)
  \/ Relabel \/ EditSteps \/ CloseDetail \/ Leave \/ ExportResult \/ ApplyToChip \/ SaveFails
  \/ RunAnswer \/ RunTimer \/ OpenRegister \/ CloseRegister \/ RegisterChip \/ RegChip \/ RegLay

-----------------------------------------------------------------------------
\* Whatever order the answers come in, a route shows no recipe but its own
\* (TransformPage.tsx:375), the rows beside it are those of its inputs or about to be
\* replaced, and a dialog that says it is loading has a request under way.
RouteShowsItsRecipe ==
  ~transform.left =>
    /\ transform.spec \in Transform => transform.spec = transform.id
    /\ transform.sourcePreview \in {None, transform.datasetId}
         \/ Ask("inspect", transform.datasetId) \in transform.asks
    /\ transform.rightPreview \in {None, transform.right}
         \/ Ask("right", transform.right) \in transform.asks
    /\ transform.loading /\ transform.detailOpen /\ transform.datasetId # None
         => Ask("detail", transform.datasetId) \in transform.asks

\* A registration that fails on the way to the canvas leaves neither a chip nor a
\* recipe behind, at whichever step it failed and although the page was left, as long
\* as the requests that take it back are answered.
FailedRegistrationLeavesNothing ==
  transform.mode = "new" /\ transform.reg = Idle /\ ~transform.lost
    => made.recipes = made.chips /\ made.chips = made.laid
=============================================================================
