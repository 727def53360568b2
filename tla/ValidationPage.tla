--------------------------- MODULE ValidationPage ---------------------------
(***************************************************************************)
(* The validation editor (ui/src/pages/ValidationPage.tsx): two datasets,  *)
(* the keys by which their rows are matched, and a run of the comparison   *)
(* or a chip that keeps it.                                                *)
(*                                                                         *)
(* valid is the state of the page, its fields named as in the source:      *)
(*   mode     plain, chip (of the catalog) or canvas (of a chip on one)    *)
(*   slots    the columns the wired chips promise, per side, or None       *)
(*   fileColumns   the columns read from the files that are chosen         *)
(*   busy     the request the buttons wait for                             *)
(*   asks     requests whose answer still counts, [kind, of]               *)
(***************************************************************************)
EXTENDS Naturals, FiniteSets

CONSTANTS
  Dataset,    \* datasets
  Column,     \* names of columns
  ColumnsIn,  \* the columns of each dataset
  Listed,     \* datasets whose row in the list names their columns
  MaxClicks,  \* bound on what the user does
  None

VARIABLE valid
vars == valid

Ask(kind, of) == [kind |-> kind, of |-> of]
Answer(a) == ~valid.left /\ a \in valid.asks
Without(a) == [valid EXCEPT !.asks = @ \ {a}]

Init ==
  \E mode \in {"plain", "chip", "canvas"} :
    valid = [mode |-> mode, left |-> FALSE, datasets |-> FALSE, sourceId |-> None, targetId |-> None,
             keys |-> {}, slots |-> None, isLoad |-> FALSE, fileColumns |-> {},
             report |-> FALSE, register |-> FALSE, busy |-> "off",
             asks |-> {Ask("load", None)}, clicks |-> 0]

-----------------------------------------------------------------------------
(* The columns to choose from, and the effects that run after a render     *)

SlotColumns(q, side) == IF q.slots = None \/ q.slots[side] = None THEN {} ELSE q.slots[side]
ListedColumns(q, id) == IF q.datasets /\ id \in Listed THEN ColumnsIn[id] ELSE {}

ColumnChoices(q) ==
  LET source == SlotColumns(q, "source") \cup ListedColumns(q, q.sourceId)
      target == SlotColumns(q, "target") \cup ListedColumns(q, q.targetId)
  IN q.fileColumns \cup IF ~q.isLoad THEN source \cup target
                        ELSE IF target = {} THEN source ELSE source \cap target

\* keepKnown: while no column is known every name is kept.
KeepKnown(names, choices) == IF choices = {} THEN names ELSE names \cap choices
ChipKeys(q) == KeepKnown(q.keys, ColumnChoices(q))
Wired(q, side) == q.mode = "canvas" /\ (q.slots = None \/ q.slots[side] # None)

Ids(q) == {q.sourceId, q.targetId} \ {None}
Others(q) == {a \in q.asks : a.kind # "inspect"}
Kept(q) == [q EXCEPT !.keys = ChipKeys(q)]

\* New files are read, and what is still read of others no longer counts.
Rendered(q) ==
  IF <<q.sourceId, q.targetId>> = <<valid.sourceId, valid.targetId>> THEN Kept(q)
  ELSE IF Ids(q) = {} THEN Kept([q EXCEPT !.fileColumns = {}, !.asks = Others(q)])
  ELSE Kept([q EXCEPT !.asks = Others(q) \cup {Ask("inspect", Ids(q))}])

Do(q) ==
  /\ ~valid.left /\ valid.clicks < MaxClicks
  /\ valid' = [Rendered(q) EXCEPT !.clicks = @ + 1]

\* Each file that cannot be read counts as one without columns.
InspectAnswer(a, readable) ==
  /\ Answer(a) /\ a.kind = "inspect"
  /\ valid' = Rendered([Without(a) EXCEPT !.fileColumns = UNION {ColumnsIn[d] : d \in a.of \cap readable}])

-----------------------------------------------------------------------------
(* Loading                                                                 *)

LoadAnswer ==
  LET a == Ask("load", None) IN
  /\ Answer(a)
  /\ valid' \in {Without(a),
       Rendered([Without(a) EXCEPT !.datasets = TRUE,
                   !.asks = @ \cup IF valid.mode = "plain" THEN {} ELSE {Ask("chip", None)}])}

\* The stored configuration replaces what is on the page.
ChipAnswer(keys, source) ==
  LET a == Ask("chip", None) IN
  /\ valid.mode = "chip" /\ Answer(a)
  /\ valid' = Rendered([Without(a) EXCEPT !.keys = keys, !.sourceId = source])

\* On a canvas so does what the wires bring: a dataset, or for a load what it promises.
SlotsAnswer(keys, source, target, wired, promised) ==
  LET a == Ask("chip", None) IN
  /\ valid.mode = "canvas" /\ Answer(a)
  /\ valid' = Rendered([Without(a) EXCEPT !.keys = keys, !.sourceId = source, !.isLoad = promised # None,
                  !.targetId = IF promised = None THEN target ELSE None,
                  !.slots = [source |-> IF wired /\ source # None THEN ColumnsIn[source] ELSE None,
                             target |-> IF promised # None THEN promised
                                        ELSE IF wired /\ target # None THEN ColumnsIn[target] ELSE None]])

LoadFails(a) == Answer(a) /\ a.kind = "chip" /\ valid' = Without(a)

\* Another language starts the effect anew.
Relabel ==
  Do([valid EXCEPT !.asks = {a \in @ : a.kind \notin {"load", "chip"}} \cup {Ask("load", None)}])

-----------------------------------------------------------------------------
(* What the user does                                                      *)

Free == ~valid.report /\ ~valid.register
SetSource(d) == Free /\ valid.datasets /\ ~Wired(valid, "source") /\ Do([valid EXCEPT !.sourceId = d])
SetTarget(d) ==
  Free /\ valid.datasets /\ ~Wired(valid, "target") /\ ~valid.isLoad /\ Do([valid EXCEPT !.targetId = d])

ToggleKey(c) ==
  /\ Free /\ c \in ColumnChoices(valid)
  /\ Do([valid EXCEPT !.keys = IF c \in @ THEN @ \ {c} ELSE @ \cup {c}])

CanRegister(q) == q.mode = "plain" /\ q.sourceId # None /\ ChipKeys(q) # {} /\ q.busy = "off"
CanRun(q) == CanRegister(q) /\ q.targetId \notin {None, q.sourceId}
CanSave(q) ==
  q.mode # "plain" /\ ChipKeys(q) # {} /\ q.busy = "off" /\ (Wired(q, "source") \/ q.sourceId # None)

Request(kind) == Do([valid EXCEPT !.busy = kind, !.asks = @ \cup {Ask(kind, None)}])
Run == Free /\ CanRun(valid) /\ Request("run")
SaveChip == Free /\ CanSave(valid) /\ Request("save")
RegisterChip == valid.register /\ CanRegister(valid) /\ Request("register")

RequestAnswer(kind) ==
  LET a == Ask(kind, None)
      done == [Without(a) EXCEPT !.busy = "off"]
  IN /\ Answer(a)
     /\ valid' \in {done, CASE kind = "run" -> [done EXCEPT !.report = TRUE]
                            [] kind = "save" -> [done EXCEPT !.left = TRUE]
                            [] kind = "register" -> [done EXCEPT !.register = FALSE]}

OpenRegister == Free /\ CanRegister(valid) /\ Do([valid EXCEPT !.asks = @ \cup {Ask("names", None)}])
NamesAnswer == LET a == Ask("names", None) IN Answer(a) /\ valid' = [Without(a) EXCEPT !.register = TRUE]
CloseRegister == valid.register /\ valid' = [valid EXCEPT !.register = FALSE]
CloseReport == valid.report /\ valid' = [valid EXCEPT !.report = FALSE]
Leave == Free /\ valid.mode # "plain" /\ Do([valid EXCEPT !.left = TRUE])

Next ==
  \/ LoadAnswer \/ NamesAnswer \/ Relabel \/ Run \/ SaveChip
  \/ RegisterChip \/ OpenRegister \/ CloseRegister \/ CloseReport \/ Leave
  \/ \E a \in valid.asks : LoadFails(a) \/ \E readable \in SUBSET Dataset : InspectAnswer(a, readable)
  \/ \E keys \in SUBSET Column, source \in Dataset \cup {None} :
       \/ ChipAnswer(keys, source)
       \/ \E wired \in BOOLEAN : SlotsAnswer(keys, source, None, wired, None)
       \/ \E target \in Dataset : SlotsAnswer(keys, source, target, TRUE, None)
       \/ \E promised \in SUBSET Column : SlotsAnswer(keys, source, None, TRUE, promised)
  \/ \E d \in Dataset : SetSource(d) \/ SetTarget(d)
  \/ \E c \in Column : ToggleKey(c)
  \/ \E kind \in {"run", "save", "register"} : RequestAnswer(kind)

-----------------------------------------------------------------------------
\* Once nothing is still being read, the page offers only columns of the files
\* that are chosen now or of the chips that are wired in, so that no key is
\* registered or run that none of them has (the inspections at 165-178 answer
\* in any order, and the choice may change while they are under way).
ChoicesAreOfFiles ==
  (\A a \in valid.asks : a.kind # "inspect") =>
    ColumnChoices(valid) \subseteq
      SlotColumns(valid, "source") \cup SlotColumns(valid, "target") \cup UNION {ColumnsIn[d] : d \in Ids(valid)}
=============================================================================
