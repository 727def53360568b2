---------------------------- MODULE CanvasGraph ----------------------------
(***************************************************************************)
(* The wires of a canvas: what the editor lets the user draw               *)
(* (ui/src/features/workspace/workspaceCanvasModel.ts and the handlers of  *)
(* WorkspacePage.tsx), the chips the placing dialog makes with their       *)
(* inputs (ChipPlaceDialog.tsx), what the server accepts                   *)
(* (crates/storage/src/lib.rs), and the order a full run takes             *)
(* (crates/server/src/chip.rs).                                            *)
(*                                                                         *)
(* canvas is the kinds of the chips there are, the chips that are placed,  *)
(* and their edges, [from, to, kind, port]; only control edges are drawn,  *)
(* the data edges behind them are not.                                     *)
(***************************************************************************)
EXTENDS Naturals, Sequences, FiniteSets, SequencesExt

CONSTANTS
  Chip,       \* chips, of the catalog or drafts
  Kinds,      \* the functions [Chip -> kind] to start from
  MaxInputs,  \* inputs of a script chip (8 in the code)
  MaxWires    \* bound on the edges of a canvas

VARIABLE canvas
vars == <<canvas>>
Kind == canvas.kind

Control == {"on_success", "on_error", "always"}
Edge(f, t, kind, port) == [from |-> f, to |-> t, kind |-> kind, port |-> port]
Data(E) == {e \in E : e.kind = "data"}
Flow(E) == {e \in E : e.kind # "on_error"}
Pair(E, f, t) == {e \in E : e.from = f /\ e.to = t}
DataInto(E, c) == {e \in Data(E) : e.to = c}

\* The chips one or more edges of E away from c
Reach(E, c) ==
  LET next(S) == {e.to : e \in {d \in E : d.from \in S}}
      within[n \in 0..Cardinality(Chip)] ==
        IF n = 0 THEN next({c}) ELSE LET near == within[n - 1] IN near \cup next(near)
  IN within[Cardinality(Chip)]

GraphHasCycle(E) == \E c \in Chip : c \in Reach(E, c)
IndirectPath(E, f, t) == \E e \in Flow(E) : e.from = f /\ e.to \notin {f, t} /\ t \in Reach(Flow(E), e.to)
DataDependsOn(E, c, ancestor) == c \in Reach(Data(E), ancestor)

-----------------------------------------------------------------------------
(* The editor's rules                                                      *)

Producer == {"extract", "transform", "script"}

CanHaveDataEdge(f, t) ==
  /\ "memo" \notin {f, t}
  /\ IF t = "validation" THEN f \in Producer \cup {"load"}
     ELSE f \in Producer /\ t \in {"transform", "load", "serve", "script"}

CanHaveControlEdge(f, t) ==
  /\ "memo" \notin {f, t}
  /\ CASE f = "load" -> t \in {"load", "validation", "sql", "extract"}
       [] f \in {"validation", "serve"} -> t = "sql"
       [] t = "extract" -> f \in {"extract", "sql"}
       [] OTHER -> TRUE

WouldBeShortcut(E, f, t, kind, toKind) ==
  /\ kind # "on_error" /\ IndirectPath(E, f, t)
  /\ ~(kind = "data" /\ toKind = "validation")
  /\ kind # "data" => DataInto(E, t) \cap Pair(E, f, t) = {}

SameSlot(E, f, t, kind) ==
  {e \in Pair(E, f, t) : e.kind = kind \/ (kind \in Control /\ e.kind \in Control)}

InputsFull(E, f, t) ==
  LET into == DataInto(E, t) IN
  CASE Kind[t] = "validation" -> Cardinality(into) >= 2
    [] Kind[t] = "script" -> Cardinality(into) >= MaxInputs
    [] OTHER -> into # {}

\* Mutant: an on_error edge into a chip that uses the data is not looked for.
EdgeOkNoErrorCheck(f, t, kind, E) ==
  /\ f # t
  /\ IF kind = "data" THEN CanHaveDataEdge(Kind[f], Kind[t]) ELSE CanHaveControlEdge(Kind[f], Kind[t])
  /\ SameSlot(E, f, t, kind) = {}
  /\ ~GraphHasCycle(E) /\ f \notin Reach(E, t)
  /\ ~WouldBeShortcut(E, f, t, kind, Kind[t])
  /\ kind = "data" => ~InputsFull(E, f, t)

\* No edgeConnectIssue
EdgeOk(f, t, kind, E) ==
  /\ f # t
  /\ IF kind = "data" THEN CanHaveDataEdge(Kind[f], Kind[t]) ELSE CanHaveControlEdge(Kind[f], Kind[t])
  /\ SameSlot(E, f, t, kind) = {}
  /\ ~GraphHasCycle(E) /\ f \notin Reach(E, t)
  /\ kind = "on_error" => ~DataDependsOn(E, t, f)
  /\ ~WouldBeShortcut(E, f, t, kind, Kind[t])
  /\ kind = "data" => ~InputsFull(E, f, t)

\* No canvasEdgesIssue: the check of a save and of new inputs
CanvasOk(E) ==
  /\ ~GraphHasCycle(E)
  /\ \A e \in E : EdgeOk(e.from, e.to, e.kind, E \ {e})

\* A data edge whose pair has no control edge gets one to be seen by.
WithCompanions(E) ==
  E \cup {Edge(d.from, d.to, "on_success", "side") :
          d \in {x \in Data(E) : \A e \in Pair(E, x.from, x.to) : e.kind \notin Control}}

StripShortcuts(E) ==
  {e \in E : e.kind \in {"on_success", "always"} => ~WouldBeShortcut(E \ {e}, e.from, e.to, e.kind, "sql")}

\* New inputs of chip c, a set of [from, port], from Nobody when the choice is cleared:
\* the data edges they replace go, with the on_success edges of their pairs.
Nobody == ""
AttachHiddenData(E, c, inputs) ==
  LET ported == {i \in inputs : i.port # "side"}
      dropped == {e \in DataInto(E, c) : inputs # ported \/ \E i \in ported : i.port = e.port}
      companions == {e \in E : e.kind = "on_success" /\ \E d \in dropped : d.from = e.from /\ d.to = e.to}
      added == {Edge(i.from, c, "data", i.port) : i \in {j \in inputs : j.from # Nobody}} IN
  WithCompanions(StripShortcuts((E \ (dropped \cup companions)) \cup added))

-----------------------------------------------------------------------------
(* The server's rules, and the order of a full run                         *)

ValidEdgeKind(e) ==
  IF e.kind = "data"
  THEN IF Kind[e.from] = "load" THEN Kind[e.to] = "validation" /\ e.port # "source"
       ELSE Kind[e.from] \in Producer
            /\ Kind[e.to] \in {"transform", "load", "validation", "serve", "script"}
  ELSE CanHaveControlEdge(Kind[e.from], Kind[e.to])

ValidEdgeGraph(E) ==
  /\ \A c \in Chip :
       LET into == DataInto(E, c) IN
       CASE Kind[c] = "validation" -> Cardinality(into) <= 2
                                      /\ \A d, e \in into : d.from = e.from => d = e
         [] Kind[c] = "script" -> Cardinality(into) <= MaxInputs
         [] OTHER -> Cardinality(into) <= 1
  /\ \A e \in E :
       IF e.kind = "on_error" THEN ~DataDependsOn(E, e.to, e.from)
       ELSE IndirectPath(E \ {e}, e.from, e.to)
              => \/ e.kind = "data" /\ Kind[e.to] = "validation"
                 \/ e.kind # "data" /\ Data(Pair(E, e.from, e.to)) # {}

ReplaceWorkspaceEdges(chips, E) ==
  /\ \A e \in E : e.from # e.to /\ {e.from, e.to} \subseteq chips /\ ValidEdgeKind(e)
  /\ \A d, e \in Data(E) : d.to = e.to /\ d.port = e.port /\ Kind[d.to] = "validation" => d = e
  /\ \A d, e \in E : d.from = e.from /\ d.to = e.to /\ (d.kind = "data") = (e.kind = "data") => d = e
  /\ ~GraphHasCycle(E) /\ ValidEdgeGraph(E)

\* Chips become ready when every chip before them has been taken.  A cycle leaves the
\* order short, and the run is refused.
RunOrder(chips, E) ==
  LET before(c) == {e.from : e \in {d \in E : d.to = c /\ d.from \in chips}}
      all == SetToSeq(chips)
      done(s) == {s[i] : i \in DOMAIN s}
      step[n \in 0..Len(all)] ==
        IF n = 0 THEN [order |-> <<>>, ready |-> SelectSeq(all, LAMBDA c : before(c) = {})]
        ELSE LET p == step[n - 1] IN
             IF p.ready = <<>> THEN p
             ELSE LET order == Append(p.order, Head(p.ready))
                      freed(c) == /\ Head(p.ready) \in before(c) /\ before(c) \subseteq done(order) IN
                  [order |-> order, ready |-> Tail(p.ready) \o SelectSeq(all, freed)]
  IN step[Len(all)].order

WorkspaceRunOrder(chips, E) == RunOrder({c \in chips : Kind[c] # "memo"}, E)
ChipRunOrder(chips, E) == RunOrder(chips, Flow(E))

-----------------------------------------------------------------------------
(* Drawing, placing, and the properties of a chip                          *)

Init ==
  \E kind \in Kinds, chips \in SUBSET Chip : canvas = [kind |-> kind, chips |-> chips, edges |-> {}]

Draw(E) == Cardinality(E) <= MaxWires /\ canvas' = [canvas EXCEPT !.edges = E]

\* A wire of another kind between the same chips is replaced once the user has agreed;
\* the tools draw control edges only.
ConnectChips(f, t, kind) ==
  /\ {f, t} \subseteq canvas.chips
  /\ LET rest == canvas.edges \ SameSlot(canvas.edges, f, t, kind) IN
     /\ \A e \in SameSlot(canvas.edges, f, t, kind) : e.kind # kind
     /\ EdgeOk(f, t, kind, rest)
     /\ Draw(WithCompanions(rest \cup {Edge(f, t, kind, "side")}))

\* Only visible wires can be pointed at.
DropEdge(e) == e \in canvas.edges \ Data(canvas.edges) /\ Draw(canvas.edges \ {e})

DropChip(c) ==
  /\ c \in canvas.chips
  /\ canvas' = [canvas EXCEPT !.chips = @ \ {c},
                              !.edges = {e \in @ : c \notin {e.from, e.to}}]

\* The inputs the panels offer: one producer, up to MaxInputs for a script, and a
\* source and another target for a validation, which may also be a load.
OfKinds(c, kinds) == {d \in canvas.chips \ {c} : Kind[d] \in kinds}
OneProducer(c) == {{[from |-> d, port |-> "side"]} : d \in OfKinds(c, Producer)}

ScriptInputs(c) ==
  {{[from |-> d, port |-> "side"] : d \in S} :
   S \in {T \in SUBSET OfKinds(c, Producer) : Cardinality(T) \in 1..MaxInputs}}

SourceAndTarget(c) ==
  {{[from |-> p[1], port |-> "source"], [from |-> p[2], port |-> "target"]} :
   p \in {q \in OfKinds(c, Producer) \X OfKinds(c, Producer \cup {"load"}) : q[1] # q[2]}}

InputChoices(c) ==
  CASE Kind[c] \in {"transform", "load", "serve"} -> OneProducer(c)
    [] Kind[c] = "script" -> ScriptInputs(c)
    [] Kind[c] = "validation" -> SourceAndTarget(c)
    [] OTHER -> {}

\* A chip whose inputs make the canvas wrong is placed without them.
PlaceChip(c, inputs) ==
  /\ c \notin canvas.chips
  /\ LET E == AttachHiddenData(canvas.edges, c, inputs) IN
     /\ Cardinality(E) <= MaxWires
     /\ canvas' = [canvas EXCEPT !.chips = @ \cup {c}, !.edges = IF CanvasOk(E) THEN E ELSE @]

\* In the properties a choice can be cleared, for a validation each of the two.
Cleared(c) ==
  CASE Kind[c] \in {"transform", "load", "serve", "script"} -> {{[from |-> Nobody, port |-> "side"]}}
    [] Kind[c] = "validation" ->
         {{[from |-> p[1], port |-> "source"], [from |-> p[2], port |-> "target"]} :
          p \in {Nobody} \X (OfKinds(c, Producer \cup {"load"}) \cup {Nobody})
               \cup OfKinds(c, Producer) \X {Nobody}}
    [] OTHER -> {}

Given(c) == {[from |-> d.from, port |-> d.port] : d \in DataInto(canvas.edges, c)}

PlaceNewTransform(c, inputs) == Kind[c] = "transform" /\ PlaceChip(c, inputs)
PlaceNewScript(c, inputs) == Kind[c] = "script" /\ PlaceChip(c, inputs)
PlaceNewLoad(c, inputs) == Kind[c] = "load" /\ PlaceChip(c, inputs)
PlaceNewValidation(c, inputs) == Kind[c] = "validation" /\ PlaceChip(c, inputs)
PlaceNewServe(c, inputs) == Kind[c] = "serve" /\ PlaceChip(c, inputs)

PlaceNewMemo(c) == Kind[c] = "memo" /\ c \notin canvas.chips /\ canvas' = [canvas EXCEPT !.chips = @ \cup {c}]

PlaceCatalogChips(S) ==
  /\ S # {} /\ S \cap canvas.chips = {} /\ \A c \in S : Kind[c] # "memo"
  /\ canvas' = [canvas EXCEPT !.chips = @ \cup S]

\* Mutant: the inputs of the properties are taken as they are.
SaveChipPropertiesUnchecked(c, inputs) ==
  /\ c \in canvas.chips /\ {i \in inputs : i.from # Nobody} # Given(c)
  /\ Draw(AttachHiddenData(canvas.edges, c, inputs))

SaveChipProperties(c, inputs) ==
  /\ c \in canvas.chips /\ {i \in inputs : i.from # Nobody} # Given(c)
  /\ LET E == AttachHiddenData(canvas.edges, c, inputs) IN CanvasOk(E) /\ Draw(E)

Next ==
  \/ \E f, t \in Chip, kind \in Control : ConnectChips(f, t, kind)
  \/ \E e \in canvas.edges : DropEdge(e)
  \/ \E c \in Chip :
       \/ DropChip(c) \/ PlaceNewMemo(c)
       \/ \E inputs \in InputChoices(c) :
            \/ PlaceNewTransform(c, inputs) \/ PlaceNewScript(c, inputs) \/ PlaceNewLoad(c, inputs)
            \/ PlaceNewValidation(c, inputs) \/ PlaceNewServe(c, inputs)
       \/ \E inputs \in InputChoices(c) \cup Cleared(c) : SaveChipProperties(c, inputs)
  \/ \E S \in SUBSET Chip : PlaceCatalogChips(S)

-----------------------------------------------------------------------------
\* Whatever is drawn, placed, rewired and deleted, the canvas never has a cycle, a
\* wire to a chip that is gone, or a chip with more inputs than its kind takes: only
\* the shortcut rule is left for the save to find.
CanvasStaysRunnable ==
  /\ ~GraphHasCycle(canvas.edges)
  /\ \A e \in canvas.edges : {e.from, e.to} \subseteq canvas.chips
  /\ \A c \in Chip : Cardinality(DataInto(canvas.edges, c)) <=
       (CASE Kind[c] = "validation" -> 2 [] Kind[c] = "script" -> MaxInputs [] OTHER -> 1)

\* The rules of the editor and of the server, written twice, agree: a canvas the save
\* finds nothing wrong with is accepted, and a full run of it takes every chip once
\* and after all the chips it waits for.
SavedCanvasIsAccepted ==
  CanvasOk(canvas.edges) =>
    /\ ReplaceWorkspaceEdges(canvas.chips, canvas.edges)
    /\ LET order == WorkspaceRunOrder(canvas.chips, canvas.edges)
           at(c) == CHOOSE i \in DOMAIN order : order[i] = c IN
       /\ ToSet(order) = {c \in canvas.chips : Kind[c] # "memo"}
       /\ Len(order) = Cardinality(ToSet(order))
       /\ \A e \in canvas.edges : at(e.from) < at(e.to)
       /\ Len(ChipRunOrder(canvas.chips, canvas.edges)) = Cardinality(canvas.chips)
=============================================================================
