----------------------------- MODULE QueryPage -----------------------------
(***************************************************************************)
(* The query editor (ui/src/pages/QueryPage.tsx): SQL per connection, runs *)
(* with a preview, an extract that is watched until it ends, and the chip  *)
(* that is registered or, in chip mode, changed.                           *)
(*                                                                         *)
(* query is the state of the page, its fields named as in the source:      *)
(*   returns  saving leads back to where the editor was opened from        *)
(*   asks     requests whose answer still counts, [kind, of, n]            *)
(*   watch    the poll of the extract: off, asked or waiting for its timer *)
(*   memory   sqlByConnection                                              *)
(*   told     how often the end of each extract was announced (history)    *)
(* A request whose effect was cleaned up counts no more and is left out.   *)
(* extractStatus is the state of the extracts on the server.               *)
(***************************************************************************)
EXTENDS Naturals, FiniteSets

CONSTANTS
  Conn,       \* connections
  Table,      \* tables of the catalog
  Extract,    \* extracts the server may create
  MaxClicks,  \* bound on what the user does on one page
  None

VARIABLES query, extractStatus
vars == <<query, extractStatus>>

Sql == {"", "typed", "chip"}
Kinds == {"rows", "exec"}
Ask(kind, of, n) == [kind |-> kind, of |-> of, n |-> n]
Active(status) == status \in {"queued", "running"}

Init ==
  /\ \E chip, returns \in BOOLEAN :
       query = [chip |-> chip, returns |-> chip \/ returns, left |-> FALSE, browseId |-> None, sql |-> "",
                memory |-> [c \in Conn |-> ""], selected |-> None, columns |-> {}, picked |-> {},
                running |-> FALSE, runSeq |-> 0, result |-> None, resultOpen |-> FALSE,
                registerOpen |-> FALSE, registerBusy |-> FALSE, pickOpen |-> FALSE,
                extracting |-> FALSE, extract |-> None, status |-> "none", watch |-> "off",
                toasted |-> None, told |-> [e \in Extract |-> 0],
                asks |-> IF chip THEN {Ask("chip", None, 0)} ELSE {}, clicks |-> 0]
  /\ extractStatus = [e \in Extract |-> "none"]

Click == ~query.left /\ query.clicks < MaxClicks
Do(q) == Click /\ query' = [q EXCEPT !.clicks = @ + 1] /\ UNCHANGED extractStatus
Answer(a) == ~query.left /\ a \in query.asks /\ UNCHANGED extractStatus
Without(a) == [query EXCEPT !.asks = @ \ {a}]

-----------------------------------------------------------------------------
(* Connections, tables and text                                            *)

Kept == IF query.browseId = None THEN query.memory
        ELSE [query.memory EXCEPT ![query.browseId] = query.sql]

OnPickConnection(c) ==
  /\ ~query.resultOpen
  /\ LET to == IF query.browseId = c THEN None ELSE c IN
     Do([query EXCEPT !.memory = Kept, !.browseId = to, !.selected = None, !.columns = {},
                      !.picked = {}, !.result = None, !.sql = IF to = None THEN "" ELSE Kept[c]])

\* refreshColumns asks for the columns of every table that is chosen and drops none
\* of the answers.
OnPickTable(t) ==
  /\ query.browseId # None /\ ~query.resultOpen /\ t # query.selected
  /\ Do([query EXCEPT !.selected = t, !.picked = {}, !.asks = @ \cup {Ask("columns", t, 0)}])

ColumnsAnswer(a) ==
  /\ Answer(a) /\ a.kind = "columns"
  /\ query' = [Without(a) EXCEPT !.columns = {a.of},
                                 !.picked = IF a.n = 0 THEN @ ELSE {k \in {a.of} : a.n = 2}]

ColumnsFail(a) ==
  /\ Answer(a) /\ a.kind = "columns" /\ query' = [Without(a) EXCEPT !.columns = {}]

ToggleColumn(k) ==
  /\ ~query.resultOpen /\ k \in query.columns
  /\ Do([query EXCEPT !.picked = IF k \in @ THEN @ \ {k} ELSE @ \cup {k}])

Persist(q, s) ==
  [q EXCEPT !.sql = s,
            !.memory = IF query.browseId = None THEN @ ELSE [@ EXCEPT ![query.browseId] = s]]

\* Typing, and the two drafts of a SELECT
Type(s) ==
  /\ query.browseId # None /\ ~query.resultOpen /\ s # query.sql /\ s # "chip"
  /\ Do(Persist(query, s))

\* The text is cleared and the columns are asked for again; the ones that were picked
\* then are picked again with the answer (n = 2; n = 0: the effect asks).
OnRefreshSql ==
  /\ query.browseId # None /\ ~query.resultOpen
  /\ Do([Persist(query, "") EXCEPT !.asks =
           IF query.selected = None THEN @
           ELSE @ \cup {Ask("columns", query.selected, IF query.picked = {} THEN 1 ELSE 2)}])

\* The chip that is edited.  The effect runs again when the language changes, and its
\* answer writes into the connection that was open when it was asked.
Relabel ==
  /\ query.chip
  /\ Do([query EXCEPT !.asks = {a \in @ : a.kind # "chip"} \cup {Ask("chip", query.browseId, 0)}])

ChipAnswer(a, c) ==
  /\ Answer(a) /\ a.kind = "chip"
  /\ \/ query' = [Without(a) EXCEPT
           !.browseId = c, !.sql = "chip",
           !.memory = IF a.of = None THEN @ ELSE [@ EXCEPT ![a.of] = "chip"]]
     \/ query' = [Without(a) EXCEPT !.left = TRUE]   \* not an extract of a database
     \/ query' = Without(a)

-----------------------------------------------------------------------------
(* Runs of the preview: the shortcut of the editor does not look at running *)

CanRun == query.browseId # None /\ query.sql # ""

\* Mutant: the answer of any run is taken.
RunAnswerAny(a, kind) ==
  /\ Answer(a) /\ a.kind = "run"
  /\ \/ query' = [Without(a) EXCEPT !.result = [n |-> a.n, kind |-> kind], !.running = FALSE]
     \/ query' = [Without(a) EXCEPT !.result = None, !.running = FALSE]

RunQuery(fresh) ==
  /\ CanRun /\ (fresh \/ (query.resultOpen /\ ~query.running))
  /\ Do([query EXCEPT !.runSeq = @ + 1, !.running = TRUE, !.resultOpen = @ \/ fresh,
                      !.watch = IF fresh /\ ~query.resultOpen /\ query.extract # None
                                THEN "asked" ELSE @,
                      !.asks = @ \cup {Ask("run", query.browseId, query.runSeq + 1)}])

RunAnswer(a, kind) ==
  /\ Answer(a) /\ a.kind = "run"
  /\ IF a.n # query.runSeq THEN query' = Without(a)
     ELSE \/ query' = [Without(a) EXCEPT !.result = [n |-> a.n, kind |-> kind], !.running = FALSE]
          \/ query' = [Without(a) EXCEPT !.result = None, !.running = FALSE]

\* The effect of the poll depends on isResultOpen and starts over with it.
CloseResult ==
  /\ query.resultOpen /\ ~query.pickOpen
  /\ Do([query EXCEPT !.resultOpen = FALSE, !.registerOpen = FALSE,
                      !.watch = IF query.extract # None THEN "asked" ELSE @])

-----------------------------------------------------------------------------
(* The extract and the poll that follows it                                *)

CanExtract ==
  /\ CanRun /\ ~query.extracting /\ ~Active(query.status)
  /\ query.result # None => query.result.kind # "exec"

OnExtract ==
  /\ ~query.chip /\ query.resultOpen /\ ~query.pickOpen /\ CanExtract
  /\ Do([query EXCEPT !.pickOpen = TRUE])

\* useWorkspacePick: the folder, or nothing when the dialog is closed
PickFolder ==
  /\ query.pickOpen
  /\ \/ Do([query EXCEPT !.pickOpen = FALSE])
     \/ Do([query EXCEPT !.pickOpen = FALSE, !.extracting = TRUE,
                         !.asks = @ \cup {Ask("create", query.browseId, query.clicks)}])

CreateAnswer(a, e) ==
  /\ ~query.left /\ a \in query.asks /\ a.kind = "create" /\ extractStatus[e] = "none"
  /\ extractStatus' = [extractStatus EXCEPT ![e] = "queued"]
  /\ query' = [Without(a) EXCEPT !.extracting = FALSE, !.extract = e, !.status = "queued",
                                 !.watch = "asked"]

CreateFails(a) ==
  /\ Answer(a) /\ a.kind = "create" /\ query' = [Without(a) EXCEPT !.extracting = FALSE]

ServerStep(e) ==
  /\ Active(extractStatus[e])
  /\ extractStatus' \in {[extractStatus EXCEPT ![e] = s] :
                          s \in IF extractStatus[e] = "queued" THEN {"running"}
                                ELSE {"succeeded", "failed"}}
  /\ UNCHANGED query

\* Mutant: a request that fails ends the poll.
PollGivesUp ==
  /\ ~query.left /\ query.watch = "asked" /\ UNCHANGED extractStatus
  /\ LET s == extractStatus[query.extract]
         ended == ~Active(s) /\ query.toasted # query.extract IN
     \/ query' = [query EXCEPT !.status = s, !.watch = IF Active(s) THEN "waiting" ELSE "off",
                               !.told[query.extract] = IF ended THEN @ + 1 ELSE @,
                               !.toasted = IF ended THEN query.extract ELSE @]
     \/ query' = [query EXCEPT !.watch = "off"]

\* The toast of an end is remembered by the id of the extract.
PollAnswer ==
  /\ ~query.left /\ query.watch = "asked" /\ UNCHANGED extractStatus
  /\ LET s == extractStatus[query.extract]
         ended == ~Active(s) /\ query.toasted # query.extract IN
     \/ query' = [query EXCEPT !.status = s, !.watch = IF Active(s) THEN "waiting" ELSE "off",
                               !.told[query.extract] = IF ended THEN @ + 1 ELSE @,
                               !.toasted = IF ended THEN query.extract ELSE @]
     \/ query' = [query EXCEPT !.watch = "waiting"]

PollTimer ==
  /\ ~query.left /\ query.watch = "waiting" /\ query' = [query EXCEPT !.watch = "asked"]
  /\ UNCHANGED extractStatus

-----------------------------------------------------------------------------
(* Registering a chip, or applying the edited one                          *)

Saveable == CanRun /\ query.resultOpen /\ (query.result # None => query.result.kind # "exec")

OpenRegister ==
  /\ ~query.chip /\ Saveable /\ ~query.pickOpen /\ Do([query EXCEPT !.asks = @ \cup {Ask("names", None, 0)}])

\* The dialog opens with the next free name, or the default one on an error.
NamesAnswer(a) ==
  /\ Answer(a) /\ a.kind = "names" /\ query' = [Without(a) EXCEPT !.registerOpen = TRUE]

CloseRegister == query.registerOpen /\ Do([query EXCEPT !.registerOpen = FALSE])

\* The button of the chip is not disabled while the request is in flight.
Save ==
  /\ CanRun
  /\ \/ query.chip /\ Saveable
     \/ query.registerOpen /\ ~query.registerBusy
  /\ Do([query EXCEPT !.registerBusy = TRUE, !.asks = @ \cup {Ask("save", query.browseId, query.clicks)}])

SaveAnswer(a) ==
  /\ Answer(a) /\ a.kind = "save"
  /\ \/ query' = [Without(a) EXCEPT !.registerBusy = FALSE, !.registerOpen = FALSE,
                                    !.left = query.returns]
     \/ query' = [Without(a) EXCEPT !.registerBusy = FALSE]

LeaveEditor == query.returns /\ Do([query EXCEPT !.left = TRUE])

Next ==
  \/ \E c \in Conn : OnPickConnection(c)
  \/ \E t \in Table : OnPickTable(t) \/ ToggleColumn(t)
  \/ \E s \in Sql : Type(s)
  \/ \E fresh \in BOOLEAN : RunQuery(fresh)
  \/ \E a \in query.asks :
       \/ ColumnsAnswer(a) \/ ColumnsFail(a) \/ NamesAnswer(a) \/ SaveAnswer(a) \/ CreateFails(a)
       \/ \E c \in Conn : ChipAnswer(a, c)
       \/ \E kind \in Kinds : RunAnswer(a, kind)
       \/ \E e \in Extract : CreateAnswer(a, e)
  \/ OnRefreshSql \/ Relabel \/ CloseResult \/ OnExtract \/ PickFolder \/ PollAnswer \/ PollTimer
  \/ OpenRegister \/ CloseRegister \/ Save \/ LeaveEditor
  \/ \E e \in Extract : ServerStep(e)

-----------------------------------------------------------------------------
\* However many runs the shortcut starts over each other, the page waits for the last
\* one only, and what it shows when it stops waiting is that one's answer, never that
\* of an older statement that came late.
LatestRunShown ==
  ~query.left =>
    /\ query.running = (\E a \in query.asks : a.kind = "run" /\ a.n = query.runSeq)
    /\ query.result # None /\ ~query.running => query.result.n = query.runSeq

\* An extract that is shown as active is being watched, through errors of the poll and
\* dialogs that open and close, and its end is announced once.
ExtractIsWatched ==
  ~query.left =>
    /\ Active(query.status) => query.watch # "off"
    /\ \A e \in Extract : query.told[e] <= 1
=============================================================================
