--------------------------- MODULE ApiExtractPage ---------------------------
(***************************************************************************)
(* The editor of extracts from an API (ui/src/pages/ApiExtractPage.tsx): a *)
(* request is put together, called for a preview, and either run as an     *)
(* extract, registered as a chip or applied to one.                        *)
(*                                                                         *)
(* api is the state of the page, its fields named as in the source:        *)
(*   typed     the values in the editors of parameters, headers and body   *)
(*   applied   the values taken over by Apply: only these are sent         *)
(*   preview   the connection whose answer is shown, and whether records   *)
(*            are found at the path                                        *)
(*   extractRow   what the page knows of the extract it watches            *)
(*   asks      requests whose answer still counts, [kind, of]              *)
(* extracts is the server's: the status of each extract the page started.  *)
(***************************************************************************)
EXTENDS Naturals, Sequences

CONSTANTS
  Conn,         \* connections to APIs
  MaxExtracts,  \* bound on the extracts
  MaxClicks,    \* bound on what the user does
  None

VARIABLES api, extracts
vars == <<api, extracts>>

Ask(kind, of) == [kind |-> kind, of |-> of]
Answer(a) == ~api.left /\ a \in api.asks
Without(a) == [api EXCEPT !.asks = @ \ {a}]
NoRow == [id |-> None, status |-> "none"]

Init ==
  /\ extracts = <<>>
  /\ \E chip \in BOOLEAN :
       api = [chip |-> chip, left |-> FALSE, browseId |-> None, chosen |-> FALSE, typed |-> "", applied |-> "",
              preview |-> None, records |-> FALSE, isResultOpen |-> FALSE, running |-> FALSE,
              extracting |-> FALSE, extractId |-> None, extractRow |-> NoRow, register |-> FALSE,
              registerBusy |-> FALSE, asks |-> {Ask("list", None)} \cup IF chip THEN {Ask("chip", None)} ELSE {},
              clicks |-> 0]

Do(q) == ~api.left /\ api.clicks < MaxClicks /\ api' = [q EXCEPT !.clicks = @ + 1]
Free == ~api.isResultOpen /\ ~api.register

-----------------------------------------------------------------------------
(* Loading                                                                 *)

\* The first connection is browsed, once, unless a chip says which one.
ListAnswer(c) ==
  LET a == Ask("list", None) IN
  /\ Answer(a) /\ UNCHANGED extracts
  /\ api' = IF api.chip \/ api.chosen THEN Without(a)
            ELSE [Without(a) EXCEPT !.browseId = c, !.chosen = TRUE]

\* What is stored with the chip is both in the editors and applied.
ChipAnswer(c, values) ==
  LET a == Ask("chip", None) IN
  /\ Answer(a) /\ UNCHANGED extracts
  /\ api' \in {Without(a), [Without(a) EXCEPT !.left = TRUE],
               [Without(a) EXCEPT !.browseId = c, !.typed = values, !.applied = values, !.chosen = TRUE]}

\* Another language starts the effect anew.
Relabel ==
  api.chip /\ Do([api EXCEPT !.asks = @ \cup {Ask("chip", None)}]) /\ UNCHANGED extracts

-----------------------------------------------------------------------------
(* Editing and calling                                                     *)

PickConnection(c) ==
  /\ Free /\ Do([api EXCEPT !.browseId = IF @ = c THEN None ELSE c]) /\ UNCHANGED extracts
Type(values) == Free /\ values # api.typed /\ Do([api EXCEPT !.typed = values]) /\ UNCHANGED extracts
Apply == Free /\ api.applied # api.typed /\ Do([api EXCEPT !.applied = api.typed]) /\ UNCHANGED extracts

Active(status) == status \in {"queued", "running"}
ExtractBusy == api.extracting \/ Active(api.extractRow.status)

RunPreview ==
  /\ ~api.register /\ api.browseId # None /\ ~api.running /\ ~ExtractBusy /\ UNCHANGED extracts
  /\ Do([api EXCEPT !.isResultOpen = TRUE, !.running = TRUE, !.extractId = None, !.extractRow = NoRow,
                    !.asks = {b \in @ : b.kind # "poll"} \cup {Ask("preview", api.browseId)}])

PreviewAnswer(a, records) ==
  /\ Answer(a) /\ a.kind = "preview" /\ UNCHANGED extracts
  /\ api' \in {[Without(a) EXCEPT !.running = FALSE, !.preview = None],
               [Without(a) EXCEPT !.running = FALSE, !.preview = a.of, !.records = records]}

\* The path of the records is read anew on every key.
SetRecordsPath(records) ==
  /\ api.isResultOpen /\ ~api.register /\ api.records # records
  /\ Do([api EXCEPT !.records = records]) /\ UNCHANGED extracts

OpenResult == Free /\ api.preview # None /\ Do([api EXCEPT !.isResultOpen = TRUE]) /\ UNCHANGED extracts
CloseResult == api.isResultOpen /\ ~api.register /\ ~api.left /\ api' = [api EXCEPT !.isResultOpen = FALSE] /\ UNCHANGED extracts

ResetRequest ==
  /\ Free /\ ~api.running /\ ~ExtractBusy /\ UNCHANGED extracts
  /\ Do([api EXCEPT !.typed = "", !.applied = "", !.preview = None, !.extractId = None, !.extractRow = NoRow,
                    !.asks = {b \in @ : b.kind # "poll"}])

-----------------------------------------------------------------------------
(* An extract and its poll                                                 *)

CanExtract ==
  /\ ~api.chip /\ ~api.running /\ api.browseId # None /\ api.preview # None /\ api.records
  /\ ~ExtractBusy

\* The folder is picked first, in a dialog above this one that may be closed.
OnExtract ==
  /\ api.isResultOpen /\ ~api.register /\ CanExtract /\ UNCHANGED extracts
  /\ Do([api EXCEPT !.extracting = TRUE, !.asks = @ \cup {Ask("extract", api.browseId)}])

ExtractAnswer(a) ==
  /\ Answer(a) /\ a.kind = "extract"
  /\ \/ api' = [Without(a) EXCEPT !.extracting = FALSE] /\ UNCHANGED extracts
     \/ LET id == Len(extracts) + 1 IN
        /\ id <= MaxExtracts
        /\ extracts' = Append(extracts, "queued")
        /\ api' = [Without(a) EXCEPT !.extracting = FALSE, !.extractId = id,
                     !.extractRow = [id |-> id, status |-> "queued"],
                     !.asks = (@ \ {a}) \cup {Ask("poll", id)}]

\* The poll ends with the extract, and with the first error too.
PollAnswer(a) ==
  /\ Answer(a) /\ a.kind = "poll" /\ UNCHANGED extracts
  /\ \/ api' = Without(a)
     \/ LET row == [id |-> a.of, status |-> extracts[a.of]] IN
        api' = [(IF Active(row.status) THEN api ELSE Without(a)) EXCEPT !.extractRow = row]

\* External: the server works on the extract.
ServerStep(id) ==
  /\ Active(extracts[id]) /\ UNCHANGED api
  /\ \E s \in IF extracts[id] = "queued" THEN {"running"} ELSE {"succeeded", "failed"} :
       extracts' = [extracts EXCEPT ![id] = s]

-----------------------------------------------------------------------------
(* Registering and applying                                                *)

OpenRegister ==
  /\ api.isResultOpen /\ ~api.register /\ ~api.chip /\ api.browseId # None /\ ~api.registerBusy
  /\ Do([api EXCEPT !.asks = @ \cup {Ask("names", None)}]) /\ UNCHANGED extracts
NamesAnswer ==
  LET a == Ask("names", None) IN
  Answer(a) /\ api' = [Without(a) EXCEPT !.register = TRUE] /\ UNCHANGED extracts
CloseRegister == ~api.left /\ api.register /\ api' = [api EXCEPT !.register = FALSE] /\ UNCHANGED extracts

SaveRegister ==
  /\ api.register /\ api.browseId # None /\ ~api.registerBusy /\ UNCHANGED extracts
  /\ Do([api EXCEPT !.registerBusy = TRUE, !.asks = @ \cup {Ask("register", None)}])
ApplyChip ==
  /\ api.isResultOpen /\ api.chip /\ api.browseId # None /\ ~api.registerBusy /\ UNCHANGED extracts
  /\ Do([api EXCEPT !.registerBusy = TRUE, !.asks = @ \cup {Ask("apply", None)}])

SaveAnswer(a) ==
  /\ Answer(a) /\ a.kind \in {"register", "apply"} /\ UNCHANGED extracts
  /\ LET done == [Without(a) EXCEPT !.registerBusy = FALSE] IN
     \/ api' = done
     \/ a.kind = "apply" /\ api' = [done EXCEPT !.left = TRUE]
     \/ \E back \in BOOLEAN : a.kind = "register" /\ api' = [done EXCEPT !.register = FALSE, !.left = back]

Leave == Free /\ Do([api EXCEPT !.left = TRUE]) /\ UNCHANGED extracts

Next ==
  \/ \E c \in Conn : ListAnswer(c) \/ PickConnection(c) \/ \E v \in {"", "x"} : ChipAnswer(c, v)
  \/ \E v \in {"", "x"} : Type(v)
  \/ \E a \in api.asks : ExtractAnswer(a) \/ PollAnswer(a) \/ SaveAnswer(a)
                         \/ \E records \in BOOLEAN : PreviewAnswer(a, records)
  \/ \E records \in BOOLEAN : SetRecordsPath(records)
  \/ \E id \in DOMAIN extracts : ServerStep(id)
  \/ Relabel \/ Apply \/ RunPreview \/ OpenResult \/ CloseResult \/ ResetRequest \/ OnExtract
  \/ OpenRegister \/ NamesAnswer \/ CloseRegister \/ SaveRegister \/ ApplyChip \/ Leave

-----------------------------------------------------------------------------
\* However clicks, polls and the steps of the server fall together, the page never has
\* two extracts at work, and the one at work is the one it shows (the row it shows may
\* be older than the server's, never of another extract).
OneExtractAtATime ==
  /\ \A i, j \in DOMAIN extracts : Active(extracts[i]) /\ Active(extracts[j]) => i = j
  /\ ~api.left => \A i \in DOMAIN extracts : Active(extracts[i]) => api.extractRow.id = i
=============================================================================
