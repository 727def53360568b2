----------------------------- MODULE MemoNotes -----------------------------
(***************************************************************************)
(* Typing in a memo of the canvas and in its editor                        *)
(* (commitMemoConfig of ui/src/pages/WorkspacePage.tsx, MemoStickyNote,    *)
(* MemoChipEditorDialog.tsx).  A memo is not saved with the canvas but by  *)
(* itself, when it loses the focus and whenever its style changes; every   *)
(* commit has a number, and only the answer to the last one counts.        *)
(*                                                                         *)
(* memo is the state of the page: config (what is shown) and savedConfig   *)
(* (what the page believes to be stored), each a pair <<text, style>>, the *)
(* text being its length; typed and last, what the user entered last and   *)
(* what was committed last; gen, the commits under way, and the editor.    *)
(* note is the server's: the config it holds.                              *)
(***************************************************************************)
EXTENDS Naturals, FiniteSets

CONSTANTS
  MaxText,     \* MAX_MEMO_TEXT, the longest text that may be stored
  MaxClicks,   \* bound on what the user does
  MaxFaults,   \* bound on the requests that fail
  None

VARIABLES memo, note
vars == <<memo, note>>

Text == 0..(MaxText + 1)
Style == {"plain", "bold"}
Config == Text \X Style

Init ==
  /\ note = <<0, "plain">>
  /\ \E draft \in BOOLEAN :
       memo = [draft |-> draft, config |-> note, savedConfig |-> note, typed |-> note, last |-> note, dirty |-> FALSE, gen |-> 0,
               commits |-> {}, editor |-> None, editorBusy |-> FALSE, focus |-> FALSE, clicks |-> 0, faults |-> 0]

Do(q) == memo.clicks < MaxClicks /\ memo' = [q EXCEPT !.clicks = @ + 1] /\ UNCHANGED note

\* Typing changes what is shown only; of a draft it makes the canvas dirty too.
SetLocal(q, config) == [q EXCEPT !.config = config, !.typed = config, !.dirty = IF @ THEN @ ELSE q.draft]

Type(text) ==
  /\ memo.editor = None /\ text # memo.config[1]
  /\ Do([SetLocal(memo, <<text, memo.config[2]>>) EXCEPT !.focus = TRUE])

\* A text that is too long is refused, and stays on the page.
Commit(q, config) ==
  IF config[1] > MaxText THEN q
  ELSE LET shown == SetLocal(q, config) IN
       IF q.draft THEN shown
       ELSE [shown EXCEPT !.gen = @ + 1, !.last = config, !.commits = @ \cup {[gen |-> q.gen + 1, config |-> config, at |-> "sent"]}]

Blur == memo.focus /\ memo.editor = None /\ Do([Commit(memo, memo.config) EXCEPT !.focus = FALSE])
ChangeStyle(style) ==
  memo.editor = None /\ style # memo.config[2] /\ Do(Commit(memo, <<memo.config[1], style>>))

\* The server stores the commits in the order they reach it.
Store(c) ==
  /\ c \in memo.commits /\ c.at = "sent"
  /\ note' = c.config
  /\ memo' = [memo EXCEPT !.commits = (@ \ {c}) \cup {[c EXCEPT !.at = "stored"]}]

Answered(q, c) ==
  IF c.gen # q.gen THEN q
  ELSE [q EXCEPT !.config = c.config, !.savedConfig = c.config, !.dirty = FALSE]

CommitAnswer(c) ==
  /\ c \in memo.commits /\ c.at = "stored" /\ UNCHANGED note
  /\ memo' = Answered([memo EXCEPT !.commits = @ \ {c}], c)
CommitFails(c) ==
  /\ c \in memo.commits /\ memo.faults < MaxFaults /\ UNCHANGED note
  /\ memo' = [memo EXCEPT !.commits = @ \ {c}, !.faults = @ + 1]

-----------------------------------------------------------------------------
(* The editor                                                              *)

OpenEditor ==
  /\ memo.editor = None /\ ~memo.focus /\ Do([memo EXCEPT !.editor = memo.config, !.editorBusy = FALSE])
TypeInEditor(config) ==
  /\ memo.editor # None /\ ~memo.editorBusy /\ config # memo.editor /\ Do([memo EXCEPT !.editor = config])
CloseEditor == memo.editor # None /\ UNCHANGED note /\ memo' = [memo EXCEPT !.editor = None]

\* A draft is changed on the page, anything else is stored first; what the page holds to
\* be stored is not touched.
SaveEditor ==
  /\ memo.editor # None /\ ~memo.editorBusy /\ memo.editor[1] <= MaxText /\ UNCHANGED note
  /\ memo' = IF memo.draft THEN [SetLocal(memo, memo.editor) EXCEPT !.editor = None]
             ELSE [memo EXCEPT !.editorBusy = TRUE,
                     !.commits = @ \cup {[gen |-> 0, config |-> memo.editor, at |-> "sent"]}]

EditorAnswer(c) ==
  /\ c \in memo.commits /\ c.gen = 0 /\ c.at = "stored" /\ UNCHANGED note
  /\ memo' = [memo EXCEPT !.commits = @ \ {c}, !.config = c.config, !.typed = c.config,
                          !.editor = None, !.editorBusy = FALSE]
EditorFails(c) ==
  /\ c \in memo.commits /\ c.gen = 0 /\ memo.faults < MaxFaults /\ UNCHANGED note
  /\ memo' = [memo EXCEPT !.commits = @ \ {c}, !.editorBusy = FALSE, !.faults = @ + 1]

Next ==
  \/ \E text \in Text : Type(text)
  \/ \E style \in Style : ChangeStyle(style)
  \/ \E c \in memo.commits :
       \/ Store(c)
       \/ c.gen # 0 /\ (CommitAnswer(c) \/ CommitFails(c))
       \/ EditorAnswer(c) \/ EditorFails(c)
  \/ \E config \in Config : TypeInEditor(config)
  \/ Blur \/ OpenEditor \/ CloseEditor \/ SaveEditor

-----------------------------------------------------------------------------
\* Commits overlap and are answered in any order, but no answer to an older one shows: the
\* memo has what was entered last or what was committed last, and no text the server
\* would refuse is taken for stored.
OlderAnswersAreDropped ==
  memo.config \in {memo.typed, memo.last} /\ memo.savedConfig[1] <= MaxText
=============================================================================
