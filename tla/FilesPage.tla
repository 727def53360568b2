----------------------------- MODULE FilesPage -----------------------------
(***************************************************************************)
(* The uploads (ui/src/pages/FilesPage.tsx; its table is in Catalogs): a   *)
(* queue of text files that are sent one by one, and workbooks, which are  *)
(* staged on the server, opened one after the other in a dialog where      *)
(* sheets are chosen (ExcelSheetDialog.tsx), and committed or cancelled.   *)
(*                                                                         *)
(* upload is the state of the page, its fields named as in the source:     *)
(*   queue, selected   the text files on the page, and those ticked        *)
(*   todo       what onSubmit or addFiles still has to send                *)
(*   workbooks  the workbooks that are staged, the first one open          *)
(*   sheets     the sheets ticked in the dialog                            *)
(*   busy, reading, saving   an upload, a staging, a commit is under way   *)
(*   picking    what the dialog that asks for a folder is open for         *)
(*   seen       files once queued (each is queued once here)               *)
(* server is what it holds: how often each file was stored, and what       *)
(* became of each workbook.                                                *)
(***************************************************************************)
EXTENDS Naturals, Sequences, SequencesExt

CONSTANTS
  File,       \* text files
  Book,       \* workbooks
  Sheet,      \* sheets of every workbook
  MaxClicks,  \* bound on what the user does
  None

VARIABLES upload, server
vars == <<upload, server>>

Init ==
  /\ upload = [queue |-> {}, selected |-> {}, todo |-> <<>>, workbooks |-> <<>>, sheets |-> {},
               busy |-> FALSE, staging |-> <<>>, reading |-> FALSE, saving |-> FALSE, picking |-> None,
               seen |-> {}, cancels |-> {}, clicks |-> 0]
  /\ server = [stored |-> [f \in File |-> 0], book |-> [b \in Book |-> "none"]]

\* The dialog opens with every sheet of a workbook ticked.
Shown(q) ==
  IF q.workbooks = <<>> THEN [q EXCEPT !.sheets = {}]
  ELSE IF upload.workbooks # <<>> /\ Head(q.workbooks) = Head(upload.workbooks) THEN q
  ELSE [q EXCEPT !.sheets = Sheet]

Do(q) == upload.clicks < MaxClicks /\ upload' = [Shown(q) EXCEPT !.clicks = @ + 1]
Free == upload.picking = None /\ upload.workbooks = <<>>

-----------------------------------------------------------------------------
(* Adding files                                                            *)

\* A file that is in the queue already is not added again.
AddFiles(files, books) ==
  /\ Free /\ ~upload.busy /\ ~upload.reading /\ UNCHANGED server
  /\ (files \cup ToSet(books)) \cap upload.seen = {} /\ files \cup ToSet(books) # {}
  /\ Do([upload EXCEPT !.queue = @ \cup files, !.seen = @ \cup files \cup ToSet(books),
                       !.staging = books, !.reading = books # <<>>])

\* Workbooks are staged one after the other; an error leaves out the rest.
StageAnswer ==
  LET b == Head(upload.staging)
      rest == Tail(upload.staging)
  IN /\ upload.staging # <<>>
     /\ \/ upload' = [upload EXCEPT !.staging = <<>>, !.reading = FALSE] /\ UNCHANGED server
        \/ /\ upload' = Shown([upload EXCEPT !.workbooks = Append(@, b), !.staging = rest, !.reading = rest # <<>>])
           /\ server' = [server EXCEPT !.book[b] = "staged"]

ToggleOne(f) ==
  /\ Free /\ f \in upload.queue /\ UNCHANGED server
  /\ Do([upload EXCEPT !.selected = IF f \in @ THEN @ \ {f} ELSE @ \cup {f}])
ToggleAll ==
  /\ Free /\ upload.queue # {} /\ UNCHANGED server
  /\ Do([upload EXCEPT !.selected = IF @ = upload.queue THEN {} ELSE upload.queue])
RemoveSelected ==
  /\ Free /\ upload.selected # {} /\ ~upload.busy /\ UNCHANGED server
  /\ Do([upload EXCEPT !.queue = @ \ upload.selected, !.selected = {}])

-----------------------------------------------------------------------------
(* Uploading                                                               *)

\* The folder is asked for first.
OnSubmit ==
  /\ Free /\ upload.queue # {} /\ ~upload.busy /\ UNCHANGED server
  /\ Do([upload EXCEPT !.picking = "upload"])

PickFolder(chosen) ==
  /\ upload.picking # None /\ UNCHANGED server
  /\ upload' = IF ~chosen THEN [upload EXCEPT !.picking = None]
               ELSE IF upload.picking = "upload"
               THEN [upload EXCEPT !.picking = None, !.busy = TRUE, !.todo = SetToSeq(upload.queue)]
               ELSE [upload EXCEPT !.picking = None, !.saving = TRUE]

\* Each file leaves the queue as soon as it is stored; an error ends the loop.
UploadAnswer ==
  LET f == Head(upload.todo)
      rest == Tail(upload.todo)
  IN /\ upload.todo # <<>>
     /\ \/ upload' = [upload EXCEPT !.todo = <<>>, !.busy = FALSE] /\ UNCHANGED server
        \/ /\ upload' = [upload EXCEPT !.todo = rest, !.busy = rest # <<>>,
                           !.queue = @ \ {f}, !.selected = @ \ {f}]
           /\ server' = [server EXCEPT !.stored[f] = @ + 1]

-----------------------------------------------------------------------------
(* The dialog of a workbook                                                *)

ToggleSheet(s) ==
  /\ upload.workbooks # <<>> /\ ~upload.saving /\ upload.picking = None /\ UNCHANGED server
  /\ Do([upload EXCEPT !.sheets = IF s \in @ THEN @ \ {s} ELSE @ \cup {s}])

SaveWorkbookSheets ==
  /\ upload.workbooks # <<>> /\ ~upload.saving /\ upload.picking = None /\ upload.sheets # {}
  /\ Do([upload EXCEPT !.picking = "commit"]) /\ UNCHANGED server

\* The files are stored with the last line of the answer; an error may come before or after.
CommitAnswer ==
  /\ upload.saving
  /\ \/ upload' = [upload EXCEPT !.saving = FALSE] /\ UNCHANGED server
     \/ /\ upload' = Shown([upload EXCEPT !.saving = FALSE, !.workbooks = Tail(@)])
        /\ server' = [server EXCEPT !.book[Head(upload.workbooks)] = "committed"]

\* Mutant: the dialog may be closed while its sheets are being stored.
CloseWhileSaving ==
  /\ upload.workbooks # <<>> /\ upload.picking = None /\ UNCHANGED server
  /\ Do([upload EXCEPT !.workbooks = Tail(@), !.cancels = @ \cup {Head(upload.workbooks)}])

\* The next workbook opens at once, the cancel of this one is under way.
CloseWorkbook ==
  /\ upload.workbooks # <<>> /\ upload.picking = None /\ ~upload.saving /\ UNCHANGED server
  /\ Do([upload EXCEPT !.workbooks = Tail(@), !.cancels = @ \cup {Head(upload.workbooks)}])

\* An error of the cancel is swallowed: the workbook stays staged, nobody knows.
CancelAnswer(b) ==
  /\ b \in upload.cancels /\ upload' = [upload EXCEPT !.cancels = @ \ {b}]
  /\ server' \in {server, [server EXCEPT !.book[b] = "cancelled"]}

Next ==
  \/ \E files \in SUBSET File, books \in {s \in UNION {[1..n -> Book] : n \in 0..2} : IsInjective(s)} :
       AddFiles(files, books)
  \/ StageAnswer \/ ToggleAll \/ RemoveSelected \/ OnSubmit \/ UploadAnswer
  \/ \E f \in File : ToggleOne(f)
  \/ \E chosen \in BOOLEAN : PickFolder(chosen)
  \/ \E s \in Sheet : ToggleSheet(s)
  \/ SaveWorkbookSheets \/ CommitAnswer \/ CloseWorkbook
  \/ \E b \in Book : CancelAnswer(b)

-----------------------------------------------------------------------------
\* Uploads that fail half way may be tried again: no file is stored twice, and only files
\* that are still in the queue are ticked, so that a tick of all means all.
QueueIsWhatIsLeft ==
  /\ \A f \in File : server.stored[f] + (IF f \in upload.queue THEN 1 ELSE 0) <= 1
  /\ upload.selected \subseteq upload.queue

\* A commit that ends after other clicks takes its own workbook off the page, never the
\* next one: every workbook that is not on the page was committed or its cancel was sent.
\* One whose cancel was sent is not committed by the page.
NoWorkbookForgotten ==
  /\ upload.saving => upload.workbooks # <<>> /\ server.book[Head(upload.workbooks)] = "staged"
  /\ \A b \in ToSet(upload.workbooks) : server.book[b] = "staged" /\ b \notin upload.cancels
=============================================================================
