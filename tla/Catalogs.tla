------------------------------ MODULE Catalogs ------------------------------
(***************************************************************************)
(* The pages that list stored files: uploads (ui/src/pages/FilesPage.tsx), *)
(* extract results, transform results and script results.  All four keep   *)
(* the same table: a tree that filters it, pages, rows that are selected   *)
(* (ui/src/components/DataGrid.tsx), deletion of the selected rows one     *)
(* request at a time, and a preview.                                       *)
(*                                                                         *)
(* table is the state of the page, its fields named as in the source:      *)
(*   files     the rows the page knows, in order                           *)
(*   tree      the folder that filters them, or "all"                      *)
(*   page      the page that was asked for                                 *)
(*   selected, anchor   the selection of the grid                          *)
(*   deletes   "off", "ask" while the question is open, or "run"           *)
(*   todo      the rows deleteSelected still has to delete                 *)
(*   asks      requests under way, [kind, of]                              *)
(* disk is the server's: the files there are, what the user agreed to      *)
(* delete and what was deleted.                                            *)
(***************************************************************************)
EXTENDS Naturals, Sequences, SequencesExt, FiniteSets

CONSTANTS
  File,       \* stored files
  FolderOf,   \* the folder of each file
  Readable,      \* files that can be previewed: succeeded extracts, files still on disk
  PageSize,   \* rows of a page
  MaxClicks,  \* bound on what the user does
  None

VARIABLES table, disk
vars == <<table, disk>>

Ask(kind, of) == [kind |-> kind, of |-> of]
Without(a) == [table EXCEPT !.asks = @ \ {a}]
Folder == {FolderOf[f] : f \in File}

Init ==
  /\ disk = [files |-> File, agreed |-> {}, deleted |-> {}]
  /\ \E kind \in {"files", "extracts", "transforms", "scripts"} :
       table = [kind |-> kind, files |-> <<>>, tree |-> "all", page |-> 1, selected |-> <<>>, anchor |-> None,
                deletes |-> "off", todo |-> <<>>, previewing |-> None, preview |-> None,
                asks |-> {Ask("list", None)}, clicks |-> 0]

-----------------------------------------------------------------------------
(* The rows on the page                                                    *)

\* filterItemsByFileTree: a folder shows what lies in it, not below it.
Visible(q) == SelectSeq(q.files, LAMBDA f : q.tree \in {"all", FolderOf[f]})

PageCount(q) == LET n == Len(Visible(q)) IN IF n = 0 THEN 1 ELSE (n + PageSize - 1) \div PageSize

\* paginate: a page past the last one is the last one.
PageFiles(q) ==
  LET page == IF q.page > PageCount(q) THEN PageCount(q) ELSE q.page
      end == IF page * PageSize > Len(Visible(q)) THEN Len(Visible(q)) ELSE page * PageSize
  IN SubSeq(Visible(q), (page - 1) * PageSize + 1, end)

\* usePagination: another filter starts at the first page, a page past the last is left.
Paged(q) ==
  IF q.tree # table.tree THEN [q EXCEPT !.page = 1]
  ELSE IF q.page > PageCount(q) THEN [q EXCEPT !.page = PageCount(q)] ELSE q

Do(q) == table.clicks < MaxClicks /\ table' = [Paged(q) EXCEPT !.clicks = @ + 1]
Free == table.deletes # "ask" /\ table.previewing = None
At(s, f) == CHOOSE i \in DOMAIN s : s[i] = f

SelectTree(folder) ==
  /\ Free /\ folder # table.tree /\ Do([table EXCEPT !.tree = folder]) /\ UNCHANGED disk
SetPage(n) ==
  /\ Free /\ n \in 1..PageCount(table) /\ n # table.page
  /\ Do([table EXCEPT !.page = n]) /\ UNCHANGED disk

-----------------------------------------------------------------------------
(* The selection of the grid                                               *)

Unrepeated(s) == FoldLeft(LAMBDA done, f : IF f \in ToSet(done) THEN done ELSE Append(done, f), <<>>, s)

\* nextGridSelection: a range from the anchor, a toggle, or the row alone.
NextGridSelection(f, shift, additive) ==
  LET rows == PageFiles(table)
      here == shift /\ table.anchor # None /\ table.anchor \in ToSet(rows)
      i == At(rows, f)
      j == At(rows, table.anchor)
      range == IF i < j THEN SubSeq(rows, i, j) ELSE SubSeq(rows, j, i)
  IN CASE here /\ additive -> [selected |-> Unrepeated(table.selected \o range), anchor |-> table.anchor]
       [] here /\ ~additive -> [selected |-> range, anchor |-> table.anchor]
       [] ~here /\ additive ->
            [selected |-> IF f \in ToSet(table.selected) THEN Remove(table.selected, f)
                          ELSE Append(table.selected, f), anchor |-> f]
       [] OTHER -> [selected |-> <<f>>, anchor |-> f]

\* A click with a key held counts anywhere in the row; the checkbox adds, unless it is
\* disabled while rows are being deleted.
ClickRow(f, box, shift, ctrl) ==
  /\ Free /\ f \in ToSet(PageFiles(table)) /\ (box \/ shift \/ ctrl)
  /\ box => table.deletes = "off"
  /\ LET next == NextGridSelection(f, shift, ctrl \/ (box /\ ~shift)) IN
     Do([table EXCEPT !.selected = next.selected, !.anchor = next.anchor])
  /\ UNCHANGED disk

ToggleAll ==
  /\ Free /\ table.deletes = "off" /\ PageFiles(table) # <<>>
  /\ LET rows == PageFiles(table)
         all == ToSet(rows) \subseteq ToSet(table.selected)
     IN Do([table EXCEPT !.selected = IF all THEN SelectSeq(@, LAMBDA f : f \notin ToSet(rows))
                                      ELSE Unrepeated(@ \o rows)])
  /\ UNCHANGED disk

-----------------------------------------------------------------------------
(* Deleting                                                                *)

DeleteSelected ==
  /\ Free /\ table.deletes = "off" /\ table.selected # <<>> /\ UNCHANGED disk
  /\ Do([table EXCEPT !.deletes = "ask", !.todo = table.selected])

Confirm(yes) ==
  /\ table.deletes = "ask"
  /\ IF yes
     THEN /\ table' = [table EXCEPT !.deletes = "run", !.asks = @ \cup {Ask("delete", Head(table.todo))}]
          /\ disk' = [disk EXCEPT !.agreed = @ \cup ToSet(table.todo)]
     ELSE table' = [table EXCEPT !.deletes = "off", !.todo = <<>>] /\ UNCHANGED disk

Refresh(q) == [q EXCEPT !.todo = <<>>, !.asks = @ \cup {Ask("list", None)}]

\* The loop goes over the rows that were selected when the question was asked.
NextToDelete == Tail(table.todo)

\* A file that is gone, or that a chip needs, is an error: the loop ends, the rest stays
\* selected, and the rows that were deleted do too.
DeleteAnswer(a) ==
  /\ a \in table.asks /\ a.kind = "delete"
  /\ \/ table' = Refresh(Without(a)) /\ UNCHANGED disk
     \/ /\ a.of \in disk.files
        /\ disk' = [disk EXCEPT !.files = @ \ {a.of}, !.deleted = @ \cup {a.of}]
        /\ table' = IF NextToDelete # <<>>
                    THEN [table EXCEPT !.todo = NextToDelete,
                            !.asks = (@ \ {a}) \cup {Ask("delete", Head(NextToDelete))}]
                    ELSE Refresh([Without(a) EXCEPT !.selected = <<>>])

\* The list is read again; an error keeps the rows as they are.
ListAnswer ==
  LET a == Ask("list", None)
      done == [Without(a) EXCEPT !.deletes = IF @ = "run" THEN "off" ELSE @]
  IN /\ a \in table.asks /\ UNCHANGED disk
     /\ table' \in {done, Paged([done EXCEPT !.files = SetToSortSeq(disk.files, LAMBDA f, g : f < g)])}

-----------------------------------------------------------------------------
(* The preview                                                             *)

OpenPreview(f, fromTree) ==
  /\ Free /\ f \in ToSet(IF fromTree THEN table.files ELSE PageFiles(table))
  /\ table.kind # "files" => f \in Readable
  /\ Do([table EXCEPT !.previewing = f, !.preview = None, !.asks = @ \cup {Ask("preview", f)},
                      !.tree = IF fromTree THEN FolderOf[f] ELSE @])
  /\ UNCHANGED disk

\* The answer counts for whatever is open by then, or for nothing.
PreviewAnswer(a) ==
  /\ a \in table.asks /\ a.kind = "preview" /\ UNCHANGED disk
  /\ table' \in {[Without(a) EXCEPT !.preview = a.of], [Without(a) EXCEPT !.previewing = None]}

ClosePreview ==
  /\ table.previewing # None /\ UNCHANGED disk
  /\ table' = [table EXCEPT !.previewing = None, !.preview = None]

Table ==
  \/ ListAnswer \/ ToggleAll \/ DeleteSelected \/ ClosePreview
  \/ \E folder \in Folder \cup {"all"} : SelectTree(folder)
  \/ \E n \in 1..Cardinality(File) : SetPage(n)
  \/ \E f \in File, box, shift, ctrl \in BOOLEAN : ClickRow(f, box, shift, ctrl)
  \/ \E yes \in BOOLEAN : Confirm(yes)
  \/ \E a \in table.asks : DeleteAnswer(a) \/ PreviewAnswer(a)
  \/ \E f \in File, fromTree \in BOOLEAN : OpenPreview(f, fromTree)

\* The four pages, each with the table.
FilesTable == table.kind = "files" /\ Table
ExtractResultsPage == table.kind = "extracts" /\ Table
TransformFilesPage == table.kind = "transforms" /\ Table
ScriptFilesPage == table.kind = "scripts" /\ Table
Next == FilesTable \/ ExtractResultsPage \/ TransformFilesPage \/ ScriptFilesPage

-----------------------------------------------------------------------------
\* Rows may be selected with a key held even while others are being deleted: still only
\* files that the question counted are ever deleted.
OnlyAgreedIsDeleted == disk.deleted \subseteq disk.agreed

\* Whatever is deleted, filtered or paged: while there is a row to show, the page shows one.
NoEmptyPage == Visible(table) # <<>> => PageFiles(table) # <<>>
=============================================================================
