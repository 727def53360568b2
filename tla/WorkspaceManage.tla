--------------------------- MODULE WorkspaceManage ---------------------------
(***************************************************************************)
(* The dialog that arranges folders and workspaces                         *)
(* (ui/src/components/workspace/WorkspaceManageDialog.tsx).  It edits a    *)
(* draft of the tree and saves the difference as one request per item:     *)
(* create, then move and rename, then delete.                              *)
(*                                                                         *)
(* manage is its state, fields named as in the source:                     *)
(*   folders, homes          draftFolders, and the folder of each draft    *)
(*                           workspace                                     *)
(*   original, originalHomes the lists the draft started from              *)
(*   shown, shownHomes       the lists of the page behind the dialog       *)
(*   plan     the draft that is being saved (busy: a save runs)            *)
(*   todo     the requests of the save that are left                       *)
(*   ids      folderIdMap: the server's id of a draft folder               *)
(*   torn     a save broke off, or its draft was not whole (history)       *)
(*   removed, given   what the user ever removed, and the ids the server   *)
(*            ever gave (history)                                          *)
(* tree and homes are what the server holds.  Names of workspaces and new  *)
(* workspaces, which no request can collide on, are left out.  A question  *)
(* covers the dialog, so asking it and answering it are one step.          *)
(***************************************************************************)
EXTENDS Naturals, FiniteSets, Functions

CONSTANTS
  Folder,     \* ids of the server: Known and ids it may give
  Known,     \* folders at the start
  Draft,      \* ids of draft folders
  Work,       \* workspaces at the start, in no folder
  Default,    \* the default workspace
  Name,       \* names of folders
  MaxClicks,  \* bound on the clicks of the user
  MaxFaults,  \* bound on the requests that fail on the way
  None

VARIABLES manage, tree, homes
vars == <<manage, tree, homes>>

Top == None
Children(F, p) == {f \in DOMAIN F : F[f].parent = p}

\* isFolderDescendant: a itself and what lies under it
Under(F, a) ==
  LET down(S) == {f \in DOMAIN F : F[f].parent \in S}
      within[n \in 0..Cardinality(DOMAIN F)] ==
        IF n = 0 THEN {a} ELSE within[n - 1] \cup down(within[n - 1])
  IN within[Cardinality(DOMAIN F)]

\* Levels above f that are in S: the order of creating and deleting
Depth(F, S, f) == Cardinality({a \in S \ {f} : f \in Under(F, a)})

NameTaken(F, name, parent, except) ==
  \E f \in DOMAIN F \ {except} : F[f] = [name |-> name, parent |-> parent]

Changed == manage.folders # manage.original \/ manage.homes # manage.originalHomes

Init ==
  /\ tree \in {t \in [Known -> [name : Name, parent : Known \cup {Top}]] :
                 \A f \in Known : /\ ~NameTaken(t, t[f].name, t[f].parent, f)
                                   /\ f \notin UNION {Under(t, c) : c \in Children(t, f)}}
  /\ homes = [w \in Work |-> Top]
  /\ manage = [open |-> FALSE, folders |-> tree, homes |-> homes, original |-> tree,
               originalHomes |-> homes, shown |-> tree, shownHomes |-> homes,
               editor |-> None, selected |-> {}, busy |-> FALSE, todo |-> {},
               plan |-> None, ids |-> [d \in Draft |-> None], removed |-> {}, given |-> {},
               saved |-> FALSE, torn |-> FALSE, clicks |-> 0, faults |-> 0]

Do(m) ==
  /\ manage.clicks < MaxClicks /\ manage' = [m EXCEPT !.clicks = @ + 1]
  /\ UNCHANGED <<tree, homes>>

\* The draft is seeded when the dialog opens, and only then.
Open ==
  /\ ~manage.open
  /\ Do([manage EXCEPT !.open = TRUE, !.saved = FALSE,
           !.folders = manage.shown, !.original = manage.shown,
           !.homes = manage.shownHomes, !.originalHomes = manage.shownHomes])

Closed(m) == [m EXCEPT !.open = FALSE, !.editor = None, !.selected = {}, !.busy = FALSE]

\* With a question about the changes that are lost
RequestClose == manage.open /\ ~manage.busy /\ Do(Closed(manage))

-----------------------------------------------------------------------------
(* Editing the draft                                                       *)

Mouse == manage.open /\ ~manage.busy

\* A click with the control key; selecting is not held up by a save.
SelectItem(k) ==
  /\ manage.open /\ k \in DOMAIN manage.folders \cup DOMAIN manage.homes
  /\ Do([manage EXCEPT !.selected = IF k \in @ THEN @ \ {k} ELSE @ \cup {k}])

StartCreateFolder(parent) ==
  /\ Mouse /\ parent \in DOMAIN manage.folders \cup {Top}
  /\ Do([manage EXCEPT !.editor = [id |-> None, parent |-> parent]])

StartEditFolder(f) ==
  /\ Mouse /\ f \in DOMAIN manage.folders
  /\ Do([manage EXCEPT !.editor = [id |-> f, parent |-> manage.folders[f].parent]])

\* A folder cannot be put under itself.
SelectParent(p) ==
  /\ Mouse /\ manage.editor # None /\ p \in DOMAIN manage.folders \cup {Top}
  /\ manage.editor.id # None => p \notin Under(manage.folders, manage.editor.id)
  /\ Do([manage EXCEPT !.editor.parent = p])

CancelEditor == Mouse /\ manage.editor # None /\ Do([manage EXCEPT !.editor = None])

CommitEditor(name, d) ==
  /\ Mouse /\ manage.editor # None
  /\ LET edit == manage.editor
         f == IF edit.id = None THEN d ELSE edit.id
         F == manage.folders IN
     /\ edit.id = None => d \notin DOMAIN F
     /\ ~NameTaken(F, name, edit.parent, edit.id)
     /\ edit.id # None => edit.parent \notin Under(F, edit.id)
     /\ Do([manage EXCEPT !.editor = None,
              !.folders = [g \in DOMAIN F \cup {f} |->
                             IF g = f THEN [name |-> name, parent |-> edit.parent] ELSE F[g]]])

\* A drag carries the selection when it starts on a selected item.  A drop looks at the
\* shape of the tree and not at the names.
MoveItemKeys(k, target) ==
  /\ Mouse /\ k \in DOMAIN manage.folders \cup DOMAIN manage.homes
  /\ target \in DOMAIN manage.folders \cup {Top}
  /\ LET keys == IF k \in manage.selected THEN manage.selected ELSE {k}
         F == manage.folders IN
     /\ target \notin UNION {Under(F, f) : f \in keys \cap DOMAIN F}
     /\ Do([manage EXCEPT
              !.selected = keys,
              !.folders = [f \in DOMAIN F |-> IF f \in keys THEN [F[f] EXCEPT !.parent = target] ELSE F[f]],
              !.homes = [w \in DOMAIN @ |-> IF w \in keys THEN target ELSE @[w]]])

\* Whatever lies under a removed folder goes with it, and its workspaces to the top.
Dropped(m, dropFolders, dropWork) ==
  LET F == manage.folders
      drop == UNION {Under(F, f) : f \in dropFolders}
      rest == Restrict(manage.homes, DOMAIN manage.homes \ dropWork) IN
  [m EXCEPT !.folders = Restrict(F, DOMAIN F \ drop),
            !.homes = [w \in DOMAIN rest |-> IF rest[w] \in drop THEN Top ELSE rest[w]],
            !.removed = @ \cup drop \cup dropWork,
            !.editor = IF @ = None THEN @ ELSE IF @.id \in drop THEN None
                       ELSE IF @.parent \in drop THEN [@ EXCEPT !.parent = Top] ELSE @]

RemoveFolder(f) == Mouse /\ f \in DOMAIN manage.folders /\ Do(Dropped(manage, {f}, {}))

RemoveWorkspace(w) ==
  Mouse /\ w \in DOMAIN manage.homes \ {Default} /\ Do(Dropped(manage, {}, {w}))

\* The Delete key, which does not look at busy.  It leaves parentId alone.
RemoveSelected ==
  /\ manage.open /\ manage.selected \ {Default} # {}
  /\ LET gone == Dropped(manage, manage.selected \cap DOMAIN manage.folders,
                         (manage.selected \cap DOMAIN manage.homes) \ {Default}) IN
     Do([gone EXCEPT !.selected = {},
           !.editor = IF @ # None THEN [@ EXCEPT !.parent = manage.editor.parent] ELSE @])

-----------------------------------------------------------------------------
(* Saving                                                                  *)

Op(do, of, order) == [do |-> do, of |-> of, order |-> order]
Late == Cardinality(Folder) + Cardinality(Draft)

\* Mutant: folders are deleted before the others are moved out of them.
RequestsDeleteFirst(m) ==
  LET F == m.folders
      new == DOMAIN F \cap Draft
      gone == DOMAIN m.original \ DOMAIN F IN
  {Op("delete", f, 0) : f \in gone}
  \cup {Op("create", f, 1 + Depth(F, new, f)) : f \in new}
  \cup {Op("update", f, Late + 1) : f \in {g \in DOMAIN F \cap DOMAIN m.original : F[g] # m.original[g]}}
  \cup {Op("move", w, Late + 2) : w \in {v \in DOMAIN m.homes : m.homes[v] # m.originalHomes[v]}}
  \cup {Op("drop", w, Late + 3) : w \in DOMAIN m.originalHomes \ (DOMAIN m.homes \cup {Default})}

Requests(m) ==
  LET F == m.folders
      new == DOMAIN F \cap Draft
      gone == DOMAIN m.original \ DOMAIN F IN
  {Op("create", f, Depth(F, new, f)) : f \in new}
  \cup {Op("update", f, Late) : f \in {g \in DOMAIN F \cap DOMAIN m.original : F[g] # m.original[g]}}
  \cup {Op("move", w, Late + 1) : w \in {v \in DOMAIN m.homes : m.homes[v] # m.originalHomes[v]}}
  \cup {Op("drop", w, Late + 2) : w \in DOMAIN m.originalHomes \ (DOMAIN m.homes \cup {Default})}
  \cup {Op("delete", f, 2 * Late + 2 - Depth(m.original, gone, f)) : f \in gone}

\* Every folder of the draft lies in a folder of the draft.  An editor whose parent was
\* removed by the Delete key can put one elsewhere.
Whole(m) == \A f \in DOMAIN m.folders : m.folders[f].parent \in DOMAIN m.folders \cup {Top}

\* The draft of the moment is what is saved; Ctrl+S commits the open editor first.
SaveDraft ==
  /\ Mouse /\ manage.editor = None /\ Changed
  /\ Do([manage EXCEPT !.busy = TRUE, !.todo = Requests(manage), !.ids = [d \in Draft |-> None],
           !.torn = @ \/ ~Whole(manage),
           !.plan = [folders |-> manage.folders, homes |-> manage.homes]])

\* resolveFolderRef
Ref(f) == IF f \in Draft THEN manage.ids[f] ELSE f

Fails(m) ==
  /\ manage' = [m EXCEPT !.busy = FALSE, !.todo = {}, !.torn = TRUE]
  /\ UNCHANGED <<tree, homes>>

Home(f) == [name |-> manage.plan.folders[f].name, parent |-> Ref(manage.plan.folders[f].parent)]

\* What the server refuses
Refused(op) ==
  CASE op.do = "create" -> NameTaken(tree, Home(op.of).name, Home(op.of).parent, None)
    [] op.do = "update" -> \/ op.of \notin DOMAIN tree
                           \/ Home(op.of).parent \in Under(tree, op.of)
                           \/ NameTaken(tree, Home(op.of).name, Home(op.of).parent, op.of)
    [] op.do \in {"move", "drop"} -> op.of \notin DOMAIN homes
    [] OTHER -> op.of \notin DOMAIN tree

\* A deletion takes the folders under it along and frees their workspaces.
Delete(f) ==
  LET gone == Under(tree, f) IN
  /\ tree' = Restrict(tree, DOMAIN tree \ gone)
  /\ homes' = [w \in DOMAIN homes |-> IF homes[w] \in gone THEN Top ELSE homes[w]]

\* The requests go out one after the other; new is the id the server gives.
Request(op, new) ==
  /\ manage.busy /\ op \in manage.todo /\ \A o \in manage.todo : op.order <= o.order
  /\ ~Refused(op) /\ new \in Folder \ (DOMAIN tree \cup manage.given)
  /\ manage' = [manage EXCEPT !.todo = @ \ {op},
                  !.given = IF op.do = "create" THEN @ \cup {new} ELSE @,
                  !.ids = IF op.do = "create" THEN [@ EXCEPT ![op.of] = new] ELSE @]
  /\ CASE op.do = "create" -> /\ tree' = [g \in DOMAIN tree \cup {new} |->
                                            IF g = new THEN Home(op.of) ELSE tree[g]]
                              /\ UNCHANGED homes
       [] op.do = "update" -> tree' = [tree EXCEPT ![op.of] = Home(op.of)] /\ UNCHANGED homes
       [] op.do = "move" -> homes' = [homes EXCEPT ![op.of] = Ref(manage.plan.homes[op.of])]
                            /\ UNCHANGED tree
       [] op.do = "drop" -> homes' = Restrict(homes, DOMAIN homes \ {op.of}) /\ UNCHANGED tree
       [] OTHER -> Delete(op.of)

\* The save ends where it is, with the draft and the lists it started from as they were.
RequestRefused(op) ==
  /\ manage.busy /\ op \in manage.todo /\ \A o \in manage.todo : op.order <= o.order
  /\ Refused(op) /\ Fails(manage)

RequestLost ==
  /\ manage.busy /\ manage.todo # {} /\ manage.faults < MaxFaults
  /\ Fails([manage EXCEPT !.faults = @ + 1])

SaveDone ==
  /\ manage.busy /\ manage.todo = {}
  /\ LET kept == {Ref(f) : f \in DOMAIN manage.plan.folders} IN
     manage' = [Closed(manage) EXCEPT
       !.saved = TRUE,
       !.shown = [g \in kept |-> Home(CHOOSE f \in DOMAIN manage.plan.folders : Ref(f) = g)],
       !.shownHomes = [w \in DOMAIN manage.plan.homes |-> Ref(manage.plan.homes[w])]]
  /\ UNCHANGED <<tree, homes>>

Next ==
  \/ Open \/ RequestClose \/ CancelEditor \/ RemoveSelected \/ SaveDraft \/ RequestLost \/ SaveDone
  \/ \E k \in Folder \cup Draft \cup Work :
       \/ SelectItem(k) \/ StartEditFolder(k) \/ RemoveFolder(k) \/ RemoveWorkspace(k)
       \/ \E p \in Folder \cup Draft \cup {Top} : MoveItemKeys(k, p)
  \/ \E p \in Folder \cup Draft \cup {Top} : StartCreateFolder(p) \/ SelectParent(p)
  \/ \E name \in Name, d \in Draft : CommitEditor(name, d)
  \/ \E op \in manage.todo : RequestRefused(op) \/ \E new \in Folder : Request(op, new)

-----------------------------------------------------------------------------
\* Whatever was moved before a folder was deleted, in whatever order, and wherever a save
\* of a whole draft broke off: a stored folder or workspace is gone from the server only
\* if the user removed it, or a folder it lay in, in the dialog.
OnlyRemovedIsGone ==
  manage.torn \/ (Known \cup Work) \ (DOMAIN tree \cup DOMAIN homes) \subseteq manage.removed

\* A save that ends well leaves the lists of the page, and the server, as the draft had
\* it, unless an earlier one broke off and left something behind.
SavedTreeIsShown ==
  manage.saved /\ ~manage.torn => manage.shown = tree /\ manage.shownHomes = homes
=============================================================================
