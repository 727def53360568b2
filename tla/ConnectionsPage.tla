--------------------------- MODULE ConnectionsPage ---------------------------
(***************************************************************************)
(* The page of connections (ui/src/pages/ConnectionsPage.tsx): a list with *)
(* a test and a catalog for each, a form for a new one, a dialog that      *)
(* edits one, and over them the dialog with the authentication of an API.  *)
(*                                                                         *)
(* connect is the state of the page, its fields named as in the source:    *)
(*   list     what useConnections read last                                *)
(*   editing  the connection being edited, with the authentication the     *)
(*            list gave for it (auth) and whether it was opened from the   *)
(*            pane of its details (pane)                                   *)
(*   newAuth, editAuth   newAppliedAuth and editAppliedAuth                *)
(*   asks     requests that were not answered, [kind, of, auth, meant]     *)
(*   meant    the authentication the user last gave each connection        *)
(*   slipped  connections saved from the pane or from an old list (history)*)
(* stored is the authentication of each connection on the server; None is  *)
(* one that has none, as the ones of databases are.                        *)
(***************************************************************************)
EXTENDS Naturals

CONSTANTS
  Conn,       \* connections, stored and new
  Http,       \* those of APIs
  Table,      \* tables of a catalog
  Auth,       \* authentications of an API
  MaxClicks,  \* bound on what the user does
  None

VARIABLES connect, stored
vars == <<connect, stored>>

Absent == "absent"
Ask(kind, of, auth, meant) == [kind |-> kind, of |-> of, auth |-> auth, meant |-> meant]

Init ==
  /\ stored \in [Conn -> {None, Absent} \cup Auth]
  /\ \A c \in Conn \ Http : stored[c] \notin Auth
  /\ connect = [list |-> stored, driver |-> "db", newAuth |-> None, editAuth |-> None,
                authDialog |-> None, browseId |-> None, selected |-> None,
                columns |-> None, expanded |-> FALSE, editing |-> None, saving |-> FALSE,
                editSaving |-> FALSE, testingId |-> None, testStatus |-> [c \in Conn |-> "none"],
                asks |-> {}, meant |-> stored, slipped |-> {}, clicks |-> 0]

Do(q) == connect.clicks < MaxClicks /\ connect' = [q EXCEPT !.clicks = @ + 1] /\ UNCHANGED stored
Answer(a) == a \in connect.asks
Without(a) == [connect EXCEPT !.asks = @ \ {a}]
Listed(c) == connect.list[c] # Absent
NoModal == connect.editing = None /\ connect.authDialog = None /\ ~connect.expanded

-----------------------------------------------------------------------------
(* The list: browse, test, delete                                          *)

Unbrowsed(q) == [q EXCEPT !.browseId = None, !.selected = None, !.columns = None, !.expanded = FALSE]

OnBrowse(c) ==
  /\ NoModal /\ Listed(c)
  /\ Do([Unbrowsed(connect) EXCEPT !.browseId = IF connect.browseId = c THEN None ELSE c])

OnSelectTable(t) ==
  /\ NoModal /\ connect.browseId # None /\ connect.browseId \notin Http /\ Listed(connect.browseId)
  /\ IF t = None THEN Do([connect EXCEPT !.selected = None, !.columns = None, !.expanded = FALSE])
     ELSE Do([connect EXCEPT !.selected = t,
                !.asks = @ \cup {Ask("columns", <<connect.browseId, t>>, None, None)}])

ColumnsAnswer(a) ==
  /\ Answer(a) /\ a.kind = "columns"
  /\ connect' \in {[Without(a) EXCEPT !.columns = c] : c \in {a.of, None}} /\ UNCHANGED stored

Expand == NoModal /\ connect.selected # None /\ Do([connect EXCEPT !.expanded = TRUE])
CloseExpanded == connect.expanded /\ Do([connect EXCEPT !.expanded = FALSE])

\* One test at a time is shown as running; the others go on unseen.
OnTest(c) ==
  /\ NoModal /\ Listed(c) /\ connect.testingId # c
  /\ Do([connect EXCEPT !.testingId = c, !.asks = @ \cup {Ask("test", c, None, None)}])

TestAnswer(a, status) ==
  /\ Answer(a) /\ a.kind = "test" /\ UNCHANGED stored
  /\ connect' = [Without(a) EXCEPT !.testingId = None, !.testStatus[a.of] = status]

OnDelete(c) ==
  /\ NoModal /\ Listed(c)
  /\ Do([connect EXCEPT !.asks = @ \cup {Ask("delete", c, connect.browseId, None)}])

\* The answer compares with the connection that was open when the button was pressed.
DeleteAnswer(a) ==
  /\ Answer(a) /\ a.kind = "delete"
  /\ \/ /\ stored' = [stored EXCEPT ![a.of] = Absent]
        /\ LET gone == [Without(a) EXCEPT !.meant[a.of] = Absent,
                                          !.asks = @ \cup {Ask("list", None, None, None)}] IN
           connect' = IF a.auth = a.of THEN Unbrowsed(gone) ELSE gone
     \/ connect' = Without(a) /\ UNCHANGED stored   \* still used, or an error

RefreshConnections(a) ==
  /\ Answer(a) /\ a.kind = "list" /\ UNCHANGED stored
  /\ connect' \in {Without(a), [Without(a) EXCEPT !.list = stored]}

-----------------------------------------------------------------------------
(* The form for a new connection and the dialog that edits one             *)

\* Changing between DB and API forgets what was applied.
PickDriver(d) ==
  /\ NoModal /\ d # connect.driver
  /\ Do([connect EXCEPT !.driver = d, !.newAuth = None])

OnSave(c) ==
  /\ NoModal /\ ~connect.saving /\ stored[c] = Absent /\ (c \in Http <=> connect.driver = "http")
  /\ \A a \in connect.asks : a.kind = "create" => a.of # c
  /\ Do([connect EXCEPT !.saving = TRUE, !.asks = @ \cup {Ask("create", c, connect.newAuth, None)}])

\* saving stays until the list is read again; here the two answers are one.
CreateAnswer(a) ==
  /\ Answer(a) /\ a.kind = "create"
  /\ \/ /\ stored' = [stored EXCEPT ![a.of] = a.auth]
        /\ connect' = [Without(a) EXCEPT !.newAuth = None, !.saving = FALSE, !.meant[a.of] = a.auth,
                                         !.asks = @ \cup {Ask("list", None, None, None)}]
     \/ connect' = [Without(a) EXCEPT !.saving = FALSE] /\ UNCHANGED stored

\* The pencil of a row
OpenEdit(c) ==
  /\ NoModal /\ Listed(c)
  /\ Do([connect EXCEPT !.editing = [of |-> c, auth |-> connect.list[c], pane |-> FALSE],
                        !.editAuth = IF c \in Http THEN connect.list[c] ELSE None])

\* The button of the pane of details gives the dialog nothing to start from.
OpenEditFromPane ==
  /\ NoModal /\ connect.browseId \in Http /\ Listed(connect.browseId)
  /\ LET c == connect.browseId IN
     Do([connect EXCEPT !.editing = [of |-> c, auth |-> connect.list[c], pane |-> TRUE]])

CloseEdit ==
  /\ connect.editing # None /\ connect.authDialog = None
  /\ Do([connect EXCEPT !.editing = None, !.editAuth = None])

OpenAuth ==
  /\ ~connect.expanded /\ connect.authDialog = None
  /\ IF connect.editing # None
     THEN connect.editing.of \in Http /\ Do([connect EXCEPT !.authDialog = "edit"])
     ELSE connect.driver = "http" /\ Do([connect EXCEPT !.authDialog = "create"])

CloseAuth == connect.authDialog # None /\ Do([connect EXCEPT !.authDialog = None])

\* A password that is left empty keeps the one there is, so the choice of the mode and
\* its fields is what is applied.
OnApplyAuth(auth) ==
  /\ connect.authDialog # None
  /\ IF connect.authDialog = "edit"
     THEN Do([connect EXCEPT !.authDialog = None, !.editAuth = auth,
                             !.editing.auth = auth, !.editing.pane = FALSE])
     ELSE Do([connect EXCEPT !.authDialog = None, !.newAuth = auth])

OnUpdate ==
  /\ connect.editing # None /\ connect.authDialog = None /\ ~connect.editSaving
  /\ LET e == connect.editing IN
     Do([connect EXCEPT !.editSaving = TRUE, !.slipped = IF e.pane THEN @ \cup {e.of} ELSE @,
           !.asks = @ \cup {Ask("update", e.of, connect.editAuth, e.auth)}])

\* The answer closes whatever is being edited by then.
UpdateAnswer(a) ==
  /\ Answer(a) /\ a.kind = "update"
  /\ \/ /\ stored[a.of] # Absent
        /\ stored' = [stored EXCEPT ![a.of] = a.auth]
        /\ connect' = [Without(a) EXCEPT
             !.editing = None, !.editAuth = None, !.editSaving = FALSE,
             !.authDialog = None, !.meant[a.of] = a.meant,
             !.asks = @ \cup {Ask("list", None, None, None)}]
     \/ connect' = [Without(a) EXCEPT !.editSaving = FALSE] /\ UNCHANGED stored

Next ==
  \/ \E c \in Conn :
       \/ OnBrowse(c) \/ OnTest(c) \/ OnDelete(c) \/ OnSave(c) \/ OpenEdit(c)
  \/ \E t \in Table \cup {None} : OnSelectTable(t)
  \/ \E d \in {"db", "http"} : PickDriver(d)
  \/ \E auth \in Auth \cup {None} : OnApplyAuth(auth)
  \/ Expand \/ CloseExpanded \/ OpenEditFromPane \/ CloseEdit \/ OpenAuth \/ CloseAuth \/ OnUpdate
  \/ \E a \in connect.asks :
       \/ ColumnsAnswer(a) \/ DeleteAnswer(a) \/ RefreshConnections(a) \/ CreateAnswer(a) \/ UpdateAnswer(a)
       \/ \E status \in {"ok", "fail"} : TestAnswer(a, status)

-----------------------------------------------------------------------------
\* Editing one connection after another, with answers that come late and dialogs that
\* close under the user: what is stored of a connection is the authentication that was
\* applied to it or that the list showed when it was edited, never that of another one.
\* An edit that begins in the pane of details is the exception: it erases it.
AuthIsItsOwn ==
  \A c \in Conn : stored[c] = connect.meant[c] \/ c \in connect.slipped
=============================================================================
