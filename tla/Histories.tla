----------------------------- MODULE Histories -----------------------------
(***************************************************************************)
(* The two histories: runs of chips and workspaces                         *)
(* (ui/src/pages/WorkspaceRunsPage.tsx) and exports (ExportHistoryPage).   *)
(* Both read their list again and again, in a loop the effect of the page  *)
(* starts and stops, and both show the log of a row in a dialog that is    *)
(* read again and again too.                                               *)
(*                                                                         *)
(* history is the state of the page, its fields named as in the source:    *)
(*   tab, selectedId   the tab, and the execution whose steps are open     *)
(*   rows     the rows on the page                                         *)
(*   loops    the loops of the list: [id, at, stopped], at "list" while    *)
(*           the request is under way and "timer" between two              *)
(*   refreshes   lists that were asked for by the button                   *)
(*   logRun, logText   the row whose log is open, and whose text is shown  *)
(*   logAt    where the loop of the log is: of which row, and at what      *)
(* ran is the server's: the rows there are.                                *)
(***************************************************************************)
EXTENDS Naturals, FiniteSets

CONSTANTS
  Run,        \* runs or exports
  MaxLoops,   \* bound on the loops that are ever started
  MaxClicks,  \* bound on what the user does
  None

VARIABLES history, ran
vars == <<history, ran>>

Loop(id) == [id |-> id, at |-> "list", stopped |-> FALSE]

Init ==
  /\ ran \in SUBSET Run
  /\ \E kind \in {"runs", "exports"}, tab \in {"chip", "workspace"} :
       history = [kind |-> kind, tab |-> tab, left |-> FALSE, selectedId |-> None, rows |-> {}, loading |-> TRUE,
                  loops |-> {Loop(1)}, started |-> 1, refreshes |-> 0, logRun |-> None, logText |-> None,
                  logAt |-> {}, clicks |-> 0]

Do(q) == ~history.left /\ history.clicks < MaxClicks /\ history' = [q EXCEPT !.clicks = @ + 1] /\ UNCHANGED ran

\* External: runs are added, and history is cleaned up.
Serve(r) == ~history.left /\ ran' = (IF r \in ran THEN ran \ {r} ELSE ran \cup {r}) /\ UNCHANGED history

-----------------------------------------------------------------------------
(* The list                                                                *)

\* A list shows what the server had at some time of the request, here at its end; the
\* silent ones change nothing on an error.
Listed(q, loud) == {[q EXCEPT !.rows = ran, !.loading = IF loud THEN FALSE ELSE @],
                    [q EXCEPT !.loading = IF loud THEN FALSE ELSE @]}

\* The request of a loop that was stopped still answers, but no timer follows.
Polled(l) == IF l.stopped THEN [l EXCEPT !.at = "off"] ELSE [l EXCEPT !.at = "timer"]

PollAnswer(l) ==
  /\ ~history.left /\ l \in history.loops /\ l.at = "list" /\ UNCHANGED ran
  /\ history' \in Listed([history EXCEPT !.loops = (@ \ {l}) \cup {Polled(l)}], l.id = history.started)

PollTimer(l) ==
  /\ ~history.left /\ l \in history.loops /\ l.at = "timer" /\ UNCHANGED ran
  /\ history' = [history EXCEPT !.loops = (@ \ {l}) \cup {[l EXCEPT !.at = "list"]}]

\* The clean-up of the effect: the timer is cleared.
Stop(l) == [l EXCEPT !.stopped = TRUE, !.at = IF @ = "timer" THEN "off" ELSE @]

\* Another language makes another refresh, and so starts both effects anew.
Relabel ==
  /\ history.started < MaxLoops
  /\ Do([history EXCEPT !.loops = {Stop(l) : l \in @} \cup {Loop(history.started + 1)}, !.started = @ + 1,
                        !.loading = TRUE, !.logText = None,
                        !.logAt = IF history.logRun = None THEN {} ELSE {[of |-> history.logRun, at |-> "read"]}])

Refresh ==
  /\ ~history.loading /\ history.logRun = None /\ history.selectedId = None
  /\ Do([history EXCEPT !.refreshes = @ + 1, !.loading = TRUE])
RefreshAnswer ==
  /\ ~history.left /\ history.refreshes > 0 /\ UNCHANGED ran
  /\ history' \in Listed([history EXCEPT !.refreshes = @ - 1], TRUE)

-----------------------------------------------------------------------------
(* The log of a row                                                        *)

\* A new row stops the loop of the one before, and what it is still reading no longer counts.
WithLog(q, r) ==
  [q EXCEPT !.logRun = r, !.logText = None, !.logAt = IF r = None THEN {} ELSE {[of |-> r, at |-> "read"]}]

\* The dialog of the steps stays open below the log.
ViewLog(r) ==
  /\ history.logRun = None /\ r \in history.rows
  /\ history.selectedId = None => ~history.loading
  /\ Do(WithLog(history, r))
CloseLog == history.logRun # None /\ Do(WithLog(history, None))

LogAnswer(a) ==
  /\ ~history.left /\ a \in history.logAt /\ a.at = "read" /\ UNCHANGED ran
  /\ history' \in {[history EXCEPT !.logText = text, !.logAt = (@ \ {a}) \cup {[a EXCEPT !.at = "timer"]}] :
                     text \in {a.of, "empty"}}
LogTimer(a) ==
  /\ ~history.left /\ a \in history.logAt /\ a.at = "timer" /\ UNCHANGED ran
  /\ history' = [history EXCEPT !.logAt = (@ \ {a}) \cup {[a EXCEPT !.at = "read"]}]

-----------------------------------------------------------------------------
(* The tabs of the runs                                                    *)

\* A click or an arrow key; what is open is closed.
SelectTab(tab) ==
  /\ history.kind = "runs" /\ history.logRun = None /\ history.selectedId = None
  /\ Do([WithLog(history, None) EXCEPT !.tab = tab, !.selectedId = None])

\* A link from elsewhere names the tab, and closes what is open just so.
LinkTo(tab) ==
  history.kind = "runs" /\ Do([WithLog(history, None) EXCEPT !.tab = tab, !.selectedId = None])

SelectRun(r) ==
  /\ history.kind = "runs" /\ history.tab = "workspace" /\ history.logRun = None /\ r \in history.rows
  /\ history.selectedId = None /\ ~history.loading /\ Do([history EXCEPT !.selectedId = r])
CloseRun == history.selectedId # None /\ history.logRun = None /\ Do([history EXCEPT !.selectedId = None])

\* The dialog of an execution is open while the execution is listed.
SelectedRun == IF history.selectedId \in history.rows THEN history.selectedId ELSE None

Leave == Do([history EXCEPT !.left = TRUE])

Next ==
  \/ \E r \in Run : Serve(r) \/ ViewLog(r) \/ SelectRun(r)
  \/ \E l \in history.loops : PollAnswer(l) \/ PollTimer(l)
  \/ \E a \in history.logAt : LogAnswer(a) \/ LogTimer(a)
  \/ \E tab \in {"chip", "workspace"} : SelectTab(tab) \/ LinkTo(tab)
  \/ Relabel \/ Refresh \/ RefreshAnswer \/ CloseLog \/ CloseRun \/ Leave

-----------------------------------------------------------------------------
\* However rows are opened and closed while logs are being read, the text in the dialog
\* is of the row in its title.
LogIsOfItsRow ==
  /\ history.logRun # None => history.logText \in {None, "empty", history.logRun}
  /\ \A a \in history.logAt : a.of = history.logRun

\* As long as the page is there, one loop reads the list, never two and never none.
OneListLoop ==
  ~history.left => Cardinality({l \in history.loops : ~l.stopped /\ l.at # "off"}) = 1
                   /\ \A l \in history.loops : l.stopped => l.at # "timer"
=============================================================================
