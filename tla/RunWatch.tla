------------------------------ MODULE RunWatch ------------------------------
(***************************************************************************)
(* Running from the canvas (ui/src/pages/WorkspacePage.tsx): the handlers  *)
(* that start a run and wait for it, the poll that keeps the runs on the   *)
(* page current, the stop buttons and the dialogs of the log and the       *)
(* report.  A workspace has one chip here, and a run is of all of it       *)
(* ("all") or of the chip alone.                                           *)
(*                                                                         *)
(* watch is the state of the page, its fields named as in the source:      *)
(*   ws       currentWorkspaceRef                                          *)
(*   shown, latest   the runs on the page, and latestWorkspaceRun          *)
(*   pending, busy   workspaceRunPending and busy                          *)
(*   load     whether the load effect waits for the runs                   *)
(*   poll     where the poll of the effect is: at its "timer", at "list",  *)
(*            or at "data" with the list it is going to show               *)
(*   handler  what a button started: kind, the workspace it was started    *)
(*            on, the run, the status that was found, and the await it is  *)
(*            at; of all the handlers of the page that may overlap         *)
(*   report, log    the run in the report, and the run whose log is open   *)
(* runs is the server's: every run by number, [of, by, status].            *)
(***************************************************************************)
EXTENDS Naturals, Sequences, FiniteSets

CONSTANTS
  Workspace,   \* workspaces
  MaxRuns,     \* bound on the runs that are ever started
  MaxClicks,   \* bound on what the user does
  MaxFaults,   \* bound on the requests that fail
  None

VARIABLES watch, runs
vars == <<watch, runs>>

Ended == {"succeeded", "failed", "canceled"}
RunOf(w) == {i \in DOMAIN runs : runs[i].of = w}
Newest(ids) == IF ids = {} THEN None ELSE CHOOSE i \in ids : \A j \in ids : j <= i

\* What a list request finds: the runs, and the newest of the whole workspace.
List(w) == [shown |-> {[id |-> i, by |-> runs[i].by, status |-> runs[i].status] : i \in RunOf(w)},
            latest |-> Newest({i \in RunOf(w) : runs[i].by = "all"})]

ActiveShown(q) == {r \in q.shown : r.status = "active"}
HasActiveRun(q) == ActiveShown(q) # {}
CanStop(q) == q.pending \/ \E r \in ActiveShown(q) : r.by = "all"

Init ==
  \E w \in Workspace :
    /\ runs = <<>>
    /\ watch = [ws |-> w, shown |-> {}, latest |-> None, pending |-> FALSE, busy |-> FALSE, load |-> TRUE,
                poll |-> None, handlers |-> {}, report |-> None, log |-> None, clicks |-> 0, faults |-> 0]

\* The effect of the poll, which starts with the first active run that is shown and
\* stops with the last, or with the workspace.
Polled(q) ==
  IF ~HasActiveRun(q) THEN [q EXCEPT !.poll = None]
  ELSE IF q.poll # None THEN q ELSE [q EXCEPT !.poll = [at |-> "timer", list |-> None]]

ApplyRunList(q, list) == Polled([q EXCEPT !.shown = list.shown, !.latest = list.latest])

Free == watch.clicks < MaxClicks
Do(q) == Free /\ watch' = [q EXCEPT !.clicks = @ + 1]
Answer(q) == watch' = q
Fails(q) == watch.faults < MaxFaults /\ watch' = [q EXCEPT !.faults = @ + 1]

-----------------------------------------------------------------------------
(* The server: runs end, are canceled, and are started by others           *)

Started(w, by) == Append(runs, [of |-> w, by |-> by, status |-> "active"])
MayStart(w) == Len(runs) < MaxRuns /\ \A i \in RunOf(w) : runs[i].status # "active"

End(i, status) == runs[i].status = "active" /\ runs' = [runs EXCEPT ![i].status = status] /\ UNCHANGED watch
Elsewhere(w) == MayStart(w) /\ runs' = Started(w, "all") /\ UNCHANGED watch

-----------------------------------------------------------------------------
(* The workspace that is shown                                             *)

\* What was shown stays until the runs of the new workspace are there.
Open(w) ==
  /\ w # watch.ws /\ UNCHANGED runs
  /\ Do(Polled([watch EXCEPT !.ws = w, !.busy = FALSE, !.load = TRUE, !.poll = None]))

\* A pin, or another language, starts the effects of the page anew.
Relabel == UNCHANGED runs /\ Do(Polled([watch EXCEPT !.busy = FALSE, !.load = TRUE, !.poll = None]))

LoadAnswer ==
  /\ watch.load /\ UNCHANGED runs
  /\ \/ Answer([ApplyRunList(watch, List(watch.ws)) EXCEPT !.load = FALSE])
     \/ Fails([watch EXCEPT !.load = FALSE])

PollTimer ==
  /\ watch.poll # None /\ watch.poll.at = "timer" /\ UNCHANGED runs
  /\ Answer([watch EXCEPT !.poll.at = "list"])

\* The last list is shown when the files of the runs are there too.
PollAnswer ==
  /\ watch.poll # None /\ watch.poll.at = "list" /\ UNCHANGED runs
  /\ LET list == List(watch.ws) IN
     \/ /\ HasActiveRun(list)
        /\ Answer(ApplyRunList([watch EXCEPT !.poll.at = "timer"], list))
     \/ ~HasActiveRun(list) /\ Answer([watch EXCEPT !.poll = [at |-> "data", list |-> list]])
     \/ Fails([watch EXCEPT !.poll.at = "timer"])
PollData ==
  /\ watch.poll # None /\ watch.poll.at = "data" /\ UNCHANGED runs
  /\ \/ Answer(ApplyRunList(watch, watch.poll.list))
     \/ Fails([watch EXCEPT !.poll = [at |-> "timer", list |-> None]])

-----------------------------------------------------------------------------
(* A run from its button to its report                                     *)

Handler(kind) == [kind |-> kind, of |-> watch.ws, run |-> None, status |-> None, at |-> "ask"]
Moved(h, at) == [watch EXCEPT !.handlers = (@ \ {h}) \cup {[h EXCEPT !.at = at]}]
Away(h) == watch.ws # h.of

\* Finally the buttons are given back, on whatever workspace the page is by then.
Done(q, h) ==
  [q EXCEPT !.handlers = @ \ {h}, !.busy = FALSE, !.pending = IF h.kind = "all" THEN FALSE ELSE @]

NoDialog == \A h \in watch.handlers : h.at # "ask"
\* The button starts while nothing is busy; the one of the page asks first.
RunWorkspace ==
  /\ NoDialog /\ ~watch.busy /\ ~CanStop(watch) /\ watch.report = None /\ watch.log = None /\ UNCHANGED runs
  /\ Do([watch EXCEPT !.handlers = @ \cup {Handler("all")}])
RunSingleChip ==
  /\ NoDialog /\ ~watch.busy /\ watch.report = None /\ watch.log = None /\ UNCHANGED runs
  /\ ~HasActiveRun(watch)
  /\ Do([watch EXCEPT !.busy = TRUE, !.handlers = @ \cup {[Handler("chip") EXCEPT !.at = "post"]}])

Confirm(h, yes) ==
  /\ h.at = "ask" /\ UNCHANGED runs
  /\ IF yes /\ ~Away(h)
     THEN Answer([Moved(h, "post") EXCEPT !.busy = TRUE, !.pending = TRUE])
     ELSE Answer([watch EXCEPT !.handlers = @ \ {h}])

\* The catch of a run of the workspace looks for what it left; one of a chip tells.
Caught(h) == IF h.kind = "chip" \/ Away(h) THEN Done(watch, h) ELSE Moved(h, "catch")

\* The server refuses a second run of the workspace; an answer may be lost.
Post(h) ==
  /\ h.at = "post"
  /\ IF MayStart(h.of)
     THEN /\ runs' = Started(h.of, h.kind)
          /\ \/ Answer([watch EXCEPT !.handlers = (@ \ {h}) \cup {[h EXCEPT !.at = "check", !.run = Len(runs')]}])
             \/ Fails(Caught(h))
     ELSE UNCHANGED runs /\ Answer(Caught(h))

\* A turn of the loop begins with the question whether the page is still there.
Check(h) ==
  /\ h.at = "check" /\ UNCHANGED runs
  /\ Answer(IF Away(h) THEN Done(watch, h) ELSE Moved(h, "wait"))

\* The answer is shown without asking again.  A run of all is known by its number, one of
\* a chip is the first of the list.
Waited(h) ==
  /\ h.at = "wait" /\ UNCHANGED runs
  /\ \/ LET run == IF h.kind = "all" THEN h.run ELSE Newest(RunOf(h.of))
            q == ApplyRunList(watch, List(h.of))
        IN  Answer([q EXCEPT !.handlers = (@ \ {h}) \cup
              {IF runs[run].status = "active" THEN [h EXCEPT !.at = "check"]
               ELSE [h EXCEPT !.at = "found", !.status = runs[run].status]}])
     \/ Fails(Caught(h))

Found(h) ==
  /\ h.at = "found" /\ UNCHANGED runs
  /\ Answer(IF Away(h) THEN Done(watch, h) ELSE Moved(h, "list"))
Listed(h) ==
  /\ h.at = "list" /\ UNCHANGED runs
  /\ \/ LET q == ApplyRunList(watch, List(h.of))
            run == IF h.kind = "all" THEN h.run ELSE Newest(RunOf(h.of))
        IN  Answer([q EXCEPT !.handlers = (@ \ {h}) \cup {[h EXCEPT !.at = "report", !.run = run]}])
     \/ Fails(Caught(h))

\* Whatever becomes of the files, the report is shown.
PresentRunReport(h) ==
  /\ h.at = "report" /\ UNCHANGED runs
  /\ Answer([Done(watch, h) EXCEPT !.report = [kind |-> h.kind, of |-> h.of, run |-> h.run, status |-> h.status]])

\* After an error the new runs of the workspace are reported as failed.
Catch(h) ==
  /\ h.at = "catch" /\ UNCHANGED runs
  /\ \/ LET q == ApplyRunList(watch, List(h.of)) IN
        Answer(IF h.run = None THEN Done(q, h)
               ELSE [q EXCEPT !.handlers = (@ \ {h}) \cup {[h EXCEPT !.at = "report", !.status = "failed"]}])
     \/ Fails(Done(watch, h))

CloseReport == watch.report # None /\ UNCHANGED runs /\ Answer([watch EXCEPT !.report = None])

-----------------------------------------------------------------------------
(* Stop, and the log                                                       *)

\* The active run that is shown, or else the one the server knows of.
StopWorkspace ==
  /\ NoDialog /\ CanStop(watch) /\ watch.report = None /\ watch.log = None
  /\ LET known == {r.id : r \in {s \in ActiveShown(watch) : s.id = watch.latest}}
         found == {i \in RunOf(watch.ws) : runs[i].by = "all" /\ runs[i].status = "active"}
         stopped == (IF known # {} THEN known ELSE found) \cap found
     IN  runs' = [i \in DOMAIN runs |-> IF i \in stopped THEN [runs[i] EXCEPT !.status = "canceled"] ELSE runs[i]]
  /\ Do(watch)

StopChip ==
  /\ NoDialog /\ HasActiveRun(watch) /\ watch.report = None /\ watch.log = None
  /\ LET run == Newest({r.id : r \in watch.shown}) IN
     runs' = [i \in DOMAIN runs |-> IF i = run /\ runs[i].status = "active" /\ run \in {r.id : r \in ActiveShown(watch)}
                                    THEN [runs[i] EXCEPT !.status = "canceled"] ELSE runs[i]]
  /\ Do(watch)

OpenChipRunLog ==
  /\ NoDialog /\ watch.log = None /\ watch.shown # {} /\ UNCHANGED runs
  /\ Do([watch EXCEPT !.log = Newest({r.id : r \in watch.shown})])
CloseLog == watch.log # None /\ UNCHANGED runs /\ Answer([watch EXCEPT !.log = None])

Next ==
  \/ \E i \in DOMAIN runs, status \in Ended : End(i, status)
  \/ \E w \in Workspace : Elsewhere(w) \/ Open(w)
  \/ \E h \in watch.handlers :
       \/ \E yes \in BOOLEAN : Confirm(h, yes)
       \/ Post(h) \/ Check(h) \/ Waited(h) \/ Found(h) \/ Listed(h) \/ PresentRunReport(h) \/ Catch(h)
  \/ Relabel \/ LoadAnswer \/ PollTimer \/ PollAnswer \/ PollData
  \/ RunWorkspace \/ RunSingleChip \/ CloseReport \/ StopWorkspace \/ StopChip \/ OpenChipRunLog \/ CloseLog

-----------------------------------------------------------------------------
\* As long as the page shows a run that is under way, its poll is there to find out
\* how it ended, whatever requests fail and whatever else shows a list meanwhile.
ActiveIsWatched == HasActiveRun(watch) => watch.poll # None

\* The button of the page says "stop" for a run that somebody waits for, and a busy page
\* has a handler that gives it back.
ButtonsAreOwed ==
  /\ watch.pending => \E h \in watch.handlers : h.kind = "all" /\ h.at # "ask"
  /\ watch.busy => \E h \in watch.handlers : h.at # "ask"

\* A report is of a run that has ended, and says of a run of all how it did, however many
\* runs others start while the lists for it are read.
ReportIsOfAnEnd ==
  watch.report # None => watch.report.status \in Ended
                         /\ (watch.report.kind = "all" /\ watch.report.status # "failed"
                             => runs[watch.report.run].status = watch.report.status)
=============================================================================
