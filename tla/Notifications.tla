--------------------------- MODULE Notifications ---------------------------
(***************************************************************************)
(* Questions, toasts and dialogs of the console: lib/notifications.ts,     *)
(* components/GlobalNotifications.tsx and components/AppDialog.tsx.        *)
(*                                                                         *)
(* Questions and toasts are numbered in the order in which they are asked  *)
(* and shown.  A dialog is drawn (visible) some time after it is opened    *)
(* and taken away some time after it is closed: the view transition.       *)
(***************************************************************************)
EXTENDS Naturals, Sequences, FiniteSets, SequencesExt

CONSTANTS
  PageDialog,    \* dialogs of the pages
  MaxToasts,     \* MAX_TOASTS
  MaxQuestions,  \* bound on the questions asked
  MaxShown,      \* bound on the toasts shown
  MaxOpened      \* bound on the dialogs opened by pages

Notice == "notice"   \* the dialog of GlobalNotifications

VARIABLES
  mounted,    \* GlobalNotifications listens
  early,      \* pendingEvents
  asked,      \* questions so far
  settled,    \* the questions whose promise is settled, in that order
  openCount,  \* openDialogCount
  queue,      \* dialogs
  shown,      \* toasts so far
  toasts, toastTimers,
  open, visibleDialogs, closeStack, opened

questions == <<asked, settled, openCount, queue>>
notes == <<shown, toasts, toastTimers>>
boxes == <<open, visibleDialogs, closeStack, opened>>
vars == <<mounted, early, questions, notes, boxes>>

Init ==
  /\ mounted = FALSE /\ early = <<>>
  /\ asked = 0 /\ settled = <<>> /\ openCount = 0 /\ queue = <<>>
  /\ shown = 0 /\ toasts = <<>> /\ toastTimers = {}
  /\ open = {} /\ visibleDialogs = {} /\ closeStack = <<>> /\ opened = 0

-----------------------------------------------------------------------------
(* publish and its only listener                                           *)

Gone(t) == toasts' = Remove(toasts, t) /\ toastTimers' = toastTimers \ {t}

\* Mutant: the toasts that are pushed out keep their timers.
ShowTimersKept(t) ==
  LET next == Append(toasts, t) IN
  /\ toasts' = IF Len(next) > MaxToasts THEN Tail(next) ELSE next
  /\ toastTimers' = toastTimers \cup {t}

Show(t) ==
  LET next == Append(toasts, t) IN
  IF Len(next) > MaxToasts
  THEN toasts' = Tail(next) /\ toastTimers' = (toastTimers \cup {t}) \ {Head(next)}
  ELSE toasts' = next /\ toastTimers' = toastTimers \cup {t}

Asked(e) == e.type = "question"
Mount ==
  LET numbers(type) == [i \in DOMAIN SelectSeq(early, LAMBDA e : e.type = type) |->
                          SelectSeq(early, LAMBDA e : e.type = type)[i].id]
      late == numbers("toast") IN
  /\ ~mounted /\ mounted' = TRUE /\ early' = <<>>
  /\ queue' = numbers("question")
  /\ toasts' = SubSeq(late, IF Len(late) > MaxToasts THEN Len(late) - MaxToasts + 1 ELSE 1, Len(late))
  /\ toastTimers' = ToSet(toasts')
  /\ UNCHANGED <<asked, settled, openCount, shown, boxes>>

\* showAlert and showConfirm
ShowConfirm ==
  /\ asked < MaxQuestions /\ asked' = asked + 1
  /\ openCount' = openCount + 1
  /\ IF mounted THEN queue' = Append(queue, asked') /\ UNCHANGED early
     ELSE early' = Append(early, [type |-> "question", id |-> asked']) /\ UNCHANGED queue
  /\ UNCHANGED <<mounted, settled, notes, boxes>>

ShowToast ==
  /\ shown < MaxShown /\ shown' = shown + 1
  /\ IF mounted THEN Show(shown') /\ UNCHANGED early
     ELSE early' = Append(early, [type |-> "toast", id |-> shown']) /\ UNCHANGED <<toasts, toastTimers>>
  /\ UNCHANGED <<mounted, questions, boxes>>

\* The cross of a toast, or dismissToast
DismissToast(t) ==
  /\ mounted /\ t \in ToSet(toasts) /\ Gone(t)
  /\ UNCHANGED <<mounted, early, shown, questions, boxes>>

ToastTimer(t) ==
  /\ t \in toastTimers /\ Gone(t)
  /\ UNCHANGED <<mounted, early, shown, questions, boxes>>

-----------------------------------------------------------------------------
(* settleDialog: the buttons, Enter anywhere in the window, the overlay,   *)
(* and Escape through AppDialog                                            *)

\* Mutant: an answer that comes twice, before the page is drawn again, is taken twice.
SettleTwice ==
  /\ settled' = Append(settled, Head(queue)) /\ openCount' = openCount - 1
  /\ queue' = IF Len(queue) > 1 THEN Tail(Tail(queue)) ELSE <<>>
  /\ UNCHANGED asked

Settle ==
  /\ settled' = Append(settled, Head(queue))
  /\ openCount' = IF openCount > 0 THEN openCount - 1 ELSE 0
  /\ queue' = Tail(queue)
  /\ UNCHANGED asked

\* Enter counts from the moment the question is in the queue, drawn or not.
Enter ==
  /\ queue # <<>> /\ Settle
  /\ UNCHANGED <<mounted, early, notes, boxes>>

\* After the last answer the dialog is still drawn for a moment: nothing happens.
Close(d) ==
  IF d # Notice THEN open' = open \ {d} /\ UNCHANGED questions
  ELSE IF queue # <<>> THEN Settle /\ UNCHANGED open
  ELSE UNCHANGED <<questions, open>>

Escape ==
  /\ closeStack # <<>> /\ Close(Last(closeStack))
  /\ UNCHANGED <<mounted, early, notes, visibleDialogs, closeStack, opened>>

\* A button of the dialog or a click beside it
Click(d) ==
  /\ d \in visibleDialogs /\ Close(d)
  /\ UNCHANGED <<mounted, early, notes, visibleDialogs, closeStack, opened>>

OpenDialog(d) ==
  /\ d \notin open /\ opened < MaxOpened /\ opened' = opened + 1
  /\ open' = open \cup {d}
  /\ UNCHANGED <<mounted, early, questions, notes, visibleDialogs, closeStack>>

\* The transition of one dialog ends: visible follows open, and with it the stack.
IsOpen(d) == IF d = Notice THEN queue # <<>> ELSE d \in open
Transition(d) ==
  /\ IsOpen(d) # (d \in visibleDialogs)
  /\ IF IsOpen(d)
     THEN visibleDialogs' = visibleDialogs \cup {d} /\ closeStack' = Append(closeStack, d)
     ELSE visibleDialogs' = visibleDialogs \ {d} /\ closeStack' = Remove(closeStack, d)
  /\ UNCHANGED <<mounted, early, questions, notes, open, opened>>

Next ==
  \/ Mount \/ ShowConfirm \/ ShowToast \/ Enter \/ Escape
  \/ \E t \in 1..MaxShown : DismissToast(t) \/ ToastTimer(t)
  \/ \E d \in PageDialog : OpenDialog(d)
  \/ \E d \in PageDialog \cup {Notice} : Click(d) \/ Transition(d)

-----------------------------------------------------------------------------
\* Whoever waits for showConfirm gets an answer: no question is lost or overtaken on
\* the way from pendingEvents through the queue, none is answered twice, and
\* isNotificationDialogOpen, which holds back the shortcuts of the canvas, knows of
\* every one that is still open.
QuestionsSettle ==
  LET waiting == SelectSeq(early, Asked) IN
  /\ settled \o queue \o [i \in DOMAIN waiting |-> waiting[i].id] = [n \in 1..asked |-> n]
  /\ openCount = Len(queue) + Len(waiting)

\* No toast stays for ever and no timer outlives its toast, also when the sixth one
\* pushes out the first; Escape knows the dialogs on the screen, each once.
ToastsEnd ==
  /\ ToSet(toasts) = toastTimers /\ Len(toasts) = Cardinality(toastTimers)
  /\ Len(toasts) <= MaxToasts
  /\ ToSet(closeStack) = visibleDialogs /\ Len(closeStack) = Cardinality(visibleDialogs)
=============================================================================
