--------------------------- MODULE WorkspaceTheorems ---------------------------
(***************************************************************************)
(* Theorems about full runs of a workspace, on the invariant of            *)
(* WorkspaceRunProofs: what dispatcher, tasks and a restart do to the      *)
(* steps of a run, and what follows for every reachable state.             *)
(***************************************************************************)
EXTENDS WorkspaceRunProofs

-----------------------------------------------------------------------------
(* The dispatcher and a full run                                           *)

\* Only marked steps of full runs get to the dispatcher, and a task that has the work of
\* its step in hand has taken it out of the queue.
QueueInv ==
  /\ \A row \in listed : Standalone(row[2]) \/ Marked(row[2])
  /\ \A t \in Task : Holds(t) => Standalone(taskStep[t]) \/ Marked(taskStep[t])
  /\ \A t \in Task : taskPc[t] = "ready" => status[taskStep[t]] # "absent"
  /\ \A t \in Task : taskPc[t] \in Working => status[taskStep[t]] \notin {"absent", "queued"}

\* What dispatcher, tasks and page requests do to the steps of full runs: one is taken
\* that has been marked, or one ends that was running.
Taken(s) == status[s] = "queued" /\ Marked(s) /\ status'[s] = "running"
Ended(s) == status[s] = "running" /\ status'[s] \in Terminal

QueueMove ==
  /\ \A q \in Run : execStatus'[q] = execStatus[q]
  /\ \A s \in Planned : Marked(s)' <=> Marked(s)
  /\ \/ \A s \in Planned : status'[s] = status[s]
     \/ \E s \in Planned :
          /\ Taken(s) \/ Ended(s)
          /\ \A x \in Planned : x # s => status'[x] = status[x]

\* To a run, a move of the queue is a drift.
LEMMA MoveDrifts ==
  ASSUME NEW r \in Run, RunInv(r), QueueMove, UNCHANGED runVars
  PROVE  Drift(r)
<1>1. \A s \in StepsOf(r) : s \in Planned
  BY StoreAssumption DEF StepsOf, Planned, Standalone
<1>2. \A s \in Planned : status'[s] = status[s] \/ Taken(s) \/ Ended(s)
  BY DEF QueueMove
<1>3. canTodo'[r] \subseteq StepsOf(r)
  BY DEF runVars, canVars, RunInv, Extent
<1>4. QED
  BY <1>1, <1>2, <1>3 DEF QueueMove, Drift, Taken, Ended, runVars, coVars, canVars, Active

\* An UPDATE that meets one step of a full run at most.
LEMMA OneMove ==
  ASSUME NEW s \in Step, NEW S, NEW to, SetStatus(S, to), OnlyStatus,
         \A x \in S : x \in Planned => x = s,
         s \in S => \/ s \notin Planned \/ status[s] = to
                    \/ status[s] = "queued" /\ Marked(s) /\ to = "running"
                    \/ status[s] = "running" /\ to \in Terminal
  PROVE  QueueMove
<1>1. /\ \A x \in Step : status'[x] = IF x \in S THEN to ELSE status[x]
      /\ \A q \in Run : execStatus'[q] = execStatus[q]
      /\ dispatchAt' = dispatchAt
  BY WriteAt
<1>2. \A x \in Planned : x \in Step /\ (x # s => status'[x] = status[x])
  BY <1>1 DEF Planned
<1>3. s \in Planned => status'[s] = status[s] \/ Taken(s) \/ Ended(s)
  BY <1>1 DEF Taken, Ended
<1>4. CASE s \in Planned /\ status'[s] # status[s]
  BY <1>1, <1>2, <1>3, <1>4 DEF QueueMove, Marked
<1>5. CASE ~(s \in Planned /\ status'[s] # status[s])
  BY <1>1, <1>2, <1>5 DEF QueueMove, Marked
<1>6. QED
  BY <1>4, <1>5

\* What changes no step of a full run is a move.
LEMMA NoMove ==
  ASSUME UNCHANGED <<execStatus, dispatchAt>>, \A s \in Planned : status'[s] = status[s]
  PROVE  QueueMove
BY DEF QueueMove, Marked

\* Every action of a task is a move.
LEMMA TaskMoves ==
  ASSUME TypeOK, LinkInv, PairInv, QueueInv, requeues = 0, NEW t \in Task, TaskNext(t)
  PROVE  QueueMove
<1>1. PICK s \in Step : s = taskStep[t]
  BY BusyStep
     DEF TaskNext, TaskStart, ChipStart, PageStart, LoadStart, PlainDone, ExtractDone,
         LoadDone, TransformInsert, TransformAttach, JobLookup, JobCommitAlone,
         JobCommitLinked, CancelSeen, CancelPollFails, RecordChipFailure,
         RecordJobFailure, Retire, Release
<1>2. /\ taskPc[t] = "ready" => (s \in Planned => Marked(s))
      /\ taskPc[t] \in Working => status[s] \notin {"absent", "queued"}
  BY <1>1 DEF QueueInv, Holds, Planned
<1>3. CASE UNCHANGED dbVars
  BY <1>3, NoMove DEF dbVars
<1>4. ASSUME taskPc[t] = "ready", SetRunning(s)
      PROVE  QueueMove
  BY <1>2, <1>4, OneMove DEF SetRunning
<1>5. ASSUME SetSucceeded(s)
      PROVE  QueueMove
  BY <1>5, OneMove DEF SetSucceeded, Terminal
<1>6. ASSUME taskPc[t] \in Working, SetExtractFailed(s) \/ SetChipFailed(s)
      PROVE  QueueMove
  BY <1>2, <1>6, OneMove DEF SetExtractFailed, SetChipFailed, Active, Terminal
<1>7. CASE ChipStart(t) \/ PageStart(t) \/ LoadStart(t)
  BY <1>1, <1>3, <1>4, <1>7 DEF ChipStart, PageStart, LoadStart
<1>8. CASE PlainDone(t) \/ ExtractDone(t) \/ JobCommitAlone(t)
  BY <1>1, <1>3, <1>5, <1>6, <1>8 DEF PlainDone, ExtractDone, JobCommitAlone, Working
<1>9. CASE LoadDone(t)
  <2>1. taskPc[t] \in Working
    BY <1>9 DEF LoadDone, Working
  <2>2. ASSUME NEW to \in Terminal, FinishStep(s, to)
        PROVE  QueueMove
    <3>1. /\ \A x \in Step : status'[x] = IF x = s THEN to ELSE status[x]
          /\ \A q \in Run : execStatus'[q] = execStatus[q]
          /\ dispatchAt' = dispatchAt
      BY <2>2, AfterAt DEF FinishStep, ByHand, OnlyStatus, Fired, Exec
    <3>2. status[s] = "running"
      BY <1>2, <2>1, <2>2 DEF FinishStep, Active
    <3>3. QED
      BY <2>2, <3>1, <3>2 DEF QueueMove, Marked, Ended, Planned
  <2>3. QED
    BY <1>1, <1>3, <1>9, <2>2 DEF LoadDone, Terminal
<1>10. CASE TransformInsert(t)
  <2>1. ASSUME NEW c \in Step, Standalone(c), InsertStep(c)
        PROVE  QueueMove
    BY <2>1, StoreAssumption DEF InsertStep, QueueMove, Planned, Marked, TypeOK, StoreTypeOK, Exec
  <2>2. QED
    BY <1>3, <1>10, <2>1 DEF TransformInsert
<1>11. CASE TransformAttach(t)
  BY <1>3, <1>11, NoMove DEF TransformAttach, LinkChild
<1>12. CASE JobCommitLinked(t)
  <2>1. PICK p \in Step : p = peer[t]
    BY <1>12 DEF JobCommitLinked, TypeOK
  <2>2. ASSUME CompleteLinkedJob(s, p)
        PROVE  QueueMove
    <3>1. status[s] = "running" /\ status[p] = "running"
      BY <2>2 DEF CompleteLinkedJob
    <3>2. s \notin Planned
      BY <1>1, <1>12, <2>1, <3>1, StoreAssumption DEF JobCommitLinked, PairInv, LinkInv, Linked, Planned
    <3>3. QED
      BY <2>2, <3>1, <3>2, OneMove DEF CompleteLinkedJob, Terminal
  <2>3. QED
    BY <1>1, <1>3, <1>12, <2>1, <2>2 DEF JobCommitLinked
<1>13. CASE RecordChipFailure(t)
  BY <1>1, <1>6, <1>13 DEF RecordChipFailure, Working
<1>14. CASE RecordJobFailure(t)
  <2>1. taskPc[t] = "job_failing" /\ FailJob(s)
    BY <1>1, <1>14 DEF RecordJobFailure
  <2>2. status[s] \notin {"absent", "queued"}
    BY <1>2, <2>1 DEF Working
  <2>3. \A p \in ParentsOf(s) : /\ p \in Step /\ s \notin Planned
                                /\ status[p] \in {"running"} \cup Terminal
    BY StoreAssumption DEF ParentsOf, LinkInv, Linked, PairInv, Paired, Planned
  <2>4. \A p, q \in ParentsOf(s) : p = q
    BY StoreAssumption DEF ParentsOf, LinkInv
  <2>5. CASE ParentsOf(s) = {}
    BY <2>1, <2>2, <2>5, OneMove DEF FailJob, Active, Terminal
  <2>6. ASSUME NEW p \in ParentsOf(s)
        PROVE  QueueMove
    BY <2>1, <2>3, <2>4, <2>6, OneMove DEF FailJob, Active, Terminal
  <2>7. QED
    BY <2>5, <2>6
<1>15. CASE TaskStart(t) \/ JobLookup(t) \/ CancelSeen(t) \/ CancelPollFails(t) \/ Retire(t) \/ Release(t)
  BY <1>3, <1>15 DEF TaskStart, JobLookup, CancelSeen, CancelPollFails, Retire, Release
<1>16. QED
  BY <1>7, <1>8, <1>9, <1>10, <1>11, <1>12, <1>13, <1>14, <1>15 DEF TaskNext

\* The same for the dispatcher and for requests on pages and chips of their own.
LEMMA QueueMoves ==
  ASSUME TypeOK, LinkInv, PairInv, QueueInv, MaxRequeues = 0, QueueNext
  PROVE  QueueMove
<1>1. requeues = 0
  BY DEF TypeOK
<1>2. CASE PumpList \/ PumpRest \/ \E t \in Task : PumpPick(t)
  BY <1>2, NoMove DEF PumpList, PumpRest, PumpPick, dbVars
<1>3. ASSUME NEW s \in Step, Standalone(s), SetRunning(s) \/ SetSucceeded(s)
      PROVE  QueueMove
  BY <1>3, OneMove DEF SetRunning, SetSucceeded, Planned
<1>4. CASE UserNext
  <2>1. PICK s \in Step : \/ Submit(s) \/ ServeStart(s) \/ ServeFinish(s)
                          \/ CancelRequest(s) \/ CancelCommit(s)
                          \/ Requeue(s) \/ DeleteInput(s)
    BY <1>4 DEF UserNext
  <2>2. CASE Submit(s)
    BY <2>2, StoreAssumption
       DEF Submit, InsertStep, QueueMove, Planned, Marked, TypeOK, StoreTypeOK, Exec
  <2>3. CASE ServeStart(s) \/ ServeFinish(s)
    <3>1. Standalone(s)
      BY <2>3 DEF ServeStart, ServeFinish, LinkInv
    <3>2. QED
      BY <1>3, <2>3, <3>1, NoMove DEF ServeStart, ServeFinish, dbVars
  <2>4. CASE CancelRequest(s) \/ DeleteInput(s)
    BY <2>4, NoMove DEF CancelRequest, DeleteInput, dbVars
  <2>5. CASE CancelCommit(s)
    <3>1. Standalone(s) /\ (child[s] # NoStep => Standalone(child[s])) /\ CancelStep(s)
      BY <2>5 DEF CancelCommit, LinkInv, Linked
    <3>2. /\ \A x \in Step : status'[x] =
              IF x \in {s, child[s]} /\ status[x] \in Active THEN "canceled" ELSE status[x]
          /\ \A q \in Run : execStatus'[q] = execStatus[q]
          /\ dispatchAt' = dispatchAt
      BY <3>1, AfterAt DEF CancelStep, Fired, Exec, OnlyStatus
    <3>3. QED
      BY <3>1, <3>2, StoreAssumption DEF QueueMove, Planned, Marked
  <2>6. CASE Requeue(s)
    BY <1>1, <2>6 DEF Requeue
  <2>7. QED
    BY <2>1, <2>2, <2>3, <2>4, <2>5, <2>6
<1>5. QED
  BY <1>1, <1>2, <1>4, TaskMoves DEF QueueNext

\* A mark is for good.
LEMMA MarksStay ==
  ASSUME CalmStep, NEW s, Marked(s)
  PROVE  Marked(s)'
BY DEF CalmStep, Marked, dbVars, InsertStep, SetRunning, SetSucceeded, SetChipFailed,
   SetExtractFailed, FinishStep, FailJob, CancelStep, SkipStep, MarkDispatchable, LinkChild,
   CompleteLinkedJob, OpenRun, CloseRun, Recover, OnlyStatus

\* A step of the dispatcher or of a task, as QueueInv sees it.
QueueTurn ==
  /\ \A row \in listed' : row \in listed \/ Standalone(row[2]) \/ Marked(row[2])
  /\ \A t \in Task :
       /\ Holds(t)' =>
            \/ Holds(t) /\ taskStep'[t] = taskStep[t]
            \/ Standalone(taskStep'[t]) \/ \E row \in listed : taskStep'[t] = row[2]
       /\ taskPc'[t] = "ready" =>
            /\ taskStep'[t] \in Step /\ taskStep'[t] = taskStep[t]
            /\ taskPc[t] = "ready" \/ status[taskStep[t]] = "queued"
       /\ taskPc'[t] \in Working =>
            /\ taskStep'[t] \in Step /\ taskStep'[t] = taskStep[t]
            /\ \/ taskPc[t] \in Working
               \/ taskPc[t] = "ready" /\ status[taskStep[t]] # "queued"
               \/ status'[taskStep[t]] = "running"

\* A turn of the queue keeps its invariant.
LEMMA QueueKept ==
  ASSUME StoreTypeOK, CalmStep, QueueInv, QueueTurn
  PROVE  QueueInv'
<1>1. \A s \in Step :
        /\ status[s] # "absent" => status'[s] # "absent"
        /\ status[s] \notin {"absent", "queued"} => status'[s] \notin {"absent", "queued"}
  BY CourseStep DEF Course, Active, Terminal
<1>2. \A s : Marked(s) => Marked(s)'
  BY MarksStay
<1>3. \A row \in listed' : Standalone(row[2]) \/ Marked(row[2])'
  BY <1>2 DEF QueueInv, QueueTurn
<1>4. \A t \in Task : Holds(t)' => Standalone(taskStep'[t]) \/ taskStep'[t] \in dispatchAt'
  BY <1>2 DEF QueueInv, QueueTurn, Marked
<1>5. \A t \in Task : taskPc'[t] = "ready" => status'[taskStep'[t]] # "absent"
  <2>1. SUFFICES ASSUME NEW t \in Task, taskPc'[t] = "ready"
                 PROVE  status'[taskStep'[t]] # "absent"
    OBVIOUS
  <2>2. PICK s \in Step : s = taskStep[t] /\ s = taskStep'[t]
    BY <2>1 DEF QueueTurn
  <2>3. status[s] # "absent"
    BY <2>1, <2>2 DEF QueueInv, QueueTurn
  <2>4. QED
    BY <1>1, <2>2, <2>3
<1>6. \A t \in Task : taskPc'[t] \in Working => status'[taskStep'[t]] \notin {"absent", "queued"}
  <2>1. SUFFICES ASSUME NEW t \in Task, taskPc'[t] \in Working
                 PROVE  status'[taskStep'[t]] \notin {"absent", "queued"}
    OBVIOUS
  <2>2. PICK s \in Step : s = taskStep[t] /\ s = taskStep'[t]
    BY <2>1 DEF QueueTurn
  <2>3. status[s] \notin {"absent", "queued"} \/ status'[s] = "running"
    BY <2>1, <2>2 DEF QueueInv, QueueTurn
  <2>4. QED
    BY <1>1, <2>2, <2>3
<1>7. QED
  BY <1>3, <1>4, <1>5, <1>6 DEF QueueInv, Marked

\* Every action of a task is such a turn.
LEMMA TaskTurn ==
  ASSUME TypeOK, NEW t \in Task, TaskNext(t)
  PROVE  QueueTurn
<1>1. /\ listed' = listed
      /\ \A u \in Task : u # t => taskPc'[u] = taskPc[u] /\ taskStep'[u] = taskStep[u]
  BY TaskSolo
     DEF TaskNext, TaskStart, ChipStart, PageStart, LoadStart, PlainDone, ExtractDone,
         LoadDone, TransformInsert, TransformAttach, JobLookup, JobCommitAlone,
         JobCommitLinked, CancelSeen, CancelPollFails, RecordChipFailure,
         RecordJobFailure, Retire, Release, Goto, queueVars
<1>2. taskStep[t] \in Step
  BY BusyStep
     DEF TaskNext, TaskStart, ChipStart, PageStart, LoadStart, PlainDone, ExtractDone,
         LoadDone, TransformInsert, TransformAttach, JobLookup, JobCommitAlone,
         JobCommitLinked, CancelSeen, CancelPollFails, RecordChipFailure,
         RecordJobFailure, Retire, Release
<1>3. \A u \in Task : u # t /\ taskPc[u] \in {"ready"} \cup Working => taskStep[u] \in Step
  BY DEF TypeOK, Busy, Working
<1>4. SUFFICES
        /\ Holds(t)' => Holds(t) /\ taskStep'[t] = taskStep[t]
        /\ taskPc'[t] \in {"ready"} \cup Working => taskStep'[t] = taskStep[t]
        /\ taskPc'[t] = "ready" => taskPc[t] = "ready" \/ status[taskStep[t]] = "queued"
        /\ taskPc'[t] \in Working =>
             \/ taskPc[t] \in Working
             \/ taskPc[t] = "ready" /\ status[taskStep[t]] # "queued"
             \/ status'[taskStep[t]] = "running"
  BY <1>1, <1>2, <1>3 DEF QueueTurn, Holds, Working
<1> USE <1>2 DEF Holds, Working
<1>5. ASSUME NEW pc, Goto(t, pc)
      PROVE  taskPc'[t] = pc /\ taskStep' = taskStep
  BY <1>5 DEF Goto, TypeOK
<1>6. CASE TaskStart(t)
  BY <1>5, <1>6 DEF TaskStart
<1>7. CASE ChipStart(t) \/ PageStart(t) \/ LoadStart(t)
  BY <1>5, <1>7, AfterAt
     DEF ChipStart, PageStart, LoadStart, SetRunning, SetStatus, ErrorPc
<1>8. CASE \/ PlainDone(t) \/ ExtractDone(t) \/ LoadDone(t) \/ JobCommitAlone(t)
           \/ JobCommitLinked(t) \/ TransformAttach(t) \/ CancelSeen(t) \/ CancelPollFails(t)
           \/ RecordChipFailure(t) \/ RecordJobFailure(t)
  BY <1>5, <1>8
     DEF PlainDone, ExtractDone, LoadDone, JobCommitAlone, JobCommitLinked, TransformAttach,
         CancelSeen, CancelPollFails, RecordChipFailure, RecordJobFailure, ErrorPc
<1>9. CASE TransformInsert(t) \/ JobLookup(t)
  BY <1>5, <1>9 DEF TransformInsert, JobLookup, ErrorPc, TypeOK
<1>10. CASE Retire(t) \/ Release(t)
  BY <1>10 DEF Retire, Release, TypeOK
<1>11. QED
  BY <1>6, <1>7, <1>8, <1>9, <1>10 DEF TaskNext

\* The invariant of the queue, kept by everything but coordinators and cancel requests.
LEMMA QueueStep ==
  ASSUME TypeOK, QueueInv, CalmStep, QueueNext \/ Restart
  PROVE  QueueInv'
<1>1. ASSUME \A row \in listed' : row \in listed \/ Standalone(row[2]) \/ Marked(row[2]),
             UNCHANGED taskVars
      PROVE  QueueTurn
  <2>1. \A t \in Task : taskPc[t] \in {"ready"} \cup Working => taskStep[t] \in Step
    BY DEF TypeOK, Busy, Working
  <2>2. QED
    BY <1>1, <2>1 DEF QueueTurn, taskVars, Holds
<1>2. CASE PumpList \/ PumpRest
  <2>1. \A row \in Rows : Standalone(row[2]) \/ Marked(row[2])
    <3>1. ASSUME NEW row \in Rows
          PROVE  \E s \in Step : row = <<queuedAt[s], s>> /\ Dispatchable(s)
      BY <3>1 DEF Rows
    <3>2. QED
      BY <3>1 DEF Dispatchable, Marked
  <2>2. \A row \in listed' : Standalone(row[2]) \/ Marked(row[2])
    BY <1>2, <2>1 DEF PumpList, PumpRest
  <2>3. QueueTurn
    BY <1>1, <1>2, <2>2 DEF PumpList, PumpRest
  <2>4. QED
    BY <2>3, QueueKept DEF TypeOK
<1>3. ASSUME NEW t \in Task, PumpPick(t)
      PROVE  QueueInv'
  <2>1. /\ listed' = {} /\ taskPc'[t] = "picked" /\ \E row \in listed : taskStep'[t] = row[2]
        /\ \A u \in Task : u # t => taskPc'[u] = taskPc[u] /\ taskStep'[u] = taskStep[u]
    BY <1>3 DEF PumpPick, TypeOK, Unclaimed
  <2>2. \A u \in Task : taskPc[u] \in {"ready"} \cup Working => taskStep[u] \in Step
    BY DEF TypeOK, Busy, Working
  <2>3. QueueTurn
    BY <2>1, <2>2 DEF QueueTurn, Holds, Working
  <2>4. QED
    BY <2>3, QueueKept DEF TypeOK
<1>4. ASSUME NEW t \in Task, TaskNext(t)
      PROVE  QueueInv'
  BY <1>4, TaskTurn, QueueKept DEF TypeOK
<1>5. CASE UserNext
  <2>1. UNCHANGED <<taskVars, listed>>
    BY <1>5 DEF UserNext, Submit, ServeStart, ServeFinish, CancelRequest, CancelCommit,
                Requeue, DeleteInput, queueVars
  <2>2. QED
    BY <1>1, <2>1, QueueKept DEF TypeOK
<1>6. CASE Restart
  <2>1. listed' = {} /\ \A t \in Task : taskPc'[t] = "idle"
    BY <1>6 DEF Restart
  <2>2. QED
    BY <2>1 DEF QueueInv, Holds, Working
<1>7. QED
  BY <1>2, <1>3, <1>4, <1>5, <1>6 DEF QueueNext

-----------------------------------------------------------------------------
(* A restart and a full run                                                *)

\* Recovery closes every unfinished run with what is left of it; a queued step of a run
\* that has been canceled is left queued.
LEMMA RecoverAt ==
  ASSUME TypeOK, LinkInv, Recover
  PROVE  /\ \A x \in Planned : status'[x] =
              IF status[x] = "running" \/ (status[x] = "queued" /\ execStatus[RunOf[x]] \in Active)
              THEN "failed" ELSE status[x]
         /\ \A q \in Run : execStatus'[q] =
              IF execStatus[q] \in Active THEN "failed" ELSE execStatus[q]
         /\ dispatchAt' = dispatchAt
<1>1. \A x \in Planned, p \in Step : child[p] # x
  BY StoreAssumption DEF LinkInv, Linked, Planned
<1>2. \A x \in Planned : status'[x] =
        IF status[x] = "running" \/ (status[x] = "queued" /\ execStatus[RunOf[x]] \in Active)
        THEN "failed" ELSE status[x]
  <2>1. SUFFICES ASSUME NEW x \in Planned
                 PROVE  status'[x] =
                   IF status[x] = "running" \/ (status[x] = "queued" /\ execStatus[RunOf[x]] \in Active)
                   THEN "failed" ELSE status[x]
    OBVIOUS
  <2>2. x \in Step /\ ~Standalone(x)
    BY DEF Planned
  <2>3. QED
    BY <1>1, <2>2, AfterAt DEF Recover, TypeOK, StoreTypeOK
<1>3. \A q \in Run : execStatus'[q] = IF execStatus[q] \in Active THEN "failed" ELSE execStatus[q]
  BY DEF Recover, Fired, Exec
<1>4. QED
  BY <1>2, <1>3 DEF Recover

\* A restart keeps the invariant of a run, whose steps recovery has failed.
LEMMA RestartKeeps ==
  ASSUME TypeOK, LinkInv, NEW r \in Run, RunInv(r), RestartAll
  PROVE  RunInv(r)'
<1>1. /\ coPc'[r] = "none" /\ coPos'[r] = 1 /\ result'[r] = "ok" /\ todo'[r] = {} /\ canTodo'[r] = {}
      /\ refused' = {} /\ outputs' = {} /\ \A s \in Step : outcome'[s] = "none"
      /\ Recover
  BY DEF RestartAll, Restart
<1>2. /\ StepsOf(r)' = StepsOf(r) /\ Places(r)' = Places(r) /\ Len(Plan[r]) \in Nat
      /\ \A s \in StepsOf(r) : s \in Planned /\ s \in Step /\ RunOf[s] = r
      /\ \A i \in Places(r) : Plan[r][i] \in StepsOf(r)
  BY PlanPlaces, StoreAssumption DEF StepsOf, Places, Planned, Standalone
<1>3. /\ \A s \in StepsOf(r) : status'[s] =
           IF status[s] = "running" \/ (status[s] = "queued" /\ execStatus[r] \in Active)
           THEN "failed" ELSE status[s]
      /\ execStatus'[r] = IF execStatus[r] \in Active THEN "failed" ELSE execStatus[r]
      /\ dispatchAt' = dispatchAt
  BY <1>1, <1>2, RecoverAt
<1>4. execStatus[r] \in {"absent", "running"} \cup Terminal
  BY DEF RunInv, Extent
<1>5. Extent(r)'
  BY <1>1, <1>2, <1>3, <1>4 DEF RunInv, Extent, Loop, Active, Terminal
<1>6. Placed(r)'
  <2>1. \A s \in StepsOf(r) : PredsDone(s) => PredsDone(s)'
    BY <1>3, TruthKept
  <2>2. QED
    BY <1>2, <1>3, <2>1 DEF RunInv, Placed, Marked
<1>7. InOrder(r)'
  <2>1. ASSUME NEW i \in Places(r), Live(Plan[r][i])'
        PROVE  /\ execStatus'[r] = "canceled"
               /\ \A j \in Places(r) : j < i => Over(Plan[r][j])'
    <3>1. status[Plan[r][i]] = "queued" /\ Live(Plan[r][i]) /\ execStatus[r] \notin Active
      BY <1>2, <1>3, <2>1 DEF Live, Marked
    <3>2. \A j \in Places(r) : j < i => Over(Plan[r][j])
      BY <3>1 DEF RunInv, InOrder
    <3>3. execStatus[r] = "canceled"
      BY <1>4, <3>1 DEF RunInv, InOrder, Extent, Active
    <3>4. QED
      BY <1>2, <1>3, <3>2, <3>3 DEF Over, Active, Terminal
  <2>2. QED
    BY <1>1, <1>2, <2>1 DEF InOrder, Loop
<1>8. Memory(r)'
  BY <1>1, <1>2 DEF Memory, Loop
<1>9. Sound(r)'
  <2>1. \A s \in StepsOf(r) : Excused(s) => Excused(s)'
    BY <1>3, TruthKept
  <2>2. execStatus'[r] = "succeeded" => \A i \in Places(r) : Excused(Plan[r][i])
    BY <1>3 DEF RunInv, Sound
  <2>3. QED
    BY <1>1, <1>2, <2>1, <2>2 DEF Sound, Loop
<1>10. Ending(r)'
  BY <1>1, <1>2, <1>3, <1>4 DEF RunInv, Ending, Active, Terminal
<1>11. QED
  BY <1>5, <1>6, <1>7, <1>8, <1>9, <1>10 DEF RunInv

-----------------------------------------------------------------------------
(* The invariant of the whole system                                       *)

\* The system but for the runs: what coordinators and cancel requests keep by
\* writing none but their own steps.
Base == TypeOK /\ ClaimInv /\ LinkInv /\ PairInv /\ QueueInv

\* Coordinators and cancel requests keep the invariants of dispatcher and jobs.
LEMMA HereKeeps ==
  ASSUME Base, requeues = 0, NEW r \in Run, Here(r)
  PROVE  Base' /\ CalmStep /\ Elsewhere(r)
<1> USE DEF Base
<1>1. CalmStep /\ Elsewhere(r)
  BY WritesElsewhere DEF Here
<1>2. /\ UNCHANGED <<free, inFlight, pump, listed, taskStep, taskPc, peer>>
      /\ UNCHANGED <<canceling, serving, gone, requeues, restarts>>
      /\ child' = child
  BY <1>1 DEF Elsewhere, CoHere, rest, queueVars, taskVars, userVars
<1>3. StoreTypeOK'
  BY <1>1, StoreTypeStep DEF TypeOK, StoreStep
<1>4. TypeOK'
  BY <1>2, <1>3 DEF TypeOK, Busy
<1>5. ClaimInv'
  BY <1>2 DEF ClaimInv, SoleRunner, Holds
<1>6. LinkInv'
  BY <1>1, <1>2, LinksKept DEF StoreStep, LinkInv, TaskKinds
<1>7. PairInv'
  <2>1. PairMove
    BY WritesPairs DEF Here
  <2>2. \A t \in Task : TaskMove(t)
    BY <1>2, StillMove
  <2>3. QED
    BY <1>1, <1>2, <1>6, <2>1, <2>2, PairKept
<1>8. QueueInv'
  <2>1. \A t \in Task : taskPc[t] \in {"ready"} \cup Working => taskStep[t] \in Step
    BY DEF TypeOK, Busy, Working
  <2>2. QueueTurn
    BY <1>2, <2>1 DEF QueueTurn, Holds
  <2>3. QED
    BY <1>1, <2>2, QueueKept DEF TypeOK
<1>9. QED
  BY <1>1, <1>4, <1>5, <1>6, <1>7, <1>8

\* The dispatcher, the tasks, the requests on pages and chips, and a restart.
LEMMA NextKeeps ==
  ASSUME Base, MaxRequeues = 0, [Next]_vars
  PROVE  Base' /\ CalmStep
<1> USE DEF Base
<1>1. TypeOK' /\ ClaimInv' /\ LinkInv' /\ CalmStep
  BY TypeStep, ClaimStep, LinkStep, Writes
<1>2. requeues = 0 /\ requeues' = 0
  BY <1>1 DEF TypeOK
<1>3. PairInv'
  BY <1>1, <1>2, PairStep
<1>4. QueueInv'
  <2>1. CASE UNCHANGED vars
    <3>1. \A t \in Task : taskPc[t] \in {"ready"} \cup Working => taskStep[t] \in Step
      BY DEF TypeOK, Busy, Working
    <3>2. QueueTurn
      BY <2>1, <3>1 DEF QueueTurn, Holds, vars, queueVars, taskVars
    <3>3. QED
      BY <1>1, <3>2, QueueKept DEF TypeOK
  <2>2. CASE Next
    BY <1>1, <2>2, QueueStep DEF Next, QueueNext
  <2>3. QED
    BY <2>1, <2>2
<1>5. QED
  BY <1>1, <1>3, <1>4

\* The variables of the coordinators and of the cancel requests.
RunVarsOK ==
  /\ coPc \in [Run -> CoPcs]
  /\ coPos \in [Run -> Nat]
  /\ refused \in SUBSET Step
  /\ outcome \in [Step -> {"none", "succeeded", "failed", "skipped"}]
  /\ outputs \in SUBSET Step
  /\ result \in [Run -> {"ok", "error"} \cup Terminal]
  /\ todo \in [Run -> SUBSET Step]
  /\ canPc \in [Run -> CanPcs]
  /\ canTodo \in [Run -> SUBSET Step]
  /\ cancels \in 0..MaxCancels

\* Coordinators keep the types of the variables of the runs.
LEMMA CoVarsOK ==
  ASSUME RunTypeOK, NEW r \in Run, RunInv(r), StartRun(r) \/ CoNext(r)
  PROVE  RunVarsOK'
<1> USE DEF RunTypeOK, RunVarsOK, CoPcs, coVars, canVars, CoGoto, Advance, Abort, Terminal
<1>1. ASSUME NEW pc, AtStep(r, pc)
      PROVE  Current(r) \in Step
  BY <1>1, CurrentStep
<1>2. CASE Prepare(r)
  BY <1>2 DEF Prepare, StepsOf
<1>3. CASE StartRun(r) \/ Snapshot(r)
  BY <1>3 DEF StartRun, Snapshot
<1>4. CASE SnapshotDone(r) \/ Preflight(r)
  <2>1. SnapshotDone(r) => RunVarsOK'
    BY DEF SnapshotDone
  <2>2. Preflight(r) => RunVarsOK'
    BY DEF Preflight
  <2>3. QED
    BY <1>4, <2>1, <2>2
<1>5. CASE PassRefused(r) \/ ServeBegin(r) \/ ServeEnd(r) \/ PassOver(r)
  BY <1>1, <1>5 DEF PassRefused, ServeBegin, ServeEnd, PassOver, HasTurn, Record
<1>6. CASE Mark(r) \/ ChipError(r) \/ RecordChipError(r)
  BY <1>1, <1>6 DEF Mark, ChipError, RecordChipError, FailCurrent, Record
<1>7. CASE Wait(r)
  BY <1>1, <1>7 DEF Wait, Record
<1>8. CASE Bind(r) \/ PlanDone(r) \/ Verdict(r)
  BY <1>8 DEF Bind, PlanDone, Verdict, QueuedOf, StepsOf
<1>9. CASE SkipRest(r) \/ Close(r)
  BY <1>9 DEF SkipRest, Close
<1>10. QED
  BY <1>2, <1>3, <1>4, <1>5, <1>6, <1>7, <1>8, <1>9 DEF CoNext

\* So do cancel requests.
LEMMA CanVarsOK ==
  ASSUME RunTypeOK, NEW r \in Run, CancelRun(r) \/ CancelNext(r)
  PROVE  RunVarsOK'
<1> USE DEF RunTypeOK, RunVarsOK, CanPcs, coVars, CanGoto
<1>1. CASE CancelRun(r)
  BY <1>1, RunAssumption DEF CancelRun
<1>2. CASE CancelListRunning(r) \/ CancelListQueued(r)
  BY <1>2 DEF CancelListRunning, CancelListQueued, QueuedOf, StepsOf
<1>3. CASE CancelStop(r) \/ CancelSkip(r) \/ CancelClose(r)
  BY <1>3 DEF CancelStop, CancelSkip, CancelClose
<1>4. QED
  BY <1>1, <1>2, <1>3 DEF CancelNext

\* The invariant of dispatcher, jobs and runs together.
RunBase == RunTypeOK /\ Base /\ RunsInv

\* It holds at the start.
LEMMA RunBaseInit ==
  ASSUME RunInit
  PROVE  RunBase
<1>1. TypeOK /\ ClaimInv /\ LinkInv /\ PairInv
  BY InitType, LinkInit
     DEF RunInit, Init, StoreInit, ClaimInv, SoleRunner, Holds, PairInv
<1>2. QueueInv
  BY DEF RunInit, Init, QueueInv, Holds, Working
<1>3. RunTypeOK
  BY <1>1, RunAssumption DEF RunInit, RunTypeOK, CoPcs, CanPcs
<1>4. ASSUME NEW r \in Run
      PROVE  RunInv(r)
  <2>1. /\ coPc[r] = "none" /\ coPos[r] = 1 /\ result[r] = "ok"
        /\ todo[r] = {} /\ canTodo[r] = {} /\ execStatus[r] = "absent"
        /\ dispatchAt = {} /\ outputs = {} /\ refused = {}
        /\ \A s \in StepsOf(r) : status[s] = "absent" /\ outcome[s] = "none"
        /\ \A i \in Places(r) : Plan[r][i] \in StepsOf(r)
        /\ Len(Plan[r]) \in Nat
    BY PlanPlaces DEF RunInit, Init, StoreInit, StepsOf, Exec
  <2>2. QED
    BY <2>1 DEF RunInv, Extent, Placed, InOrder, Memory, Sound, Ending, Loop, Live, Marked,
                Active, Terminal
<1>5. QED
  BY <1>1, <1>2, <1>3, <1>4 DEF RunBase, Base, RunsInv

\* What a step of the system is to the store, and that it keeps the invariant.
LEMMA RunBaseStep ==
  ASSUME RunBase, MaxRequeues = 0, [RunNext]_allVars
  PROVE  RunBase' /\ CalmStep
<1> USE DEF RunBase
<1>1. requeues = 0
  BY DEF Base, TypeOK
<1>2. ASSUME TypeOK', RunVarsOK'
      PROVE  RunTypeOK'
  BY <1>2 DEF RunTypeOK, RunVarsOK
<1>3. ASSUME UNCHANGED runVars
      PROVE  RunVarsOK'
  BY <1>3 DEF runVars, coVars, canVars, RunTypeOK, RunVarsOK
<1>4. CASE UNCHANGED allVars
  <2>1. UNCHANGED vars /\ UNCHANGED runVars
    BY <1>4 DEF allVars
  <2>2. Base' /\ CalmStep
    BY <2>1, NextKeeps
  <2>3. QueueMove
    BY <2>1, NoMove DEF vars, dbVars
  <2>4. RunsInv'
    BY <2>1, <2>3, MoveDrifts, DriftKeeps DEF RunsInv
  <2>5. QED
    BY <1>2, <1>3, <2>1, <2>2, <2>4 DEF Base
<1>5. CASE QueueNext /\ UNCHANGED runVars
  <2>1. Base' /\ CalmStep
    BY <1>5, NextKeeps DEF QueueNext, Next
  <2>2. QueueMove
    BY <1>5, QueueMoves DEF Base
  <2>3. RunsInv'
    BY <1>5, <2>2, MoveDrifts, DriftKeeps DEF RunsInv
  <2>4. QED
    BY <1>2, <1>3, <1>5, <2>1, <2>3 DEF Base
<1>6. ASSUME NEW r \in Run, StartRun(r) \/ CoNext(r) \/ CancelRun(r) \/ CancelNext(r)
      PROVE  RunBase' /\ CalmStep
  <2>1. RunInv(r)
    BY DEF RunsInv
  <2>2. Here(r)
    BY <1>6, <2>1, PrepareHere, LoopHere, EndHere DEF CoNext
  <2>3. Base' /\ CalmStep /\ Elsewhere(r)
    BY <1>1, <2>2, HereKeeps
  <2>4. RunInv(r)'
    BY <1>6, <2>1, CoKeeps, CancelKeeps DEF Base
  <2>5. \A q \in Run : q # r => RunInv(q)'
    BY <2>3, ElsewhereDrifts, DriftKeeps DEF RunsInv
  <2>6. RunVarsOK'
    BY <1>6, <2>1, CoVarsOK, CanVarsOK
  <2>7. QED
    BY <1>2, <2>3, <2>4, <2>5, <2>6 DEF Base, RunsInv
<1>7. CASE RestartAll
  <2>1. Base' /\ CalmStep
    BY <1>7, NextKeeps DEF RestartAll, Next
  <2>2. RunsInv'
    BY <1>7, RestartKeeps DEF Base, RunsInv
  <2>3. RunVarsOK'
    BY <1>7 DEF RestartAll, RunTypeOK, RunVarsOK, CoPcs, CanPcs
  <2>4. QED
    BY <1>2, <2>1, <2>2, <2>3 DEF Base
<1>8. QED
  BY <1>4, <1>5, <1>6, <1>7 DEF RunNext

\* It holds in every reachable state.
LEMMA RunsInvariant ==
  ASSUME MaxRequeues = 0
  PROVE  RunSpec => []RunBase
<1>1. RunInit => RunBase
  BY RunBaseInit
<1>2. RunBase /\ [RunNext]_allVars => RunBase'
  BY RunBaseStep
<1>3. QED
  BY <1>1, <1>2, PTL DEF RunSpec

-----------------------------------------------------------------------------
(* What follows for every reachable state                                  *)

\* The variables of coordinators and cancel requests have their types, the place in
\* the plan included, which indexes it.
THEOREM RunTypeCorrect ==
  ASSUME MaxRequeues = 0
  PROVE  RunSpec => []RunTypeOK
<1>1. RunBase => RunTypeOK
  BY DEF RunBase
<1>2. QED
  BY <1>1, RunsInvariant, PTL

\* Two running steps of a run would each be behind the other in the plan.
LEMMA OneRuns ==
  ASSUME NEW r \in Run, RunInv(r),
         NEW s \in StepsOf(r), NEW x \in StepsOf(r),
         status[s] = "running", status[x] = "running"
  PROVE  s = x
<1>1. PICK i \in Places(r) : Plan[r][i] = s
  BY DEF RunInv, Placed
<1>2. PICK j \in Places(r) : Plan[r][j] = x
  BY DEF RunInv, Placed
<1>3. ~(i < j) /\ ~(j < i)
  BY <1>1, <1>2 DEF RunInv, InOrder, Live, Over, Terminal
<1>4. QED
  BY <1>1, <1>2, <1>3 DEF Places

\* The coordinator has one step of its run dispatched at a time, however its
\* memory, the tasks, cancel requests and restarts race.
THEOREM ChipsRunOneAtATime ==
  ASSUME MaxRequeues = 0
  PROVE  RunSpec => []OneAtATime
<1>1. ASSUME RunBase, NEW r \in Run
      PROVE  Cardinality({s \in StepsOf(r) : status[s] = "running"}) <= 1
  <2> DEFINE R == {s \in StepsOf(r) : status[s] = "running"}
  <2>1. \A s, x \in R : s = x
    BY <1>1, OneRuns DEF RunBase, RunsInv
  <2>2. CASE R = {}
    BY <2>2, FS_EmptySet
  <2>3. ASSUME NEW s \in R
        PROVE  Cardinality(R) <= 1
    <3>1. R = {s}
      BY <2>1, <2>3
    <3>2. Cardinality({s}) = 1
      BY FS_Singleton
    <3>3. QED
      BY <3>1, <3>2
  <2>4. QED
    BY <2>2, <2>3
<1>2. RunBase => OneAtATime
  BY <1>1 DEF OneAtATime
<1>3. QED
  BY <1>2, RunsInvariant, PTL

\* A coordinator starts serve chips only, and touches no other step with it.
LEMMA RunWritesStart ==
  ASSUME TypeOK, NEW r \in Run, RunWrites(r), NEW s \in StepsOf(r),
         status[s] # "running", status'[s] = "running"
  PROVE  /\ Kind[s] = "serve_chip"
         /\ \A x \in Step : x # s => status'[x] = status[x]
         /\ \A q \in Run : execStatus'[q] = execStatus[q]
<1>1. s \in Step
  BY DEF StepsOf
<1>2. CASE status' = status
  BY <1>2
<1>3. ASSUME NEW x \in StepsOf(r), InsertStep(x)
      PROVE  FALSE
  BY <1>1, <1>3 DEF InsertStep, TypeOK, StoreTypeOK
<1>4. ASSUME NEW x \in StepsOf(r), SetSucceeded(x) \/ SetChipFailed(x) \/ SkipStep(x)
      PROVE  FALSE
  BY <1>1, <1>4, AfterAt DEF SetSucceeded, SetChipFailed, SkipStep, SetStatus
<1>5. ASSUME NEW x \in StepsOf(r), CancelStep(x)
      PROVE  FALSE
  BY <1>1, <1>5, AfterAt DEF CancelStep
<1>6. ASSUME NEW x \in StepsOf(r), Kind[x] = "serve_chip", SetRunning(x)
      PROVE  /\ x = s
             /\ \A y \in Step : y # s => status'[y] = status[y]
             /\ \A q \in Run : execStatus'[q] = execStatus[q]
  BY <1>1, <1>6, WriteAt DEF SetRunning
<1>7. QED
  BY <1>2, <1>3, <1>4, <1>5, <1>6 DEF RunWrites, dbVars, MarkDispatchable, OpenRun, CloseRun

\* A step of a full run that starts is the only one to change, and a step of a serve
\* chip unless the dispatcher had it marked.
LEMMA PlannedStart ==
  ASSUME RunBase, MaxRequeues = 0, [RunNext]_allVars, NEW s \in Planned,
         status[s] # "running", status'[s] = "running"
  PROVE  /\ Kind[s] = "serve_chip" \/ Marked(s)
         /\ status[s] = "queued"
         /\ \A x \in Planned : x # s => status'[x] = status[x]
         /\ \A q \in Run : execStatus'[q] = execStatus[q]
<1> USE DEF RunBase, Base
<1>1. s \in Step /\ status[s] = "queued"
  BY RunBaseStep, CourseStep DEF Planned, TypeOK, Course, Active, Terminal
<1>2. CASE UNCHANGED allVars
  BY <1>2 DEF allVars, vars, dbVars
<1>3. CASE QueueNext
  <2>1. QueueMove
    BY <1>3, QueueMoves
  <2>2. QED
    BY <1>1, <2>1 DEF QueueMove, Taken, Ended, Terminal
<1>4. ASSUME NEW r \in Run, StartRun(r) \/ CoNext(r) \/ CancelRun(r) \/ CancelNext(r)
      PROVE  /\ Kind[s] = "serve_chip"
             /\ \A x \in Planned : x # s => status'[x] = status[x]
             /\ \A q \in Run : execStatus'[q] = execStatus[q]
  <2>1. Here(r)
    BY <1>4, PrepareHere, LoopHere, EndHere DEF CoNext, RunsInv
  <2>2. Elsewhere(r)
    BY <2>1, HereKeeps DEF TypeOK
  <2>3. s \in StepsOf(r)
    BY <2>2 DEF Elsewhere, Planned
  <2>4. QED
    BY <2>1, <2>3, RunWritesStart DEF Here, Planned
<1>5. CASE RestartAll
  BY <1>5, RecoverAt DEF RestartAll, Restart
<1>6. QED
  BY <1>1, <1>2, <1>3, <1>4, <1>5 DEF RunNext

\* Everything before a step of a full run has ended when it starts, and its
\* connections are satisfied by what the database says, whoever starts it.
THEOREM ChipsStartInTurn ==
  ASSUME MaxRequeues = 0
  PROVE  RunSpec => StartsInTurn
<1>1. ASSUME RunBase, RunBase', [RunNext]_allVars, NEW s \in Step, ~Standalone(s),
             status[s] # "running", status'[s] = "running"
      PROVE  /\ \A x \in Step : Before(x, s) => status[x] \in Terminal
             /\ Kind[s] # "serve_chip" =>
                  \A e \in Edges : e.to = s /\ e.kind \in {"on_success", "data"} =>
                    status[e.from] = "succeeded"
  <2>1. /\ s \in Planned
        /\ Kind[s] = "serve_chip" \/ Marked(s)
        /\ \A x \in Planned : x # s => status'[x] = status[x]
    BY <1>1, PlannedStart DEF Planned
  <2>2. ASSUME NEW x \in Step, Before(x, s)
        PROVE  status[x] \in Terminal
    <3>1. PICK r \in Run : \E i, j \in Places(r) :
                              i < j /\ Plan[r][i] = x /\ Plan[r][j] = s
      BY <2>2 DEF Before, Places
    <3>2. PICK i \in Places(r), j \in Places(r) : i < j /\ Plan[r][i] = x /\ Plan[r][j] = s
      BY <3>1
    <3>3. x \in Planned /\ x # s
      BY <3>2, PlanPlaces, StoreAssumption DEF Planned, StepsOf, Standalone, Places
    <3>4. status'[x] \in Terminal
      BY <1>1, <3>2 DEF RunBase, RunsInv, RunInv, InOrder, Live, Over, Places
    <3>5. QED
      BY <2>1, <3>3, <3>4
  <2>3. ASSUME Kind[s] # "serve_chip", NEW e \in Edges, e.to = s,
               e.kind \in {"on_success", "data"}
        PROVE  status[e.from] = "succeeded"
    <3>1. RunOf[s] \in Run /\ s \in StepsOf(RunOf[s])
      BY <1>1, StoreAssumption DEF Standalone, StepsOf
    <3>2. PredsDone(s)
      BY <1>1, <2>1, <2>3, <3>1 DEF RunBase, RunsInv, RunInv, Placed
    <3>3. QED
      BY <2>3, <3>2 DEF PredsDone
  <2>4. QED
    BY <2>2, <2>3
<1>2. RunBase /\ RunBase' /\ [RunNext]_allVars =>
        [\A s \in Step :
           ~Standalone(s) /\ status[s] # "running" /\ status'[s] = "running" =>
             /\ \A x \in Step : Before(x, s) => status[x] \in Terminal
             /\ Kind[s] # "serve_chip" =>
                  \A e \in Edges : e.to = s /\ e.kind \in {"on_success", "data"} =>
                    status[e.from] = "succeeded"]_allVars
  BY <1>1
<1>3. QED
  BY <1>2, RunsInvariant, PTL DEF RunSpec, StartsInTurn

\* A run that says succeeded has no chip that failed, was canceled or never ran,
\* but for those its connections excuse.
THEOREM SuccessesAreWhole ==
  ASSUME MaxRequeues = 0
  PROVE  RunSpec => []SuccessIsWhole
<1>1. RunBase => SuccessIsWhole
  BY DEF RunBase, RunsInv, RunInv, Sound, Excused, SuccessIsWhole, Places
<1>2. QED
  BY <1>1, RunsInvariant, PTL

\* A run that has succeeded or failed leaves its chips free for the next one.
THEOREM ClosedRunsAreQuiet ==
  ASSUME MaxRequeues = 0
  PROVE  RunSpec => []ClosedRunIsQuiet
<1>1. RunBase => ClosedRunIsQuiet
  BY DEF RunBase, RunsInv, RunInv, Ending, ClosedRunIsQuiet
<1>2. QED
  BY <1>1, RunsInvariant, PTL

\* No job goes on for a chip that has ended, in full runs as little as on its own.
THEOREM NoJobsUnderEndedChips ==
  ASSUME MaxRequeues = 0
  PROVE  RunSpec => []NoJobUnderEndedChip
<1>1. RunBase => NoJobUnderEndedChip
  BY DEF RunBase, Base, TypeOK, PairInv, Paired, Terminal, NoJobUnderEndedChip
<1>2. QED
  BY <1>1, RunsInvariant, PTL

\* A chip is queued or running once at most, in a full run or on its own.
THEOREM OneRunPerChipInRuns ==
  ASSUME MaxRequeues = 0
  PROVE  RunSpec => []OneActiveRunPerChip
<1>1. RunInit => OneActiveRunPerChip
  BY DEF RunInit, Init, StoreInit, OneActiveRunPerChip, Active
<1>2. RunBase /\ OneActiveRunPerChip /\ [RunNext]_allVars => OneActiveRunPerChip'
  BY RunBaseStep, OneActiveStep DEF RunBase, Base, TypeOK
<1>3. QED
  BY <1>1, <1>2, RunsInvariant, PTL DEF RunSpec

-----------------------------------------------------------------------------
(* A full run does what OrderedRun promises                                *)

\* What OrderedRun sees of a step of the system is the same.
Unseen ==
  /\ \A s \in Planned : status'[s] = status[s]
  /\ \A q \in Run : execStatus'[q] = execStatus[q]

\* Such a step leaves the variables of OrderedRun as they were.
LEMMA UnseenStutters ==
  ASSUME Unseen
  PROVE  UNCHANGED Ordered!orderedVars
BY DEF Unseen, Ordered!orderedVars

\* One step of a plan changes, and with it nothing else.
Changes(s) ==
  /\ \A x \in Planned : x # s => status'[x] = status[x]
  /\ \A q \in Run : execStatus'[q] = execStatus[q]

\* A step of a run that is there has its place in the plan.
LEMMA PlaceOf ==
  ASSUME RunBase, NEW s \in Planned, status[s] # "absent"
  PROVE  \E r \in Run : \E i \in Places(r) : Plan[r][i] = s
<1>1. RunOf[s] \in Run /\ s \in StepsOf(RunOf[s])
  BY StoreAssumption DEF Planned, Standalone, StepsOf
<1>2. QED
  BY <1>1 DEF RunBase, RunsInv, RunInv, Placed

\* A step that ends has been running or queued.
LEMMA EndMaps ==
  ASSUME RunBase, NEW s \in Planned, Changes(s),
         \/ status'[s] = status[s]
         \/ status[s] = "running" /\ status'[s] \in Terminal
         \/ status[s] = "queued" /\ status'[s] \in {"failed", "canceled"}
  PROVE  [Ordered!OrderedNext]_(Ordered!orderedVars)
<1>1. CASE status'[s] = status[s]
  BY <1>1, UnseenStutters DEF Changes, Unseen
<1>2. CASE status[s] = "running" /\ status'[s] \in Terminal
  <2>1. PICK r \in Run : \E i \in Places(r) : Plan[r][i] = s
    BY <1>2, PlaceOf
  <2>2. PICK i \in Places(r) : Plan[r][i] = s
    BY <2>1
  <2>3. Ordered!End(r, i)
    BY <1>2, <2>2 DEF Changes, Ordered!Move, Ordered!End, Ordered!Ends, Terminal
  <2>4. QED
    BY <2>3 DEF Ordered!OrderedNext, Ordered!Places, Places
<1>3. CASE status[s] = "queued" /\ status'[s] \in {"failed", "canceled"}
  <2>1. PICK r \in Run : \E i \in Places(r) : Plan[r][i] = s
    BY <1>3, PlaceOf
  <2>2. PICK i \in Places(r) : Plan[r][i] = s
    BY <2>1
  <2>3. Ordered!Drop(r, i)
    BY <1>3, <2>2 DEF Changes, Ordered!Move, Ordered!Drop
  <2>4. QED
    BY <2>3 DEF Ordered!OrderedNext, Ordered!Places, Places
<1>4. QED
  BY <1>1, <1>2, <1>3

\* A step that starts does so in the order of the plan.
LEMMA StartMaps ==
  ASSUME RunBase, RunBase', MaxRequeues = 0, [RunNext]_allVars, NEW s \in Planned,
         status[s] # "running", status'[s] = "running"
  PROVE  Ordered!OrderedNext
<1>1. status[s] = "queued" /\ Changes(s)
  BY PlannedStart DEF Changes
<1>2. PICK r \in Run : \E i \in Places(r) : Plan[r][i] = s
  BY <1>1, PlaceOf
<1>3. PICK i \in Places(r) : Plan[r][i] = s
  BY <1>2
<1>4. RunInv(r)' /\ Places(r)' = Places(r)
  BY DEF RunBase, RunsInv, Places
<1>5. /\ \A j \in Places(r) : j < i => status'[Plan[r][j]] \in Terminal
      /\ execStatus'[r] \in {"running", "canceled"}
  BY <1>3, <1>4 DEF RunInv, InOrder, Extent, Live, Over
<1>6. \A j \in Places(r) : j < i =>
        Plan[r][j] \in Planned /\ status'[Plan[r][j]] = status[Plan[r][j]]
  BY <1>1, <1>3, PlanPlaces, StoreAssumption DEF Changes, Planned, StepsOf, Standalone, Places
<1>7. \A j \in 1..(i - 1) : Plan[r][j] \in Planned /\ status[Plan[r][j]] \in Terminal
  <2>1. \A j \in 1..(i - 1) : j \in Places(r) /\ j < i
    BY PlanPlaces DEF Places
  <2>2. QED
    BY <1>5, <1>6, <2>1
<1>8. execStatus[r] \in {"running", "canceled"}
  BY <1>1, <1>5 DEF Changes
<1>9. Ordered!Start(r, i)
  BY <1>1, <1>3, <1>7, <1>8
     DEF Changes, Ordered!Move, Ordered!Start, Ordered!Ended, Ordered!Ends, Terminal
<1>10. QED
  BY <1>9 DEF Ordered!OrderedNext, Ordered!Places, Places

\* A step is frozen behind those in front of it in the plan.
LEMMA FreezeMaps ==
  ASSUME RunBase, NEW r \in Run, AtStep(r, "snapshot"), InsertStep(Current(r))
  PROVE  Ordered!OrderedNext
<1>1. RunInv(r) /\ TypeOK
  BY DEF RunBase, Base, RunsInv
<1>2. PICK i \in Places(r) : i = coPos[r]
  BY <1>1, CurrentStep
<1>3. PICK s \in Step : s = Plan[r][i] /\ s = Current(r) /\ s \in Planned /\ RunOf[s] = r
  BY <1>1, <1>2, CurrentStep DEF Current, Planned
<1>4. /\ status[s] = "absent" /\ status'[s] = "queued" /\ Changes(s)
      /\ execStatus[r] = "running"
  <2>1. InsertStep(s) /\ ~Standalone(s)
    BY <1>3 DEF Planned
  <2>2. QED
    BY <1>1, <1>3, <2>1, InsertAt DEF TypeOK, Changes, Planned
<1>5. \A j \in 1..(i - 1) : Plan[r][j] \in Planned /\ status[Plan[r][j]] # "absent"
  <2>1. \A j \in 1..(i - 1) : j \in Places(r) /\ ~(j >= i)
    BY PlanPlaces DEF Places
  <2>2. \A j \in Places(r) : Plan[r][j] \in Planned
    BY PlanPlaces, StoreAssumption DEF Planned, StepsOf, Standalone
  <2>3. QED
    BY <1>1, <1>2, <2>1, <2>2 DEF RunInv, Extent, AtStep
<1>6. Ordered!Freeze(r, i)
  BY <1>3, <1>4, <1>5 DEF Changes, Ordered!Move, Ordered!Freeze
<1>7. QED
  BY <1>6 DEF Ordered!OrderedNext, Ordered!Places, Places

\* A run is closed with a verdict that its steps bear out.
LEMMA CloseMaps ==
  ASSUME RunBase, RunBase', NEW r \in Run, NEW to \in Terminal, CloseRun(r, to)
  PROVE  [Ordered!OrderedNext]_(Ordered!orderedVars)
<1>1. status' = status
  BY DEF CloseRun
<1>2. CASE execStatus[r] \notin Active
  BY <1>1, <1>2, UnseenStutters DEF CloseRun, Unseen
<1>3. CASE execStatus[r] \in Active
  <2>1. execStatus[r] = "running"
    BY <1>3 DEF RunBase, RunsInv, RunInv, Extent, Active, Terminal
  <2>2. execStatus'[r] = to /\ \A q \in Run : q # r => execStatus'[q] = execStatus[q]
    BY <1>3 DEF CloseRun, RunBase, Base, TypeOK, StoreTypeOK, Exec
  <2>3. \A i \in Places(r) : Plan[r][i] \in Planned /\ Plan[r][i] \in StepsOf(r)
    BY PlanPlaces, StoreAssumption DEF Planned, StepsOf, Standalone
  <2>4. to = "succeeded" =>
          \A i \in Places(r) : status[Plan[r][i]] \in {"succeeded", "canceled"}
    BY <1>1, <2>2 DEF RunBase, RunsInv, RunInv, Sound, Excused, Places
  <2>5. to = "failed" => \A i \in Places(r) : status[Plan[r][i]] \notin Active
    BY <1>1, <2>2, <2>3 DEF RunBase, RunsInv, RunInv, Ending, StepsOf
  <2>6. Ordered!Finish(r)
    BY <1>1, <2>1, <2>2, <2>3, <2>4, <2>5
       DEF Ordered!Finish, Ordered!Chips, Ordered!Places, Ordered!Open, Ordered!Ends,
           Places, Terminal, Active
  <2>7. QED
    BY <2>6 DEF Ordered!OrderedNext
<1>4. QED
  BY <1>2, <1>3

\* A restart is a crash of OrderedRun.
LEMMA CrashMaps ==
  ASSUME RunBase, Recover
  PROVE  Ordered!OrderedNext
<1>1. /\ \A x \in Planned : status'[x] =
             IF status[x] = "running" \/ (status[x] = "queued" /\ execStatus[RunOf[x]] \in Active)
             THEN "failed" ELSE status[x]
      /\ \A q \in Run : execStatus'[q] =
             IF execStatus[q] \in Active THEN "failed" ELSE execStatus[q]
  BY RecoverAt DEF RunBase, Base
<1>2. \A q \in Run : execStatus[q] \in Active <=> execStatus[q] = "running"
  BY DEF RunBase, RunsInv, RunInv, Extent, Active, Terminal
<1> DEFINE Lost(r, x) == status[x] = "running" \/ (status[x] = "queued" /\ execStatus[r] = "running")
<1>3. ASSUME NEW x \in Planned
      PROVE  Lost(RunOf[x], x) <=> \E r \in Run : x \in Ordered!Chips(r) /\ Lost(r, x)
  <2>1. ASSUME NEW r \in Run, x \in Ordered!Chips(r)
        PROVE  r = RunOf[x]
    BY <2>1, PlanPlaces DEF Ordered!Chips, Ordered!Places, Places, StepsOf
  <2>2. ASSUME Lost(RunOf[x], x)
        PROVE  \E r \in Run : x \in Ordered!Chips(r)
    BY <2>2, PlaceOf DEF Ordered!Chips, Ordered!Places, Places
  <2>3. QED
    BY <2>1, <2>2
<1>4. \A x \in Planned : RunOf[x] \in Run
  BY StoreAssumption DEF Planned, Standalone
<1>5. \A x \in Planned : status'[x] =
        IF \E r \in Run : x \in Ordered!Chips(r) /\ Lost(r, x) THEN "failed" ELSE status[x]
  BY <1>1, <1>2, <1>3, <1>4
<1>6. Ordered!Crash
  BY <1>1, <1>2, <1>5 DEF Ordered!Crash
<1>7. QED
  BY <1>6 DEF Ordered!OrderedNext

\* The transactions of coordinators and cancel requests, serve chips that start and
\* runs that open among them.
LEMMA WritesMap ==
  ASSUME RunBase, RunBase', MaxRequeues = 0, [RunNext]_allVars, NEW r \in Run, RunWrites(r)
  PROVE  [Ordered!OrderedNext]_(Ordered!orderedVars)
<1>1. \A s \in StepsOf(r) : s \in Planned /\ s \in Step
  BY StoreAssumption DEF StepsOf, Planned, Standalone
<1>2. CASE UNCHANGED dbVars
  BY <1>2, UnseenStutters DEF dbVars, Unseen
<1>3. ASSUME NEW s \in StepsOf(r), AtStep(r, "snapshot"), s = Current(r), InsertStep(s)
      PROVE  Ordered!OrderedNext
  BY <1>3, FreezeMaps
<1>4. ASSUME NEW s \in StepsOf(r), SetRunning(s)
      PROVE  Ordered!OrderedNext
  <2>1. status[s] = "queued" /\ status'[s] = "running"
    BY <1>1, <1>4, WriteAt DEF SetRunning
  <2>2. QED
    BY <1>1, <2>1, StartMaps
<1>5. ASSUME NEW s \in StepsOf(r), NEW S \in SUBSET {s}, NEW to, SetStatus(S, to), OnlyStatus,
             s \in S => \/ status[s] = to
                        \/ status[s] = "running" /\ to \in Terminal
                        \/ status[s] = "queued" /\ to \in {"failed", "canceled"}
      PROVE  [Ordered!OrderedNext]_(Ordered!orderedVars)
  <2>1. Changes(s)
    BY <1>1, <1>5, WriteAt DEF Changes, Planned
  <2>2. status'[s] = IF s \in S THEN to ELSE status[s]
    BY <1>1, <1>5, WriteAt
  <2>3. QED
    BY <1>1, <1>5, <2>1, <2>2, EndMaps
<1>6. ASSUME NEW s \in StepsOf(r), SetSucceeded(s)
      PROVE  [Ordered!OrderedNext]_(Ordered!orderedVars)
  BY <1>5, <1>6 DEF SetSucceeded, Terminal
<1>7. ASSUME NEW s \in StepsOf(r), status[s] # "running", SetChipFailed(s)
      PROVE  [Ordered!OrderedNext]_(Ordered!orderedVars)
  BY <1>5, <1>7 DEF SetChipFailed, Active
<1>8. ASSUME NEW s \in StepsOf(r), SkipStep(s)
      PROVE  [Ordered!OrderedNext]_(Ordered!orderedVars)
  BY <1>5, <1>8 DEF SkipStep, Waiting
<1>9. ASSUME NEW s \in StepsOf(r), CancelStep(s)
      PROVE  [Ordered!OrderedNext]_(Ordered!orderedVars)
  <2>1. /\ \A x \in Planned : status'[x] =
             IF x = s /\ status[s] \in Active THEN "canceled" ELSE status[x]
        /\ \A q \in Run : execStatus'[q] = execStatus[q]
    BY <1>1, <1>9, CancelAt DEF RunBase, Base, Planned
  <2>2. QED
    BY <1>1, <2>1, EndMaps DEF Changes, Active, Terminal
<1>10. ASSUME NEW s \in StepsOf(r), MarkDispatchable(s)
       PROVE  [Ordered!OrderedNext]_(Ordered!orderedVars)
  BY <1>10, UnseenStutters DEF MarkDispatchable, Unseen
<1>11. CASE OpenRun(r)
  <2>1. /\ execStatus[r] = "absent" /\ execStatus'[r] = "running" /\ status' = status
        /\ \A q \in Run : execStatus[q] # "running" /\ (q # r => execStatus'[q] = execStatus[q])
    BY <1>11 DEF OpenRun, RunBase, Base, TypeOK, StoreTypeOK, Exec, Active
  <2>2. Ordered!Begin(r)
    BY <2>1 DEF Ordered!Begin
  <2>3. QED
    BY <2>2 DEF Ordered!OrderedNext
<1>12. ASSUME NEW to \in Terminal, CloseRun(r, to)
       PROVE  [Ordered!OrderedNext]_(Ordered!orderedVars)
  BY <1>12, CloseMaps
<1>13. QED
  BY <1>2, <1>3, <1>4, <1>6, <1>7, <1>8, <1>9, <1>10, <1>11, <1>12 DEF RunWrites

\* Every step of the system is one of OrderedRun or none at all.
LEMMA StepMaps ==
  ASSUME RunBase, RunBase', MaxRequeues = 0, [RunNext]_allVars
  PROVE  [Ordered!OrderedNext]_(Ordered!orderedVars)
<1>1. CASE UNCHANGED allVars
  BY <1>1, UnseenStutters DEF allVars, vars, dbVars, Unseen
<1>2. CASE QueueNext
  <2>1. QueueMove
    BY <1>2, QueueMoves DEF RunBase, Base
  <2>2. CASE \A s \in Planned : status'[s] = status[s]
    BY <2>1, <2>2, UnseenStutters DEF QueueMove, Unseen
  <2>3. ASSUME NEW s \in Planned, Taken(s) \/ Ended(s), Changes(s)
        PROVE  [Ordered!OrderedNext]_(Ordered!orderedVars)
    BY <2>3, StartMaps, EndMaps DEF Taken, Ended
  <2>4. QED
    BY <2>1, <2>2, <2>3 DEF QueueMove, Changes
<1>3. ASSUME NEW r \in Run, StartRun(r) \/ CoNext(r) \/ CancelRun(r) \/ CancelNext(r)
      PROVE  [Ordered!OrderedNext]_(Ordered!orderedVars)
  <2>1. Here(r)
    BY <1>3, PrepareHere, LoopHere, EndHere DEF CoNext, RunBase, RunsInv
  <2>2. QED
    BY <2>1, WritesMap DEF Here
<1>4. CASE RestartAll
  BY <1>4, CrashMaps DEF RestartAll, Restart
<1>5. QED
  BY <1>1, <1>2, <1>3, <1>4 DEF RunNext

\* Queue, tasks, coordinators and cancel requests together do what OrderedRun
\* promises of a full run.
THEOREM RunsAreOrdered ==
  ASSUME MaxRequeues = 0
  PROVE  RunSpec => ImplementsOrderedRun
<1>1. RunInit => Ordered!OrderedInit
  BY DEF RunInit, Init, StoreInit, Ordered!OrderedInit, Planned, Exec
<1>2. RunBase /\ RunBase' /\ [RunNext]_allVars =>
        [Ordered!OrderedNext]_(Ordered!orderedVars)
  BY StepMaps
<1>3. QED
  BY <1>1, <1>2, RunsInvariant, PTL DEF RunSpec, ImplementsOrderedRun, Ordered!OrderedSpec

-----------------------------------------------------------------------------
(* Who closes a run                                                        *)

\* The steps of a run are queued in the order of its plan.
Lined(r) ==
  /\ \A i, j \in Places(r) : i < j /\ status[Plan[r][j]] # "absent" =>
       /\ status[Plan[r][i]] # "absent"
       /\ queuedAt[Plan[r][i]] < queuedAt[Plan[r][j]]
  /\ \A s \in StepsOf(r) : status[s] # "absent" => queuedAt[s] < clock

\* What coordinator and cancel request have listed: the request has listed with a step
\* every step that is queued in front of it.
Listed(r) ==
  /\ coPc[r] = "preflight" => todo[r] \subseteq refused
  /\ coPc[r] = "skip" => \A s \in todo[r] : status[s] # "absent"
  /\ canPc[r] = "stop" => \A s \in canTodo[r] : status[s] \notin {"absent", "queued"}
  /\ canPc[r] = "skip" =>
       /\ \A s \in canTodo[r] : status[s] # "absent"
       /\ \A s \in canTodo[r] : \A x \in StepsOf(r) :
            status[x] = "queued" /\ queuedAt[x] < queuedAt[s] => x \in canTodo[r]

\* What is queued is behind what has had its turn.
Behind(r) ==
  \A x, s \in StepsOf(r) :
    /\ status[x] = "queued"
    /\ status[s] # "absent"
    /\ queuedAt[x] < queuedAt[s]
    => status[s] = "queued"

\* Nothing that a request has listed has changed, so it will close the run.
Closing(r) ==
  \/ canPc[r] = "close"
  \/ canPc[r] = "skip" /\ \A s \in canTodo[r] : status[s] = "queued"

\* The same of a coordinator that skips what is left.
Skipping(r) == \A s \in todo[r] : status[s] = "queued"

\* An unfinished run without a refused recipe: coordinator and request skip from the
\* front of the queue, so whoever meets a step the other has skipped leaves the run
\* to one that meets none.
Unrefused(r) == execStatus[r] \in Active /\ refused \cap StepsOf(r) = {}

Kept(r) ==
  Unrefused(r) =>
    /\ Behind(r)
    /\ coPc[r] = "skip" => Skipping(r) \/ Closing(r)
    /\ coPc[r] = "none" => Closing(r)

KeeperInv(r) == Lined(r) /\ Listed(r) /\ Kept(r)

\* A step is stamped when it is queued, and keeps its stamp.
LEMMA Stamps ==
  ASSUME StoreTypeOK, CalmStep, NEW s \in Step
  PROVE  /\ clock \in Nat /\ clock' \in Nat /\ clock <= clock'
         /\ queuedAt[s] \in Nat /\ queuedAt'[s] \in Nat
         /\ status[s] # "absent" => status'[s] # "absent" /\ queuedAt'[s] = queuedAt[s]
         /\ status[s] = "absent" /\ status'[s] # "absent" =>
              status'[s] = "queued" /\ queuedAt'[s] = clock /\ clock < clock'
         /\ status'[s] = "queued" => status[s] \in {"absent", "queued"}
<1>1. Course(s)
  BY CourseStep
<1>2. ASSUME NEW x \in Step, InsertStep(x)
      PROVE  /\ clock' = clock + 1
             /\ queuedAt'[s] = IF x = s THEN clock ELSE queuedAt[s]
             /\ x = s => status[s] = "absent"
  BY <1>2 DEF InsertStep, StoreTypeOK
<1>3. (\E x \in Step : InsertStep(x)) \/ UNCHANGED <<clock, queuedAt>>
  BY DEF CalmStep, dbVars, SetRunning, SetSucceeded, SetChipFailed, SetExtractFailed,
         FinishStep, FailJob, CancelStep, SkipStep, MarkDispatchable, LinkChild,
         CompleteLinkedJob, OpenRun, CloseRun, Recover, OnlyStatus
<1>4. ASSUME status[s] = "absent", status'[s] # "absent"
      PROVE  status'[s] = "queued" /\ queuedAt'[s] = clock /\ clock' = clock + 1
  BY <1>2, <1>4, Appears DEF InsertStep, StoreTypeOK
<1>5. QED
  BY <1>1, <1>2, <1>3, <1>4 DEF StoreTypeOK, Course, Active, Terminal

\* The only step of a run that a coordinator queues is the next one of the plan.
Entering(r) ==
  \A s \in StepsOf(r) : status[s] = "absent" /\ status'[s] # "absent" =>
    AtStep(r, "snapshot") /\ s = Current(r)

\* The order of the plan stays the order of the queue.
LEMMA LinedStep ==
  ASSUME StoreTypeOK, NEW r \in Run, RunInv(r), Lined(r), CalmStep, Entering(r)
  PROVE  Lined(r)'
<1> USE DEF Lined
<1>1. /\ Places(r)' = Places(r) /\ StepsOf(r)' = StepsOf(r)
      /\ \A s \in StepsOf(r) : s \in Step
      /\ \A i \in Places(r) : i \in Nat /\ Plan[r][i] \in StepsOf(r) /\ Plan[r][i] \in Step
  BY PlanPlaces DEF Places, StepsOf
<1>2. ASSUME NEW i \in Places(r), NEW j \in Places(r), i < j, status'[Plan[r][j]] # "absent"
      PROVE  /\ status'[Plan[r][i]] # "absent"
             /\ queuedAt'[Plan[r][i]] < queuedAt'[Plan[r][j]]
  <2>1. CASE status[Plan[r][j]] # "absent"
    BY <1>1, <1>2, <2>1, Stamps
  <2>2. CASE status[Plan[r][j]] = "absent"
    <3>1. coPos[r] \in Places(r) /\ coPc[r] = "snapshot" /\ Plan[r][j] = Plan[r][coPos[r]]
      BY <1>1, <1>2, <2>2, CurrentStep DEF Entering, Current, AtStep
    <3>2. j = coPos[r]
      BY <3>1, PlanPlaces
    <3>3. status[Plan[r][i]] # "absent"
      BY <1>1, <1>2, <3>1, <3>2 DEF RunInv, Extent
    <3>4. queuedAt[Plan[r][i]] < clock
      BY <1>1, <3>3
    <3>5. QED
      BY <1>1, <1>2, <2>2, <3>3, <3>4, Stamps
  <2>3. QED
    BY <2>1, <2>2
<1>3. ASSUME NEW s \in StepsOf(r), status'[s] # "absent"
      PROVE  queuedAt'[s] < clock'
  BY <1>1, <1>3, Stamps
<1>4. QED
  BY <1>1, <1>2, <1>3

\* The list of a request stays closed downwards while the request does nothing.
LEMMA ListStays ==
  ASSUME StoreTypeOK, NEW r \in Run, RunInv(r), Lined(r), CalmStep,
         canPc[r] = "skip", Listed(r)
  PROVE  /\ \A s \in canTodo[r] : status'[s] # "absent"
         /\ \A s \in canTodo[r] : \A x \in StepsOf(r) :
              status'[x] = "queued" /\ queuedAt'[x] < queuedAt'[s] => x \in canTodo[r]
<1>1. canTodo[r] \subseteq StepsOf(r) /\ \A s \in StepsOf(r) : s \in Step
  BY DEF RunInv, Extent, StepsOf
<1>2. \A s \in canTodo[r] : status[s] # "absent" /\ queuedAt[s] < clock
  BY <1>1 DEF Listed, Lined
<1>3. ASSUME NEW s \in canTodo[r], NEW x \in StepsOf(r),
             status'[x] = "queued", queuedAt'[x] < queuedAt'[s]
      PROVE  x \in canTodo[r]
  <2>1. s \in Step /\ x \in Step /\ queuedAt'[s] = queuedAt[s]
    BY <1>1, <1>2, Stamps
  <2>2. status[x] = "queued"
    BY <1>2, <1>3, <2>1, Stamps
  <2>3. queuedAt'[x] = queuedAt[x]
    BY <2>1, <2>2, Stamps
  <2>4. QED
    BY <1>3, <2>1, <2>2, <2>3 DEF Listed
<1>4. QED
  BY <1>1, <1>2, <1>3, Stamps

\* The steps of a run leave the queue from the front.
FromFront(r) ==
  \A s, x \in StepsOf(r) :
    status[s] = "queued" /\ status'[s] # "queued" /\ status[x] = "queued" =>
      queuedAt[s] <= queuedAt[x]

\* So nothing that waits gets in front of what has had its turn.
LEMMA BehindStep ==
  ASSUME StoreTypeOK, NEW r \in Run, Lined(r), Behind(r), CalmStep, FromFront(r)
  PROVE  Behind(r)'
<1>1. StepsOf(r)' = StepsOf(r) /\ \A s \in StepsOf(r) : s \in Step
  BY DEF StepsOf
<1>2. ASSUME NEW x \in StepsOf(r), NEW s \in StepsOf(r),
             status'[x] = "queued", status'[s] # "absent", queuedAt'[x] < queuedAt'[s]
      PROVE  status'[s] = "queued"
  <2>1. CASE status[s] = "absent"
    BY <1>1, <1>2, <2>1, Stamps
  <2>2. CASE status[s] # "absent"
    <3>1. queuedAt'[s] = queuedAt[s] /\ queuedAt[s] < clock
      BY <1>1, <2>2, Stamps DEF Lined
    <3>2. status[x] = "queued"
      BY <1>1, <1>2, <3>1, Stamps
    <3>3. queuedAt[x] < queuedAt[s] /\ queuedAt[x] \in Nat /\ queuedAt[s] \in Nat
      BY <1>1, <1>2, <3>1, <3>2, Stamps
    <3>4. status[s] = "queued"
      BY <2>2, <3>2, <3>3 DEF Behind
    <3>5. QED
      BY <3>2, <3>3, <3>4 DEF FromFront
  <2>3. QED
    BY <2>1, <2>2
<1>3. QED
  BY <1>1, <1>2 DEF Behind

\* A step whose predecessors in the plan have ended is the first of those that wait.
LEMMA FrontAt ==
  ASSUME StoreTypeOK, NEW r \in Run, RunInv(r), Lined(r),
         NEW i \in Places(r), \A j \in Places(r) : j < i => Over(Plan[r][j]),
         NEW x \in StepsOf(r), status[x] = "queued"
  PROVE  queuedAt[Plan[r][i]] <= queuedAt[x]
<1>1. PICK k \in Places(r) : Plan[r][k] = x
  BY DEF RunInv, Placed
<1>2. ~(k < i)
  BY <1>1 DEF Over, Terminal
<1>3. CASE i < k
  <2>1. queuedAt[Plan[r][i]] < queuedAt[Plan[r][k]]
    BY <1>1, <1>3 DEF Lined
  <2>2. Plan[r][i] \in Step /\ x \in Step
    BY PlanPlaces DEF StepsOf
  <2>3. QED
    BY <1>1, <2>1, <2>2 DEF StoreTypeOK
<1>4. CASE i = k
  BY <1>1, <1>4 DEF StoreTypeOK, StepsOf
<1>5. QED
  BY <1>2, <1>3, <1>4 DEF Places

\* Where the first step of a list still waits, so do the others.
LEMMA FirstWaits ==
  ASSUME StoreTypeOK, NEW r \in Run, RunInv(r), Lined(r), Behind(r),
         NEW S \in SUBSET StepsOf(r), S # {}, \A s \in S : status[s] # "absent",
         status[Earliest(S)] = "queued"
  PROVE  \A s \in S : status[s] = "queued"
<1>1. S \in SUBSET Step
  BY DEF StepsOf
<1>2. PICK e \in S : e = Earliest(S) /\ \A x \in S : queuedAt[e] <= queuedAt[x]
  BY <1>1, EarliestIn
<1>3. ASSUME NEW s \in S, status[s] # "queued"
      PROVE  FALSE
  <2>1. ~(queuedAt[e] < queuedAt[s])
    BY <1>2, <1>3 DEF Behind
  <2>2. queuedAt[e] = queuedAt[s]
    BY <1>1, <1>2, <2>1 DEF StoreTypeOK
  <2>3. PICK i \in Places(r) : Plan[r][i] = e
    BY <1>2 DEF RunInv, Placed
  <2>4. PICK j \in Places(r) : Plan[r][j] = s
    BY DEF RunInv, Placed
  <2>5. ~(i < j) /\ ~(j < i)
    BY <1>1, <1>2, <2>2, <2>3, <2>4 DEF Lined, StoreTypeOK
  <2>6. QED
    BY <1>2, <1>3, <2>3, <2>4, <2>5 DEF Places
<1>4. QED
  BY <1>3

\* Coordinators and cancel requests queue no other step.
LEMMA WritesEnter ==
  ASSUME StoreTypeOK, CalmStep, NEW r \in Run, RunWrites(r)
  PROVE  Entering(r)
<1>1. SUFFICES ASSUME NEW s \in StepsOf(r), status[s] = "absent", status'[s] # "absent"
               PROVE  AtStep(r, "snapshot") /\ s = Current(r)
  BY DEF Entering
<1>2. s \in Step /\ InsertStep(s)
  BY <1>1, Appears DEF StepsOf
<1>3. clock' # clock
  BY <1>2 DEF InsertStep, StoreTypeOK
<1>4. PICK x \in StepsOf(r) : AtStep(r, "snapshot") /\ x = Current(r) /\ InsertStep(x)
  BY <1>3 DEF RunWrites, dbVars, SetRunning, SetSucceeded, SetChipFailed, SkipStep,
              CancelStep, MarkDispatchable, OpenRun, CloseRun, OnlyStatus
<1>5. x = s
  BY <1>2, <1>4 DEF InsertStep, StoreTypeOK, StepsOf
<1>6. QED
  BY <1>4, <1>5

\* They take steps out of the queue from the front, unless a recipe was refused.
LEMMA WritesFromFront ==
  ASSUME TypeOK, LinkInv, NEW r \in Run, RunInv(r), Lined(r), Listed(r), RunWrites(r),
         refused \cap StepsOf(r) = {}
  PROVE  FromFront(r)
<1>1. \A s \in StepsOf(r) : s \in Step /\ ~Standalone(s)
  BY StoreAssumption DEF StepsOf, Standalone
<1>2. CASE status' = status
  BY <1>2 DEF FromFront
<1>3. ASSUME NEW s \in StepsOf(r), \A y \in StepsOf(r) : y # s => status'[y] = status[y],
             status[s] = "queued" =>
               \A x \in StepsOf(r) : status[x] = "queued" => queuedAt[s] <= queuedAt[x]
      PROVE  FromFront(r)
  BY <1>3 DEF FromFront
<1>4. ASSUME NEW s \in StepsOf(r), NEW S \in SUBSET {s}, NEW to, SetStatus(S, to), OnlyStatus
      PROVE  \A y \in StepsOf(r) : y # s => status'[y] = status[y]
  BY <1>1, <1>4, WriteAt
<1>5. ASSUME NEW s \in StepsOf(r), OnTurn(r, s), NEW x \in StepsOf(r), status[x] = "queued"
      PROVE  queuedAt[s] <= queuedAt[x]
  BY <1>5, FrontAt DEF TypeOK, OnTurn, Current, RunInv, InOrder
<1>6. ASSUME NEW s \in StepsOf(r), NextSkip(r, s), NEW x \in StepsOf(r), status[x] = "queued"
      PROVE  queuedAt[s] <= queuedAt[x]
  <2>1. todo[r] \in SUBSET Step /\ canTodo[r] \in SUBSET Step
    BY DEF RunInv, Extent, StepsOf
  <2>2. queuedAt[s] \in Nat /\ queuedAt[x] \in Nat
    BY <1>1 DEF TypeOK, StoreTypeOK
  <2>3. CASE coPc[r] = "skip" /\ todo[r] # {} /\ s = Earliest(todo[r])
    <3>1. x \in todo[r]
      BY <1>6, <2>3 DEF RunInv, Ending, QueuedOf
    <3>2. QED
      BY <2>1, <2>3, <3>1, EarliestIn DEF TypeOK
  <2>4. CASE canPc[r] = "skip" /\ canTodo[r] # {} /\ s = Earliest(canTodo[r])
    <3>1. s \in canTodo[r] /\ \A y \in canTodo[r] : queuedAt[s] <= queuedAt[y]
      BY <2>1, <2>4, EarliestIn DEF TypeOK
    <3>2. queuedAt[x] < queuedAt[s] => x \in canTodo[r]
      BY <1>6, <2>4, <3>1 DEF Listed
    <3>3. QED
      BY <2>2, <3>1, <3>2
  <2>5. QED
    BY <1>6, <2>3, <2>4 DEF NextSkip
<1>7. ASSUME NEW s \in StepsOf(r), AtStep(r, "snapshot"), InsertStep(s)
      PROVE  FromFront(r)
  BY <1>1, <1>3, <1>7, InsertAt DEF TypeOK
<1>8. ASSUME NEW s \in StepsOf(r), OnTurn(r, s), SetRunning(s) \/ SetSucceeded(s)
      PROVE  FromFront(r)
  BY <1>3, <1>4, <1>5, <1>8 DEF SetRunning, SetSucceeded
<1>9. ASSUME NEW s \in StepsOf(r), OnTurn(r, s) \/ (coPc[r] = "preflight" /\ s \in todo[r]),
             SetChipFailed(s)
      PROVE  FromFront(r)
  <2>1. OnTurn(r, s)
    BY <1>9 DEF Listed
  <2>2. QED
    BY <1>3, <1>4, <1>5, <1>9, <2>1 DEF SetChipFailed
<1>10. ASSUME NEW s \in StepsOf(r), OnTurn(r, s) \/ NextSkip(r, s), SkipStep(s)
       PROVE  FromFront(r)
  BY <1>3, <1>4, <1>5, <1>6, <1>10 DEF SkipStep
<1>11. ASSUME NEW s \in StepsOf(r), canPc[r] = "stop", s \in canTodo[r], CancelStep(s)
       PROVE  FromFront(r)
  BY <1>1, <1>3, <1>11, CancelAt DEF Listed
<1>12. QED
  BY <1>2, <1>7, <1>8, <1>9, <1>10, <1>11
     DEF RunWrites, dbVars, MarkDispatchable, OpenRun, CloseRun

\* What the others do to a run: its live step starts or ends.
Apart(r) ==
  /\ coPc'[r] = coPc[r] /\ todo'[r] = todo[r]
  /\ canPc'[r] = canPc[r] /\ canTodo'[r] = canTodo[r]
  /\ execStatus'[r] = execStatus[r]
  /\ \A s \in StepsOf(r) :
       /\ s \in refused' <=> s \in refused
       /\ status'[s] = status[s] \/ (Live(s) /\ status'[s] \notin {"absent", "queued"})

\* It keeps whoever is to close the run.
LEMMA ApartKeeps ==
  ASSUME StoreTypeOK, NEW r \in Run, RunInv(r), KeeperInv(r), CalmStep, Apart(r)
  PROVE  KeeperInv(r)'
<1> USE DEF KeeperInv
<1>1. /\ StepsOf(r)' = StepsOf(r) /\ \A s \in StepsOf(r) : s \in Step
      /\ todo[r] \subseteq StepsOf(r) /\ canTodo[r] \subseteq StepsOf(r)
  BY DEF StepsOf, RunInv, Extent
<1>2. Lined(r)'
  <2>1. Entering(r)
    BY DEF Entering, Apart, Live
  <2>2. QED
    BY <2>1, LinedStep
<1>3. Listed(r)'
  <2>1. \A s \in StepsOf(r) : status[s] # "absent" => status'[s] # "absent"
    BY <1>1, Stamps
  <2>2. \A s \in StepsOf(r) : status[s] \notin {"absent", "queued"} =>
          status'[s] \notin {"absent", "queued"}
    BY <1>1, Stamps
  <2>3. canPc[r] = "skip" =>
          /\ \A s \in canTodo[r] : status'[s] # "absent"
          /\ \A s \in canTodo[r] : \A x \in StepsOf(r) :
               status'[x] = "queued" /\ queuedAt'[x] < queuedAt'[s] => x \in canTodo[r]
    BY ListStays
  <2>4. QED
    BY <1>1, <2>1, <2>2, <2>3 DEF Listed, Apart
<1>4. ASSUME Unrefused(r)'
      PROVE  /\ Behind(r)'
             /\ coPc'[r] = "skip" => Skipping(r)' \/ Closing(r)'
             /\ coPc'[r] = "none" => Closing(r)'
  <2>1. Unrefused(r)
    BY <1>1, <1>4 DEF Unrefused, Apart
  <2>2. execStatus[r] # "canceled"
    BY <2>1 DEF Unrefused, Active
  <2>3. ASSUME NEW s \in StepsOf(r), Live(s)
        PROVE  /\ coPc[r] \in {"waiting", "serving"}
               /\ \A x \in StepsOf(r) : status[x] = "queued" => queuedAt[s] <= queuedAt[x]
    <3>1. PICK i \in Places(r) : Plan[r][i] = s
      BY <2>3 DEF RunInv, Placed, Live
    <3>2. /\ \A j \in Places(r) : j < i => Over(Plan[r][j])
          /\ coPc[r] \in {"waiting", "serving"}
      BY <2>2, <2>3, <3>1 DEF RunInv, InOrder
    <3>3. QED
      BY <3>1, <3>2, FrontAt
  <2>4. FromFront(r)
    BY <2>3 DEF FromFront, Apart
  <2>5. Behind(r)'
    BY <2>1, <2>4, BehindStep DEF Kept
  <2>6. CASE coPc[r] \in {"skip", "none"}
    <3>1. \A s \in StepsOf(r) : status'[s] = status[s]
      BY <2>3, <2>6 DEF Apart
    <3>2. Skipping(r) => Skipping(r)'
      BY <1>1, <3>1 DEF Skipping, Apart
    <3>3. Closing(r) => Closing(r)'
      BY <1>1, <3>1 DEF Closing, Apart
    <3>4. QED
      BY <2>1, <2>5, <3>2, <3>3 DEF Kept, Apart
  <2>7. QED
    BY <2>5, <2>6 DEF Apart
<1>5. QED
  BY <1>2, <1>3, <1>4 DEF Kept

\* Where a coordinator goes, as far as it matters to who closes the run.
Heads(r) ==
  \/ coPc'[r] \notin {"none", "skip", "preflight"}
  \/ coPc'[r] = "preflight" /\ todo'[r] \subseteq refused'
  \/ coPc'[r] = "skip" /\ UNCHANGED dbVars /\ todo'[r] = QueuedOf(r)
  \/ coPc'[r] = "none" /\ execStatus'[r] \notin Active
  \/ /\ coPc[r] = "skip" /\ todo[r] # {}
     /\ \/ /\ SkipStep(Earliest(todo[r]))
           /\ coPc'[r] = "skip"
           /\ todo'[r] = todo[r] \ {Earliest(todo[r])}
        \/ /\ ~Waiting(Earliest(todo[r]))
           /\ UNCHANGED dbVars
           /\ coPc'[r] = "none"

\* Every action of a coordinator is one of these.
LEMMA CoHeads ==
  ASSUME RunTypeOK, NEW r \in Run, RunInv(r), Listed(r), StartRun(r) \/ CoNext(r)
  PROVE  Heads(r) /\ refused \subseteq refused' /\ UNCHANGED canVars
<1> USE DEF Heads, RunTypeOK, CoGoto, Advance, Abort
<1>1. CASE StartRun(r) \/ Prepare(r) \/ Snapshot(r)
  BY <1>1 DEF StartRun, Prepare, Snapshot
<1>2. CASE SnapshotDone(r)
  BY <1>2 DEF SnapshotDone
<1>3. CASE Preflight(r)
  BY <1>3 DEF Preflight, Listed
<1>4. CASE PassRefused(r) \/ ServeBegin(r) \/ ServeEnd(r) \/ PassOver(r)
  BY <1>4 DEF PassRefused, ServeBegin, ServeEnd, PassOver
<1>5. CASE Bind(r) \/ Mark(r) \/ Wait(r) \/ PlanDone(r)
  BY <1>5 DEF Bind, Mark, Wait, PlanDone
<1>6. CASE ChipError(r) \/ RecordChipError(r)
  BY <1>6 DEF ChipError, RecordChipError, FailCurrent
<1>7. CASE Verdict(r)
  BY <1>7 DEF Verdict
<1>8. CASE SkipRest(r)
  BY <1>8 DEF SkipRest
<1>9. CASE Close(r)
  <2>1. result[r] \notin Active
    BY <1>9 DEF Close, RunInv, Ending, Active, Terminal
  <2>2. execStatus'[r] \notin Active
    BY <1>9, <2>1 DEF Close, CloseRun, TypeOK, StoreTypeOK, Exec
  <2>3. QED
    BY <1>9, <2>2 DEF Close
<1>10. QED
  BY <1>1, <1>2, <1>3, <1>4, <1>5, <1>6, <1>7, <1>8, <1>9 DEF CoNext

\* A run that has been canceled stays so.
LEMMA WritesClosed ==
  ASSUME TypeOK, LinkInv, NEW r \in Run, RunWrites(r), execStatus[r] = "canceled"
  PROVE  execStatus'[r] = "canceled"
<1>1. \A s \in StepsOf(r) : s \in Step /\ ~Standalone(s)
  BY StoreAssumption DEF StepsOf, Standalone
<1>2. CASE execStatus' = execStatus
  BY <1>2
<1>3. ASSUME NEW s \in StepsOf(r), InsertStep(s)
      PROVE  execStatus'[r] = execStatus[r]
  BY <1>1, <1>3, InsertAt DEF TypeOK
<1>4. ASSUME NEW S, NEW to, SetStatus(S, to), OnlyStatus
      PROVE  execStatus'[r] = execStatus[r]
  BY <1>4, WriteAt
<1>5. ASSUME NEW s \in StepsOf(r), CancelStep(s)
      PROVE  execStatus'[r] = execStatus[r]
  BY <1>1, <1>5, CancelAt
<1>6. ASSUME NEW to, OpenRun(r) \/ CloseRun(r, to)
      PROVE  execStatus'[r] = execStatus[r]
  BY <1>6 DEF OpenRun, CloseRun, Active
<1>7. QED
  BY <1>2, <1>3, <1>4, <1>5, <1>6
     DEF RunWrites, dbVars, MarkDispatchable, SetRunning, SetSucceeded, SetChipFailed, SkipStep

\* A coordinator that gives up leaves the run to the request whose skip it met.
LEMMA CoKeepsKeeper ==
  ASSUME RunTypeOK, LinkInv, NEW r \in Run, RunInv(r), KeeperInv(r),
         StartRun(r) \/ CoNext(r), RunWrites(r), CalmStep
  PROVE  KeeperInv(r)'
<1> USE DEF KeeperInv
<1>1. /\ StepsOf(r)' = StepsOf(r) /\ \A s \in StepsOf(r) : s \in Step
      /\ todo[r] \subseteq StepsOf(r) /\ canTodo[r] \subseteq StepsOf(r)
      /\ StoreTypeOK /\ TypeOK
  BY DEF StepsOf, RunInv, Extent, RunTypeOK, TypeOK
<1>2. Heads(r) /\ refused \subseteq refused' /\ canPc' = canPc /\ canTodo' = canTodo
  BY CoHeads DEF canVars
<1>3. Lined(r)'
  BY <1>1, WritesEnter, LinedStep
<1>4. ASSUME coPc[r] = "skip", todo[r] # {}, SkipStep(Earliest(todo[r]))
      PROVE  /\ Earliest(todo[r]) \in todo[r] /\ status[Earliest(todo[r])] = "queued"
             /\ \A x \in Step : x # Earliest(todo[r]) => status'[x] = status[x]
  <2>1. Earliest(todo[r]) \in todo[r] /\ Earliest(todo[r]) \in Step
    BY <1>1, <1>4, EarliestIn
  <2>2. QED
    BY <1>4, <2>1, WriteAt DEF SkipStep, Waiting
<1>5. Listed(r)'
  <2>1. \A s \in StepsOf(r) : status[s] # "absent" => status'[s] # "absent"
    BY <1>1, Stamps
  <2>2. \A s \in StepsOf(r) : status[s] \notin {"absent", "queued"} =>
          status'[s] \notin {"absent", "queued"}
    BY <1>1, Stamps
  <2>3. canPc[r] = "skip" =>
          /\ \A s \in canTodo[r] : status'[s] # "absent"
          /\ \A s \in canTodo[r] : \A x \in StepsOf(r) :
               status'[x] = "queued" /\ queuedAt'[x] < queuedAt'[s] => x \in canTodo[r]
    BY <1>1, ListStays
  <2>4. coPc'[r] = "skip" => \A s \in todo'[r] : status'[s] # "absent"
    BY <1>1, <1>2, <2>1 DEF Heads, Listed, QueuedOf, dbVars
  <2>5. coPc'[r] = "preflight" => todo'[r] \subseteq refused'
    BY <1>2 DEF Heads
  <2>6. QED
    BY <1>1, <1>2, <2>1, <2>2, <2>3, <2>4, <2>5 DEF Listed
<1>6. ASSUME Unrefused(r)'
      PROVE  /\ Behind(r)'
             /\ coPc'[r] = "skip" => Skipping(r)' \/ Closing(r)'
             /\ coPc'[r] = "none" => Closing(r)'
  <2>1. execStatus'[r] \in Active /\ refused \cap StepsOf(r) = {}
    BY <1>1, <1>2, <1>6 DEF Unrefused
  <2>2. CASE StartRun(r)
    <3>1. /\ \A s \in StepsOf(r) : status'[s] = "absent"
          /\ coPc'[r] = "prepare"
      BY <2>2 DEF StartRun, OpenRun, CoGoto, RunTypeOK, RunInv, Extent
    <3>2. QED
      BY <1>1, <3>1 DEF Behind
  <2>3. CASE CoNext(r)
    <3>1. execStatus[r] = "running"
      <4>1. coPc[r] # "none"
        BY <2>3 DEF CoNext, Prepare, Snapshot, SnapshotDone, Preflight, PassRefused,
           ServeBegin, ServeEnd, HasTurn, PassOver, Bind, Mark, Wait, ChipError,
           RecordChipError, PlanDone, Verdict, SkipRest, Close, AtStep
      <4>2. execStatus[r] \in {"running", "canceled"}
        BY <4>1 DEF RunInv, Extent
      <4>3. execStatus[r] = "canceled" => execStatus'[r] = "canceled"
        BY <1>1, WritesClosed
      <4>4. QED
        BY <2>1, <4>2, <4>3 DEF Active
    <3>2. Unrefused(r) /\ Behind(r)
      BY <2>1, <3>1 DEF Unrefused, Active, Kept
    <3>3. Behind(r)'
      BY <1>1, <2>1, <3>2, WritesFromFront, BehindStep
    <3>4. CASE coPc'[r] = "skip" /\ UNCHANGED dbVars /\ todo'[r] = QueuedOf(r)
      BY <3>3, <3>4 DEF Skipping, QueuedOf, dbVars
    <3>5. CASE coPc[r] = "skip" /\ todo[r] # {} /\ SkipStep(Earliest(todo[r]))
               /\ coPc'[r] = "skip" /\ todo'[r] = todo[r] \ {Earliest(todo[r])}
      <4>1. \A s \in todo[r] : status[s] = "queued"
        BY <1>1, <1>4, <3>2, <3>5, FirstWaits DEF Listed
      <4>2. Skipping(r)'
        BY <1>1, <1>4, <3>5, <4>1 DEF Skipping
      <4>3. QED
        BY <3>3, <3>5, <4>2
    <3>6. CASE coPc[r] = "skip" /\ todo[r] # {} /\ ~Waiting(Earliest(todo[r]))
               /\ UNCHANGED dbVars /\ coPc'[r] = "none"
      <4>1. Earliest(todo[r]) \in todo[r]
        BY <1>1, <3>6, EarliestIn
      <4>2. status[Earliest(todo[r])] # "queued"
        BY <1>1, <3>1, <3>6, <4>1, StoreAssumption DEF Waiting, Standalone, StepsOf
      <4>3. Closing(r)
        BY <3>2, <3>6, <4>1, <4>2 DEF Kept, Skipping
      <4>4. Closing(r)'
        BY <1>2, <3>6, <4>3 DEF Closing, dbVars
      <4>5. QED
        BY <3>3, <3>6, <4>4
    <3>7. QED
      BY <1>2, <2>1, <3>3, <3>4, <3>5, <3>6 DEF Heads
  <2>4. QED
    BY <2>2, <2>3
<1>7. QED
  BY <1>3, <1>5, <1>6 DEF Kept

\* A request that gives up leaves the run to the coordinator whose skip it met.
LEMMA CancelKeepsKeeper ==
  ASSUME RunTypeOK, LinkInv, NEW r \in Run, RunInv(r), KeeperInv(r),
         CancelRun(r) \/ CancelNext(r), RunWrites(r), CalmStep
  PROVE  KeeperInv(r)'
<1> USE DEF KeeperInv, RunTypeOK, CanGoto
<1>1. /\ StepsOf(r)' = StepsOf(r) /\ \A s \in StepsOf(r) : s \in Step /\ ~Standalone(s)
      /\ todo[r] \subseteq StepsOf(r) /\ canTodo[r] \subseteq StepsOf(r)
      /\ StoreTypeOK
  BY StoreAssumption DEF StepsOf, Standalone, RunInv, Extent, TypeOK
<1>2. coPc' = coPc /\ todo' = todo /\ refused' = refused
  BY DEF CancelRun, CancelNext, CancelListRunning, CancelStop, CancelListQueued, CancelSkip,
         CancelClose, coVars
<1>3. Lined(r)'
  BY <1>1, WritesEnter, LinedStep
<1>4. /\ \A s \in StepsOf(r) : status[s] # "absent" => status'[s] # "absent"
      /\ \A s \in StepsOf(r) : status[s] \notin {"absent", "queued"} =>
           status'[s] \notin {"absent", "queued"}
  BY <1>1, Stamps
<1>5. /\ coPc'[r] = "preflight" => todo'[r] \subseteq refused'
      /\ coPc'[r] = "skip" => \A s \in todo'[r] : status'[s] # "absent"
  BY <1>1, <1>2, <1>4 DEF Listed
<1>6. ASSUME Unrefused(r)', execStatus'[r] = execStatus[r]
      PROVE  /\ Unrefused(r) /\ Behind(r) /\ Behind(r)' /\ execStatus[r] = "running"
             /\ coPc[r] = "skip" => Skipping(r) \/ Closing(r)
             /\ coPc[r] = "none" => Closing(r)
  <2>1. Unrefused(r)
    BY <1>1, <1>2, <1>6 DEF Unrefused
  <2>2. execStatus[r] = "running"
    BY <2>1 DEF Unrefused, Active, RunInv, Extent, Terminal
  <2>3. FromFront(r)
    BY <2>1, WritesFromFront DEF Unrefused
  <2>4. QED
    BY <1>1, <2>1, <2>2, <2>3, BehindStep DEF Kept
<1>7. ASSUME UNCHANGED dbVars, ~Closing(r), Listed(r)'
      PROVE  KeeperInv(r)'
  <2>1. execStatus' = execStatus /\ status' = status
    BY <1>7 DEF dbVars
  <2>2. Skipping(r) => Skipping(r)'
    BY <1>2, <2>1 DEF Skipping
  <2>3. QED
    BY <1>2, <1>3, <1>6, <1>7, <2>1, <2>2 DEF Kept
<1>8. ASSUME UNCHANGED dbVars, Closing(r)', Listed(r)'
      PROVE  KeeperInv(r)'
  <2>1. execStatus' = execStatus
    BY <1>8 DEF dbVars
  <2>2. QED
    BY <1>3, <1>6, <1>8, <2>1 DEF Kept
<1>9. CASE CancelRun(r)
  BY <1>5, <1>7, <1>9 DEF CancelRun, Listed, Closing
<1>10. CASE CancelListRunning(r)
  <2>1. Listed(r)'
    BY <1>1, <1>4, <1>5, <1>10 DEF CancelListRunning, Listed
  <2>2. QED
    BY <1>7, <1>10, <2>1 DEF CancelListRunning, Closing
<1>11. CASE CancelStop(r)
  <2>1. CASE canTodo[r] = {} /\ UNCHANGED dbVars /\ canPc'[r] = "list_queued"
    BY <1>5, <1>7, <1>11, <2>1 DEF CancelStop, Closing, Listed
  <2>2. ASSUME NEW s \in canTodo[r], CancelStep(s), canTodo'[r] = canTodo[r] \ {s},
               canPc' = canPc
        PROVE  KeeperInv(r)'
    <3>1. Listed(r)'
      BY <1>1, <1>4, <1>5, <1>11, <2>2 DEF CancelStop, Listed
    <3>2. /\ \A x \in StepsOf(r) : x # s => status'[x] = status[x]
          /\ execStatus'[r] = execStatus[r]
      BY <1>1, <2>2, CancelAt
    <3>3. ASSUME Skipping(r)
          PROVE  Skipping(r)'
      <4>1. status[s] # "queued"
        BY <1>11, <2>2 DEF CancelStop, Listed
      <4>2. s \notin todo[r]
        BY <3>3, <4>1 DEF Skipping
      <4>3. QED
        BY <1>1, <1>2, <3>2, <3>3, <4>2 DEF Skipping
    <3>4. ~Closing(r)
      BY <1>11 DEF CancelStop, Closing
    <3>5. QED
      BY <1>2, <1>3, <1>6, <3>1, <3>2, <3>3, <3>4 DEF Kept
  <2>3. QED
    BY <1>11, <2>1, <2>2 DEF CancelStop
<1>12. CASE CancelListQueued(r)
  <2>1. /\ canPc'[r] = "skip" /\ canTodo'[r] = QueuedOf(r) /\ UNCHANGED dbVars
    BY <1>12 DEF CancelListQueued
  <2>2. Listed(r)'
    BY <1>5, <2>1 DEF Listed, QueuedOf, dbVars, StepsOf
  <2>3. Closing(r)'
    BY <2>1 DEF Closing, QueuedOf, dbVars
  <2>4. QED
    BY <1>8, <2>1, <2>2, <2>3
<1>13. CASE CancelSkip(r)
  <2>1. canPc[r] = "skip"
    BY <1>13 DEF CancelSkip
  <2>2. CASE canTodo[r] = {} /\ UNCHANGED dbVars /\ canPc'[r] = "close"
    BY <1>5, <1>8, <2>2 DEF Closing, Listed
  <2>3. ASSUME NEW s \in canTodo[r], s = Earliest(canTodo[r])
        PROVE  KeeperInv(r)'
    <3>1. CASE SkipStep(s) /\ canTodo'[r] = canTodo[r] \ {s} /\ canPc' = canPc
      <4>1. /\ \A x \in StepsOf(r) : status'[x] = IF x = s THEN "canceled" ELSE status[x]
            /\ execStatus'[r] = execStatus[r]
            /\ queuedAt' = queuedAt
            /\ status[s] = "queued"
        BY <1>1, <3>1, WriteAt DEF SkipStep, Waiting
      <4>2. Listed(r)'
        BY <1>1, <1>5, <2>1, <3>1, <4>1 DEF Listed
      <4>3. ASSUME Unrefused(r)'
            PROVE  Closing(r)' /\ Behind(r)'
        <5>1. Behind(r)
          BY <1>6, <4>1, <4>3
        <5>2. \A x \in canTodo[r] : status[x] = "queued"
          BY <1>1, <2>1, <2>3, <4>1, <5>1, FirstWaits DEF Listed
        <5>3. QED
          BY <1>1, <1>6, <2>1, <3>1, <4>1, <4>3, <5>2 DEF Closing
      <4>4. QED
        BY <1>3, <4>2, <4>3 DEF Kept
    <3>2. CASE ~Waiting(s) /\ UNCHANGED dbVars /\ canPc'[r] = "none"
      <4>1. Listed(r)'
        BY <1>5, <3>2 DEF Listed
      <4>2. ASSUME Unrefused(r)'
            PROVE  KeeperInv(r)'
        <5>1. execStatus[r] = "running"
          BY <1>6, <3>2, <4>2 DEF dbVars
        <5>2. status[s] # "queued"
          BY <1>1, <3>2, <5>1 DEF Waiting, StepsOf
        <5>3. ~Closing(r)
          BY <2>1, <5>2 DEF Closing
        <5>4. QED
          BY <1>7, <3>2, <4>1, <5>3
      <4>3. QED
        BY <1>3, <4>1, <4>2 DEF Kept
    <3>3. QED
      BY <1>13, <2>3, <3>1, <3>2 DEF CancelSkip
  <2>4. canTodo[r] # {} => Earliest(canTodo[r]) \in canTodo[r]
    BY <1>1, EarliestIn
  <2>5. QED
    BY <1>13, <2>2, <2>3, <2>4 DEF CancelSkip
<1>14. CASE CancelClose(r)
  <2>1. execStatus'[r] \notin Active /\ canPc'[r] = "none"
    BY <1>14 DEF CancelClose, CloseRun, TypeOK, StoreTypeOK, Exec, Active
  <2>2. Listed(r)'
    BY <1>5, <2>1 DEF Listed
  <2>3. QED
    BY <1>3, <2>1, <2>2 DEF Kept, Unrefused
<1>15. QED
  BY <1>9, <1>10, <1>11, <1>12, <1>13, <1>14 DEF CancelNext

\* A restart leaves no unfinished run.
LEMMA RestartKeepsKeeper ==
  ASSUME TypeOK, LinkInv, NEW r \in Run, RunInv(r), KeeperInv(r), CalmStep, RestartAll
  PROVE  KeeperInv(r)'
<1>1. /\ coPc'[r] = "none" /\ canPc'[r] = "none" /\ Recover
      /\ \A s \in StepsOf(r) : s \in Step /\ s \in Planned
  BY StoreAssumption DEF RestartAll, Restart, StepsOf, Planned, Standalone
<1>2. execStatus'[r] \notin Active
  BY <1>1, RecoverAt DEF Active
<1>3. Entering(r)
  BY <1>1, RecoverAt DEF Entering
<1>4. Lined(r)'
  BY <1>3, LinedStep DEF KeeperInv, TypeOK
<1>5. QED
  BY <1>1, <1>2, <1>4 DEF KeeperInv, Listed, Kept, Unrefused

\* Who closes a run is not lost, whatever step is taken.
LEMMA KeeperStep ==
  ASSUME RunBase, RunBase', CalmStep, MaxRequeues = 0, [RunNext]_allVars,
         NEW r \in Run, KeeperInv(r)
  PROVE  KeeperInv(r)'
<1> USE DEF RunBase, Base, RunsInv
<1>1. StoreTypeOK /\ requeues = 0 /\ \A s \in StepsOf(r) : s \in Planned /\ s \in Step
  BY StoreAssumption DEF TypeOK, StepsOf, Planned, Standalone
<1>2. ASSUME QueueMove, UNCHANGED runVars
      PROVE  KeeperInv(r)'
  <2>1. \A s \in Planned : status'[s] = status[s] \/ Taken(s) \/ Ended(s)
    BY <1>2 DEF QueueMove
  <2>2. Apart(r)
    BY <1>1, <1>2, <2>1
       DEF Apart, QueueMove, Taken, Ended, Live, runVars, coVars, canVars, Terminal
  <2>3. QED
    BY <1>1, <2>2, ApartKeeps
<1>3. CASE UNCHANGED allVars
  <2>1. QueueMove /\ UNCHANGED runVars
    BY <1>3, NoMove DEF allVars, vars, dbVars
  <2>2. QED
    BY <1>2, <2>1
<1>4. CASE QueueNext /\ UNCHANGED runVars
  BY <1>2, <1>4, QueueMoves
<1>5. ASSUME NEW q \in Run, StartRun(q) \/ CoNext(q) \/ CancelRun(q) \/ CancelNext(q)
      PROVE  KeeperInv(r)'
  <2>1. RunInv(q) /\ RunInv(r)
    OBVIOUS
  <2>2. Here(q)
    BY <1>5, <2>1, PrepareHere, LoopHere, EndHere DEF CoNext
  <2>3. CASE q = r
    BY <1>5, <2>1, <2>2, <2>3, CoKeepsKeeper, CancelKeepsKeeper DEF Here
  <2>4. CASE q # r
    <3>1. Elsewhere(q)
      BY <1>1, <2>2, HereKeeps
    <3>2. \A s \in StepsOf(r) : s \in Step /\ ~Standalone(s) /\ s \notin StepsOf(q)
      BY <2>4, StoreAssumption DEF StepsOf, Standalone
    <3>3. Apart(r)
      BY <2>4, <3>1, <3>2 DEF Elsewhere, CoHere, Apart
    <3>4. QED
      BY <1>1, <2>1, <3>3, ApartKeeps
  <2>5. QED
    BY <2>3, <2>4
<1>6. CASE RestartAll
  BY <1>6, RestartKeepsKeeper
<1>7. QED
  BY <1>3, <1>4, <1>5, <1>6 DEF RunNext

\* An unfinished run without a refused recipe has somebody to close it: coordinator and
\* cancel requests give up only at a step the other has written, and not both.
THEOREM RunsHaveKeepers ==
  ASSUME MaxRequeues = 0
  PROVE  RunSpec => []RunHasKeeper
<1> DEFINE Keepers == \A r \in Run : KeeperInv(r)
<1>1. ASSUME RunInit, RunBase
      PROVE  Keepers
  <2>1. ASSUME NEW r \in Run
        PROVE  KeeperInv(r)
    <3>1. /\ coPc[r] = "none" /\ canPc[r] = "none" /\ execStatus[r] = "absent"
          /\ \A s \in StepsOf(r) : status[s] = "absent"
      BY <1>1 DEF RunInit, Init, StoreInit, StepsOf, Exec
    <3>2. \A i \in Places(r) : Plan[r][i] \in StepsOf(r)
      BY PlanPlaces
    <3>3. QED
      BY <3>1, <3>2 DEF KeeperInv, Lined, Listed, Kept, Unrefused, Active
  <2>2. QED
    BY <2>1
<1>2. ASSUME Keepers, RunBase, RunBase', [RunNext]_allVars
      PROVE  Keepers'
  <2>1. CalmStep
    BY <1>2, RunBaseStep
  <2>2. QED
    BY <1>2, <2>1, KeeperStep
<1>3. ASSUME Keepers, NEW r \in Run, execStatus[r] \in Active, refused \cap StepsOf(r) = {}
      PROVE  coPc[r] # "none" \/ canPc[r] # "none"
  BY <1>3 DEF KeeperInv, Kept, Unrefused, Closing
<1>4. Keepers => RunHasKeeper
  BY <1>3 DEF RunHasKeeper
<1> HIDE DEF Keepers
<1>5. QED
  BY <1>1, <1>2, <1>4, RunsInvariant, PTL DEF RunSpec

=============================================================================
