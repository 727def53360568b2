------------------------------ MODULE Dispatch ------------------------------
(***************************************************************************)
(* The run queue of the BinTL server at work: the dispatcher of            *)
(* crates/server/src/dispatch.rs, which takes queued steps from the        *)
(* database in queued_at order and spawns a task for each under a          *)
(* semaphore; the tasks, which run the code of each kind of step; and the  *)
(* requests that submit, cancel and requeue steps meanwhile.  Every await  *)
(* between two reads or writes of the database is an interleaving point.   *)
(*                                                                         *)
(* A crash and the restart after it are one action: nothing of a process   *)
(* but the database survives it, and recovery runs before any request.     *)
(***************************************************************************)
EXTENDS ExecutionStore

CONSTANTS
  Task,            \* identities of spawned tokio tasks
  Permits,         \* max_concurrent_jobs
  Limit,           \* the LIMIT of list_dispatchable_steps (16)
  StorageFails,    \* TRUE: a SQLite call of a running task may return an error
  InputsVanish,    \* TRUE: the input dataset of a queued load may be deleted
  MaxRequeues,     \* bounds on the number of requeues and of restarts
  MaxRestarts

ASSUME DispatchAssumption ==
  /\ IsFiniteSet(Task)
  /\ Permits \in Nat \ {0}
  /\ Limit \in Nat \ {0}
  /\ StorageFails \in BOOLEAN
  /\ InputsVanish \in BOOLEAN
  /\ MaxRequeues \in Nat
  /\ MaxRestarts \in Nat
  /\ NoStep \notin Task

VARIABLES
  free,         \* permits left in the semaphore
  inFlight,     \* the mutex-protected set of run_loop
  pump,         \* "idle", or "picking" with a permit and a list in hand
  listed,       \* the rows <<queued_at, id>> the last listing returned
  taskStep,     \* the step a task was spawned for
  taskPc,       \* how far it is
  peer,         \* the other half of a transform chip, as the task knows it
  canceling,    \* chip runs a cancel request has found active
  serving,      \* how far the request of a serve chip run is
  gone,         \* loads whose input dataset has been deleted
  requeues,
  restarts

queueVars == <<free, inFlight, pump, listed>>
taskVars  == <<taskStep, taskPc, peer>>
userVars  == <<canceling, serving, gone, requeues, restarts>>
vars      == <<dbVars, queueVars, taskVars, userVars>>

Pcs ==
  { "idle",
    "picked",         \* spawned, the step not read yet
    "ready",          \* read as queued, not marked running yet
    "working",        \* marked running
    "inserted",       \* transform chip: child job inserted, not yet linked
    "commit_alone",   \* job: no parent found
    "commit_linked",  \* job: a running parent found
    "failing",        \* returned an error that record_chip_failure will store
    "job_failing",    \* the same for record_transform_job_failure
    "retire",         \* run_step has returned
    "release" }       \* out of inFlight, permit still held

Busy(t)   == taskPc[t] # "idle"
Holds(t)  == taskPc[t] \notin {"idle", "release"}

TypeOK ==
  /\ StoreTypeOK
  /\ free \in Nat
  /\ inFlight \in SUBSET Step
  /\ pump \in {"idle", "picking"}
  /\ listed \in SUBSET (Nat \X Step)
  /\ taskStep \in [Task -> Step \cup {NoStep}]
  /\ taskPc \in [Task -> Pcs]
  /\ peer \in [Task -> Step \cup {NoStep}]
  /\ \A t \in Task :
       /\ Busy(t) => taskStep[t] \in Step
       /\ taskPc[t] \in {"inserted", "commit_linked"} => peer[t] \in Step
  /\ canceling \in SUBSET Step
  /\ serving \in [Step -> {"none", "start", "finish"}]
  /\ gone \in SUBSET Step
  /\ requeues \in 0..MaxRequeues
  /\ restarts \in 0..MaxRestarts

Init ==
  /\ StoreInit
  /\ free = Permits
  /\ inFlight = {}
  /\ pump = "idle"
  /\ listed = {}
  /\ taskStep = [t \in Task |-> NoStep]
  /\ taskPc = [t \in Task |-> "idle"]
  /\ peer = [t \in Task |-> NoStep]
  /\ canceling = {}
  /\ serving = [s \in Step |-> "none"]
  /\ gone = {}
  /\ requeues = 0
  /\ restarts = 0

-----------------------------------------------------------------------------
(* The dispatcher                                                          *)

Dispatchable(s) ==
  /\ status[s] = "queued"
  /\ Standalone(s) \/ s \in dispatchAt

\* list_dispatchable_steps: the first Limit dispatchable rows by queued_at.
Rows ==
  LET waiting == {s \in Step : Dispatchable(s)} IN
  {<<queuedAt[s], s>> : s \in
     {x \in waiting : Cardinality({y \in waiting : queuedAt[y] < queuedAt[x]}) < Limit}}

\* A mutant: a listing without waiting for a permit.
PumpListUnbounded ==
  /\ pump = "idle"
  /\ free' = free - 1
  /\ listed' \in {Rows} \cup (IF StorageFails THEN {{}} ELSE {})
  /\ pump' = "picking"
  /\ UNCHANGED <<dbVars, inFlight, taskVars, userVars>>

\* pump: a permit first, then the listing.  A listing that fails is an empty one.
PumpList ==
  /\ pump = "idle"
  /\ free > 0
  /\ free' = free - 1
  /\ listed' \in {Rows} \cup (IF StorageFails THEN {{}} ELSE {})
  /\ pump' = "picking"
  /\ UNCHANGED <<dbVars, inFlight, taskVars, userVars>>

\* A mutant: next_step without the in-flight set.
AllListed == listed

Unclaimed == {r \in listed : r[2] \notin inFlight}

\* next_step and the spawn: the first listed id that no task holds, although
\* what was listed may have changed since.
PumpPick(t) ==
  /\ pump = "picking"
  /\ ~Busy(t)
  /\ \E r \in Unclaimed :
       /\ \A q \in Unclaimed : r[1] <= q[1]
       /\ inFlight' = inFlight \cup {r[2]}
       /\ taskStep' = [taskStep EXCEPT ![t] = r[2]]
  /\ taskPc' = [taskPc EXCEPT ![t] = "picked"]
  /\ pump' = "idle"
  /\ listed' = {}
  /\ UNCHANGED <<dbVars, free, peer, userVars>>

\* A mutant: the permit of an empty listing is not given back.
PumpRestLeaks ==
  /\ pump = "picking"
  /\ Unclaimed = {}
  /\ pump' = "idle"
  /\ listed' = {}
  /\ UNCHANGED <<dbVars, inFlight, free, taskVars, userVars>>

\* Nothing to take: the permit goes back and run_loop sleeps until a notify
\* or its 500 ms timer, which never blocks it.
PumpRest ==
  /\ pump = "picking"
  /\ Unclaimed = {}
  /\ free' = free + 1
  /\ pump' = "idle"
  /\ listed' = {}
  /\ UNCHANGED <<dbVars, inFlight, taskVars, userVars>>

-----------------------------------------------------------------------------
(* Tasks: start                                                            *)

Goto(t, pc) ==
  /\ taskPc' = [taskPc EXCEPT ![t] = pc]
  /\ UNCHANGED <<taskStep, peer, queueVars, userVars>>

\* Where an error of a chip leads: chip::run_one reports a canceled step as
\* canceled, which nobody records; any other error goes to record_chip_failure.
ErrorPc(s) == IF status[s] = "canceled" THEN "retire" ELSE "failing"

\* run_step and the entry of run_one read the step; only a queued one goes on.
TaskStart(t) ==
  LET s == taskStep[t] IN
  /\ taskPc[t] = "picked"
  /\ Goto(t, IF status[s] = "queued" THEN "ready" ELSE "retire")
  /\ UNCHANGED dbVars

\* The step is marked running, if it still is queued.
ChipStart(t) ==
  LET s == taskStep[t] IN
  /\ taskPc[t] = "ready"
  /\ IsChip(s)
  /\ \/ SetRunning(s) /\ Goto(t, "working")
     \/ status[s] # "queued" /\ Goto(t, ErrorPc(s)) /\ UNCHANGED dbVars

\* extract::run and jobs::run_one return without an error when it is not.
PageStart(t) ==
  LET s == taskStep[t] IN
  /\ taskPc[t] = "ready"
  /\ Kind[s] \in {"extract", "job"}
  /\ \/ SetRunning(s) /\ Goto(t, "working")
     \/ status[s] # "queued" /\ Goto(t, "retire") /\ UNCHANGED dbVars

\* load::run_queued looks for the input first, and returns its error while the
\* step is still queued; run_step records no error of a load.
LoadStart(t) ==
  LET s == taskStep[t] IN
  /\ taskPc[t] = "ready"
  /\ Kind[s] = "load"
  /\ \/ s \notin gone /\ SetRunning(s) /\ Goto(t, "working")
     \/ /\ s \in gone \/ status[s] # "queued"
        /\ Goto(t, "retire")
        /\ UNCHANGED dbVars

-----------------------------------------------------------------------------
(* Tasks: the work and its outcome                                         *)

\* load, validation, sql, script and serve chips: done, or an error.  A step that is
\* no longer running cannot succeed, which is an error as well.
PlainDone(t) ==
  LET s == taskStep[t] IN
  /\ taskPc[t] = "working"
  /\ Kind[s] \in {"plain_chip", "serve_chip"}
  /\ \/ SetSucceeded(s) /\ Goto(t, "retire")
     \/ Goto(t, ErrorPc(s)) /\ UNCHANGED dbVars

\* extract::run: set_extract_succeeded, or an error.  A canceled step is left
\* as it is; any other error is stored here by set_extract_failed, and for a
\* chip once more by record_chip_failure.
ExtractDone(t) ==
  LET s == taskStep[t] IN
  /\ taskPc[t] = "working"
  /\ Kind[s] \in {"extract", "extract_chip"}
  /\ \/ SetSucceeded(s) /\ Goto(t, "retire")
     \/ /\ status[s] = "canceled"
        /\ Goto(t, "retire")
        /\ UNCHANGED dbVars
     \/ /\ status[s] # "canceled"
        /\ SetExtractFailed(s)
        /\ Goto(t, IF IsChip(s) THEN "failing" ELSE "retire")

\* load::run_queued: finish_execution_step either way.  When the step has been
\* closed meanwhile, or storing the load's figures fails, nothing is recorded.
LoadDone(t) ==
  LET s == taskStep[t] IN
  /\ taskPc[t] = "working"
  /\ Kind[s] = "load"
  /\ Goto(t, "retire")
  /\ \/ FinishStep(s, "succeeded")
     \/ FinishStep(s, "failed")
     \/ /\ StorageFails \/ status[s] \notin Active
        /\ UNCHANGED dbVars

\* run_transform: either the recipe or the input is refused, or a job of its
\* own execution is inserted ...
TransformInsert(t) ==
  LET s == taskStep[t] IN
  /\ taskPc[t] = "working"
  /\ Kind[s] = "transform_chip"
  /\ \/ /\ \E c \in Step :
             /\ Kind[c] = "job"
             /\ Standalone(c)
             /\ InsertStep(c)
             /\ peer' = [peer EXCEPT ![t] = c]
        /\ taskPc' = [taskPc EXCEPT ![t] = "inserted"]
        /\ UNCHANGED <<taskStep, queueVars, userVars>>
     \/ Goto(t, ErrorPc(s)) /\ UNCHANGED dbVars

\* A mutant: the job is never linked to the chip.
TransformForget(t) ==
  /\ taskPc[t] = "inserted"
  /\ Goto(t, "retire")
  /\ UNCHANGED dbVars

\* ... and then linked.  The chip stays running without a task.
TransformAttach(t) ==
  LET s == taskStep[t] IN
  /\ taskPc[t] = "inserted"
  /\ \/ LinkChild(s, peer[t]) /\ Goto(t, "retire")
     \/ status[s] # "running" /\ Goto(t, ErrorPc(s)) /\ UNCHANGED dbVars

\* A mutant: the lookup that completes a job only sees unfinished chip runs, as
\* linked_chip_run_for_job does, and takes the job of a finished one as alone.
JobLookupActive(t) ==
  LET s == taskStep[t] IN
  /\ taskPc[t] = "working"
  /\ Kind[s] = "job"
  /\ \/ /\ \A p \in ParentsOf(s) : status[p] \notin Active
        /\ Goto(t, "commit_alone")
     \/ \E p \in ParentsOf(s) :
          /\ status[p] = "running"
          /\ taskPc' = [taskPc EXCEPT ![t] = "commit_linked"]
          /\ peer' = [peer EXCEPT ![t] = p]
          /\ UNCHANGED <<taskStep, queueVars, userVars>>
     \/ Goto(t, "job_failing")
  /\ UNCHANGED dbVars

\* jobs::run_one at the end of its work: the cancel check, then the lookup of
\* the chip run this job belongs to, outside of the transaction that follows.
JobLookup(t) ==
  LET s == taskStep[t] IN
  /\ taskPc[t] = "working"
  /\ Kind[s] = "job"
  /\ \/ /\ ParentsOf(s) = {}
        /\ Goto(t, "commit_alone")
     \/ \E p \in ParentsOf(s) :
          IF status[p] = "running"
          THEN /\ taskPc' = [taskPc EXCEPT ![t] = "commit_linked"]
               /\ peer' = [peer EXCEPT ![t] = p]
               /\ UNCHANGED <<taskStep, queueVars, userVars>>
          ELSE Goto(t, "job_failing")
     \/ Goto(t, "job_failing")
  /\ UNCHANGED dbVars

\* set_job_succeeded: silent when the job is no longer running; registering
\* the output may still fail after the job has succeeded.
JobCommitAlone(t) ==
  LET s == taskStep[t] IN
  /\ taskPc[t] = "commit_alone"
  /\ \/ SetSucceeded(s) /\ Goto(t, "retire")
     \/ StorageFails /\ SetSucceeded(s) /\ Goto(t, "job_failing")
     \/ status[s] # "running" /\ Goto(t, "retire") /\ UNCHANGED dbVars

\* The transaction of complete_chip_run_for_job; it fails as a whole.
JobCommitLinked(t) ==
  LET s == taskStep[t]
      p == peer[t]
  IN
  /\ taskPc[t] = "commit_linked"
  /\ \/ CompleteLinkedJob(s, p) /\ Goto(t, "retire")
     \/ /\ status[s] # "running" \/ status[p] # "running"
        /\ Goto(t, "job_failing")
        /\ UNCHANGED dbVars

\* Every piece of work runs against wait_until_step_canceled, which polls the
\* step; the task that sees the cancel drops the work where it stands.
CancelSeen(t) ==
  LET s == taskStep[t] IN
  /\ \/ taskPc[t] \in {"working", "inserted", "commit_alone", "commit_linked"}
     \/ taskPc[t] = "ready" /\ IsChip(s)
  /\ status[s] = "canceled"
  /\ Goto(t, "retire")
  /\ UNCHANGED dbVars

\* A storage error in that poll counts as a cancel, so the work is dropped and
\* its outcome never stored.
CancelPollFails(t) ==
  /\ StorageFails
  /\ taskPc[t] \in {"working", "inserted", "commit_alone", "commit_linked"}
  /\ Kind[taskStep[t]] # "load"
  /\ Goto(t, "retire")
  /\ UNCHANGED dbVars

\* record_chip_failure
RecordChipFailure(t) ==
  /\ taskPc[t] = "failing"
  /\ SetChipFailed(taskStep[t])
  /\ Goto(t, "retire")

\* record_transform_job_failure
RecordJobFailure(t) ==
  /\ taskPc[t] = "job_failing"
  /\ FailJob(taskStep[t])
  /\ Goto(t, "retire")

-----------------------------------------------------------------------------
(* Tasks: the end                                                          *)

\* A mutant: the permit goes back with the claim, and once more at the end.
RetireReleases(t) ==
  /\ taskPc[t] = "retire"
  /\ inFlight' = inFlight \ {taskStep[t]}
  /\ free' = free + 1
  /\ taskPc' = [taskPc EXCEPT ![t] = "release"]
  /\ UNCHANGED <<dbVars, pump, listed, taskStep, peer, userVars>>

Retire(t) ==
  /\ taskPc[t] = "retire"
  /\ inFlight' = inFlight \ {taskStep[t]}
  /\ taskPc' = [taskPc EXCEPT ![t] = "release"]
  /\ UNCHANGED <<dbVars, free, pump, listed, taskStep, peer, userVars>>

Release(t) ==
  /\ taskPc[t] = "release"
  /\ free' = free + 1
  /\ taskPc' = [taskPc EXCEPT ![t] = "idle"]
  /\ taskStep' = [taskStep EXCEPT ![t] = NoStep]
  /\ peer' = [peer EXCEPT ![t] = NoStep]
  /\ UNCHANGED <<dbVars, inFlight, pump, listed, userVars>>

TaskNext(t) ==
  \/ TaskStart(t) \/ ChipStart(t) \/ PageStart(t) \/ LoadStart(t)
  \/ PlainDone(t) \/ ExtractDone(t) \/ LoadDone(t)
  \/ TransformInsert(t) \/ TransformAttach(t)
  \/ JobLookup(t) \/ JobCommitAlone(t) \/ JobCommitLinked(t)
  \/ CancelSeen(t) \/ CancelPollFails(t)
  \/ RecordChipFailure(t) \/ RecordJobFailure(t)
  \/ Retire(t) \/ Release(t)

-----------------------------------------------------------------------------
(* Requests, and the end of the process                                    *)

\* A user runs a chip or a page.  The request that runs a serve chip goes on.
Submit(s) ==
  /\ Standalone(s)
  /\ InsertStep(s)
  /\ serving' = IF Kind[s] = "serve_chip" THEN [serving EXCEPT ![s] = "start"]
                                          ELSE serving
  /\ UNCHANGED <<queueVars, taskVars, canceling, gone, requeues, restarts>>

\* finish_serve_run: the request marks the run running and then succeeded by
\* itself; when the dispatcher was first, that is the end of the request.
ServeStart(s) ==
  /\ serving[s] = "start"
  /\ \/ /\ SetRunning(s)
        /\ serving' = [serving EXCEPT ![s] = "finish"]
     \/ /\ status[s] # "queued"
        /\ serving' = [serving EXCEPT ![s] = "none"]
        /\ UNCHANGED dbVars
  /\ UNCHANGED <<queueVars, taskVars, canceling, gone, requeues, restarts>>

ServeFinish(s) ==
  /\ serving[s] = "finish"
  /\ \/ SetSucceeded(s)
     \/ status[s] # "running" /\ UNCHANGED dbVars
  /\ serving' = [serving EXCEPT ![s] = "none"]
  /\ UNCHANGED <<queueVars, taskVars, canceling, gone, requeues, restarts>>

\* cancel_chip_run reads the run, and refuses one that has ended ...
CancelRequest(s) ==
  /\ IsChip(s)
  /\ Standalone(s)
  /\ status[s] \in Active
  /\ canceling' = canceling \cup {s}
  /\ UNCHANGED <<dbVars, queueVars, taskVars, serving, gone, requeues, restarts>>

\* ... before the transaction that cancels it.
CancelCommit(s) ==
  /\ s \in canceling
  /\ CancelStep(s)
  /\ canceling' = canceling \ {s}
  /\ UNCHANGED <<queueVars, taskVars, serving, gone, requeues, restarts>>

\* POST /api/jobs/{id}/run on a failed step.
Requeue(s) ==
  /\ requeues < MaxRequeues
  /\ RequeueJob(s)
  /\ requeues' = requeues + 1
  /\ UNCHANGED <<queueVars, taskVars, canceling, serving, gone, restarts>>

\* The guards of the dataset APIs look at chips, not at queued loads.
DeleteInput(s) ==
  /\ InputsVanish
  /\ Kind[s] = "load"
  /\ status[s] = "queued"
  /\ gone' = gone \cup {s}
  /\ UNCHANGED <<dbVars, queueVars, taskVars, canceling, serving, requeues, restarts>>

Restart ==
  /\ restarts < MaxRestarts
  /\ restarts' = restarts + 1
  /\ Recover
  /\ free' = Permits
  /\ inFlight' = {}
  /\ pump' = "idle"
  /\ listed' = {}
  /\ taskStep' = [t \in Task |-> NoStep]
  /\ taskPc' = [t \in Task |-> "idle"]
  /\ peer' = [t \in Task |-> NoStep]
  /\ canceling' = {}
  /\ serving' = [s \in Step |-> "none"]
  /\ UNCHANGED <<gone, requeues>>

UserNext ==
  \E s \in Step : \/ Submit(s) \/ ServeStart(s) \/ ServeFinish(s)
                  \/ CancelRequest(s) \/ CancelCommit(s)
                  \/ Requeue(s) \/ DeleteInput(s)

Next ==
  \/ PumpList
  \/ \E t \in Task : PumpPick(t)
  \/ PumpRest
  \/ \E t \in Task : TaskNext(t)
  \/ UserNext
  \/ Restart

Spec == Init /\ [][Next]_vars

\* The dispatcher's loop and every spawned task keep running: no await of
\* theirs is without an end, given that databases, files and the engine answer,
\* and a listing does not fail every time.
Fairness ==
  /\ WF_vars(PumpList)
  /\ SF_vars(PumpList /\ listed' = Rows)
  /\ WF_vars(PumpRest \/ \E t \in Task : PumpPick(t))
  /\ \A t \in Task : WF_vars(TaskNext(t))

FairSpec == Spec /\ Fairness

-----------------------------------------------------------------------------
(* Properties                                                              *)

\* No step is ever held by two tasks: the dispatcher lists steps in one await
\* and claims one later, while tasks finish and leave inFlight in between.
SoleRunner ==
  \A t, u \in Task :
    t # u /\ Holds(t) /\ Holds(u) => taskStep[t] # taskStep[u]

\* A permit is in exactly one place: the semaphore, the pump that has taken it,
\* or a task; so at most Permits tasks exist and none is ever lost, restarts
\* and failed listings included.
PermitsBalance ==
  free + Cardinality({t \in Task : Busy(t)}) + (IF pump = "picking" THEN 1 ELSE 0)
    = Permits

\* A running step is being worked on by the task that holds it or by the request
\* that serves it, or is a transform chip that waits for the child it is linked
\* to.  Without this a step would stay running until the next restart, and its
\* chip would refuse every new run as busy.
RunningHasRunner ==
  \A s \in Step : status[s] = "running" =>
    \/ \E t \in Task : taskStep[t] = s /\ Holds(t) /\ taskPc[t] # "retire"
    \/ serving[s] = "finish"
    \/ Kind[s] = "transform_chip" /\ child[s] # NoStep

\* An execution and its only step agree on whether it is still going on, and
\* on whether it failed, through every order of task, cancel, requeue and
\* recovery transactions and the trigger inside them.
ExecutionFollowsStep ==
  \A s \in Step : Standalone(s) =>
    /\ (execStatus[s] \in Active) = (status[s] \in Active)
    /\ (execStatus[s] = "failed") = (status[s] = "failed")
    /\ (execStatus[s] = "running") = (status[s] = "running")

\* A transform chip has succeeded only with the job it is linked to.  It takes
\* two requeues to break this: a chip run and its old job, both requeued, can
\* meet again, and the old result then stands for the chip.
ChipSucceedsWithJob ==
  requeues < 2 =>
    \A p \in Step : Kind[p] = "transform_chip" /\ status[p] = "succeeded" =>
      child[p] # NoStep /\ status[child[p]] = "succeeded"

\* A chip has at most one queued or running chip run, whether standalone or in a
\* full run: the busy check and the INSERT are one transaction, every other way
\* into the queue (a requeue) is left out of the runs that check this.
OneActiveRunPerChip ==
  \A s, x \in Step :
    /\ IsChip(s) /\ IsChip(x) /\ ChipOf[s] = ChipOf[x]
    /\ status[s] \in Active /\ status[x] \in Active
    => s = x

\* What has ended stays as it ended: success and cancellation for good,
\* failure until a transform is requeued.  Late tasks, cancel requests,
\* failure recorders and recovery all write the same column.
EndIsFinal ==
  [][\A s \in Step :
       /\ status[s] \in {"succeeded", "canceled"} => status'[s] = status[s]
       /\ status[s] = "failed" /\ status'[s] # "failed" =>
            status'[s] = "queued" /\ Kind[s] \in {"job", "transform_chip"}]_vars

\* A job never becomes succeeded once the chip run it belongs to has ended:
\* the cancel of a transform chip also stops the job's result from counting.  Two
\* requeues break this as well: the old job ends the chip run that has just been
\* linked to a new one, and the new one, which found no parent before, goes on.
NoSuccessUnderEndedChip ==
  [][requeues < 2 =>
       \A p, j \in Step :
         child[p] = j /\ status[p] \in Terminal /\ status[j] # "succeeded" =>
           status'[j] # "succeeded"]_vars

\* Every queued standalone step ends, whatever else is submitted, canceled,
\* requeued or restarted meanwhile: the queue starves nobody.  Two things excuse
\* it: a storage error in the cancel poll, which drops the work of a step and
\* leaves it running, and a load whose input has gone, which comes back to the
\* head of the queue for ever.  A serve run may be ended by its own request.
Forsaken(s) ==
  /\ StorageFails
  /\ status[s] = "running"
  /\ \A t \in Task : Holds(t) => taskStep[t] # s

QueuedStepEnds ==
  \A s \in Step :
    (status[s] = "queued" /\ Kind[s] # "transform_chip")
      ~> \/ status[s] \in Terminal
         \/ serving[s] = "finish"
         \/ Forsaken(s) \/ gone # {}
-----------------------------------------------------------------------------
(* What the documents say of the same steps, and the code does not keep    *)

\* docs/logging.md: a run that ends stores succeeded, failed or canceled.  The
\* execution of a canceled standalone run should then say canceled.
CancelIsRecorded ==
  \A s \in Step : Standalone(s) /\ status[s] = "canceled" =>
    execStatus[s] = "canceled"

\* docs/logging.md: once the child job has ended, the parent run of a transform
\* ends as succeeded or failed.
JobEndEndsChip ==
  \A p \in Step : status[p] = "running" /\ child[p] # NoStep =>
    status[child[p]] \in Active

\* docs/workspace.md: a load without its file does not start and fails.
LoadWithoutInputFails ==
  \A s \in Step : s \in gone ~> status[s] = "failed"
=============================================================================
