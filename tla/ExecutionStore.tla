--------------------------- MODULE ExecutionStore ---------------------------
(***************************************************************************)
(* The two tables the run queue of BinTL lives in: execution_steps (one    *)
(* row per unit of work) and executions (the run a step belongs to), with  *)
(* the SQLite transactions of crates/storage that write them and the       *)
(* trigger trg_execution_step_status of migration 0016, which runs inside  *)
(* each of those transactions.                                             *)
(*                                                                         *)
(* Every operator below whose name is a verb is one transaction: an action *)
(* formula over the variables it writes.  The components that call them    *)
(* (Dispatch, WorkspaceRun) say what stays unchanged.                      *)
(***************************************************************************)
EXTENDS Integers, FiniteSets

CONSTANTS
  Step,       \* ids of execution_steps rows
  Run,        \* ids of executions rows with source = 'workspace'
  Kind,       \* Kind[s]: which code runs step s
  RunOf,      \* RunOf[s]: the workspace execution of s, NoRun when standalone
  ChipOf,     \* ChipOf[s]: the chip a chip run is a run of
  NoStep,
  NoRun

Kinds ==
  { "extract",          \* a step of the extract page
    "load",             \* a step of the load page
    "job",              \* a transform: page run, or child of a transform chip
    "extract_chip",
    "transform_chip",   \* its work is done by a child step of kind "job"
    "plain_chip",       \* load, validation, sql, script chips
    "serve_chip" }

ASSUME StoreAssumption ==
  /\ Kind \in [Step -> Kinds]
  /\ RunOf \in [Step -> Run \cup {NoRun}]
  /\ DOMAIN ChipOf = Step
  /\ NoStep \notin Step
  /\ NoRun \notin Run
  /\ Step \cap Run = {}

VARIABLES
  status,       \* execution_steps.status, "absent" before the INSERT
  execStatus,   \* executions.status
  child,        \* execution_steps.result_json -> child_step_id
  interrupted,  \* steps whose error_code is EXECUTION_INTERRUPTED
  dispatchAt,   \* steps whose dispatch_at is set
  queuedAt,     \* execution_steps.queued_at (with rowid: a total order)
  clock         \* the next queued_at

dbVars == <<status, execStatus, child, interrupted, dispatchAt, queuedAt, clock>>

Active   == {"queued", "running"}
Terminal == {"succeeded", "failed", "canceled"}
Statuses == Active \cup Terminal \cup {"absent"}

Exec == Step \cup Run

IsChip(s) == Kind[s] \notin {"extract", "load", "job"}
Standalone(s) == RunOf[s] = NoRun

\* A page or chip execution holds one step and is named after it here; the
\* steps of a full run share the run's execution.
ExecOf(s) == IF Standalone(s) THEN s ELSE RunOf[s]

StoreTypeOK ==
  /\ status \in [Step -> Statuses]
  /\ execStatus \in [Exec -> Statuses]
  /\ child \in [Step -> Step \cup {NoStep}]
  /\ interrupted \in SUBSET Step
  /\ dispatchAt \in SUBSET Step
  /\ queuedAt \in [Step -> Nat]
  /\ clock \in Nat

StoreInit ==
  /\ status = [s \in Step |-> "absent"]
  /\ execStatus = [e \in Exec |-> "absent"]
  /\ child = [s \in Step |-> NoStep]
  /\ interrupted = {}
  /\ dispatchAt = {}
  /\ queuedAt = [s \in Step |-> 0]
  /\ clock = 1

-----------------------------------------------------------------------------
(* The trigger                                                             *)

\* A mutant: a trigger that forgets the failed steps.
DerivedNoFailed(e, st) ==
  LET Some(value) == \E s \in Step : ExecOf(s) = e /\ st[s] = value IN
  IF Some("running") THEN "running"
  ELSE IF ~Some("queued") THEN "succeeded"
  ELSE "queued"

\* What the trigger computes for execution e when the steps read as st, its CASE
\* with the EXISTS queries in their order.  With nothing queued or running it
\* says succeeded, whether the steps succeeded or were canceled.
DerivedStatus(e, st) ==
  LET Some(value) == \E s \in Step : ExecOf(s) = e /\ st[s] = value IN
  IF Some("failed") THEN "failed"
  ELSE IF Some("running") THEN "running"
  ELSE IF ~Some("queued") THEN "succeeded"
  ELSE "queued"

After(S, to) == [s \in Step |-> IF s \in S THEN to ELSE status[s]]

\* executions.status after an UPDATE that sets the status of the steps in S:
\* the trigger leaves the executions of full runs alone.
Fired(S, to) ==
  [e \in Exec |->
     IF e \notin Run /\ \E s \in S : ExecOf(s) = e
     THEN DerivedStatus(e, After(S, to))
     ELSE execStatus[e]]

SetStatus(S, to) ==
  /\ status' = After(S, to)
  /\ execStatus' = Fired(S, to)

\* An UPDATE of step s followed, in the same transaction, by an UPDATE of its
\* execution to the same status; the execution of a full run is left alone.
ByHand(s, to) ==
  LET fired == Fired({s}, to) IN
  /\ status' = After({s}, to)
  /\ execStatus' = [e \in Exec |-> IF e = ExecOf(s) /\ e \notin Run
                                   THEN to ELSE fired[e]]

-----------------------------------------------------------------------------
(* Inserts and links                                                       *)

\* A chip with an unfinished run, standalone or in a full run.
ChipBusy(s) ==
  \E x \in Step : IsChip(x) /\ ChipOf[x] = ChipOf[s] /\ status[x] \in Active

\* A mutant: the busy check of create_chip_run_in_execution is gone.
InsertStepUnchecked(s) ==
  /\ status[s] = "absent"
  /\ ~Standalone(s) => execStatus[RunOf[s]] = "running"
  /\ status' = [status EXCEPT ![s] = "queued"]
  /\ execStatus' = IF Standalone(s) THEN [execStatus EXCEPT ![s] = "queued"]
                                    ELSE execStatus
  /\ queuedAt' = [queuedAt EXCEPT ![s] = clock]
  /\ clock' = clock + 1
  /\ UNCHANGED <<child, interrupted, dispatchAt>>

\* One step with an execution of its own, both queued (insert_extract,
\* insert_transform_job, create_standalone_load_step).  For a chip this is the
\* transaction of create_chip_run_in_execution: it refuses a busy chip, and a
\* step of a full run only joins one that is running.
InsertStep(s) ==
  /\ status[s] = "absent"
  /\ IsChip(s) => ~ChipBusy(s)
  /\ ~Standalone(s) => execStatus[RunOf[s]] = "running"
  /\ status' = [status EXCEPT ![s] = "queued"]
  /\ execStatus' = IF Standalone(s) THEN [execStatus EXCEPT ![s] = "queued"]
                                    ELSE execStatus
  /\ queuedAt' = [queuedAt EXCEPT ![s] = clock]
  /\ clock' = clock + 1
  /\ UNCHANGED <<child, interrupted, dispatchAt>>

\* link_child_step: only a running step takes a child.
LinkChild(p, c) ==
  /\ status[p] = "running"
  /\ child' = [child EXCEPT ![p] = c]
  /\ UNCHANGED <<status, execStatus, interrupted, dispatchAt, queuedAt, clock>>

ParentsOf(c) == {p \in Step : child[p] = c}

-----------------------------------------------------------------------------
(* Updates of the status                                                   *)

OnlyStatus == UNCHANGED <<child, interrupted, dispatchAt, queuedAt, clock>>

\* set_chip_run_running, set_extract_running, set_job_running,
\* set_execution_step_running: all guarded by status = 'queued'.
SetRunning(s) ==
  /\ status[s] = "queued"
  /\ SetStatus({s}, "running")
  /\ OnlyStatus

\* set_chip_run_succeeded_with_result, complete_chip_run_with_file,
\* finish_validation_chip_run, set_extract_succeeded: only from running.
SetSucceeded(s) ==
  /\ status[s] = "running"
  /\ SetStatus({s}, "succeeded")
  /\ OnlyStatus

\* set_chip_run_failed_with_code
SetChipFailed(s) ==
  /\ SetStatus({x \in {s} : status[x] \in Active \cup {"failed"}}, "failed")
  /\ OnlyStatus

\* set_extract_failed
SetExtractFailed(s) ==
  /\ SetStatus({x \in {s} : status[x] \in Active}, "failed")
  /\ OnlyStatus

\* finish_execution_step: after the trigger the execution is set to the same
\* status by hand, full runs excepted.
FinishStep(s, to) ==
  /\ status[s] \in Active
  /\ ByHand(s, to)
  /\ OnlyStatus

\* fail_chip_run_for_job_with_code: the job and the chip run linked to it.
FailJob(j) ==
  /\ SetStatus({x \in {j} \cup ParentsOf(j) : status[x] \in Active}, "failed")
  /\ OnlyStatus

\* A mutant: the parent is closed without the job.
CompleteParentOnly(j, p) ==
  /\ status[j] = "running"
  /\ status[p] = "running"
  /\ SetStatus({p}, "succeeded")
  /\ OnlyStatus

\* The transaction of complete_chip_run_for_job; the job and the parent p
\* found before it succeed together or not at all.
CompleteLinkedJob(j, p) ==
  /\ status[j] = "running"
  /\ status[p] = "running"
  /\ SetStatus({j, p}, "succeeded")
  /\ OnlyStatus

\* requeue_failed_job: any failed step of kind 'transform', a child job and a
\* chip run included.
RequeueJob(s) ==
  /\ status[s] = "failed"
  /\ Kind[s] \in {"job", "transform_chip"}
  /\ ByHand(s, "queued")
  /\ interrupted' = interrupted \ {s}
  /\ queuedAt' = [queuedAt EXCEPT ![s] = clock]
  /\ clock' = clock + 1
  /\ UNCHANGED <<child, dispatchAt>>

\* A mutant: a cancel without the guard on the status of the step.
CancelAnything(s) ==
  LET hit == {s, child[s]} \cap Step IN
  /\ SetStatus(hit, "canceled")
  /\ OnlyStatus

\* A mutant: a cancel that forgets the child.
CancelParentOnly(s) ==
  /\ SetStatus({x \in {s} : status[x] \in Active}, "canceled")
  /\ OnlyStatus

\* cancel_execution_step: the step and its child, whichever are still active,
\* and then the execution of the step when that is still active.
CancelStep(s) ==
  LET hit == {x \in {s, child[s]} \cap Step : status[x] \in Active}
      fired == Fired(hit, "canceled")
  IN
  /\ status' = After(hit, "canceled")
  /\ execStatus' = [e \in Exec |->
       IF e = ExecOf(s) /\ e \notin Run /\ fired[e] \in Active
       THEN "canceled" ELSE fired[e]]
  /\ OnlyStatus

-----------------------------------------------------------------------------
(* Full runs                                                               *)

\* A queued step of a running full run: what bind_workspace_step_input and
\* skip_workspace_step ask for.
Waiting(s) ==
  /\ status[s] = "queued"
  /\ ~Standalone(s)
  /\ execStatus[RunOf[s]] = "running"

\* create_workspace_execution: one unfinished full run in the workspace.
OpenRun(r) ==
  /\ execStatus[r] = "absent"
  /\ \A q \in Run : execStatus[q] \notin Active
  /\ execStatus' = [execStatus EXCEPT ![r] = "running"]
  /\ UNCHANGED <<status, child, interrupted, dispatchAt, queuedAt, clock>>

\* finish_workspace_execution_as, and the last UPDATE of
\* cancel_workspace_execution: a run that is no longer active is left alone.
CloseRun(r, to) ==
  /\ execStatus' = IF execStatus[r] \in Active
                   THEN [execStatus EXCEPT ![r] = to] ELSE execStatus
  /\ UNCHANGED <<status, child, interrupted, dispatchAt, queuedAt, clock>>

\* skip_workspace_step: a skipped step is stored as canceled.
SkipStep(s) ==
  /\ Waiting(s)
  /\ SetStatus({s}, "canceled")
  /\ OnlyStatus

\* mark_dispatchable
MarkDispatchable(s) ==
  /\ status[s] = "queued"
  /\ dispatchAt' = dispatchAt \cup {s}
  /\ UNCHANGED <<status, execStatus, child, interrupted, queuedAt, clock>>

-----------------------------------------------------------------------------
(* Restart                                                                 *)

\* recover_interrupted_executions, the first thing a started server does:
\* running steps, queued steps of unfinished full runs, and queued children
\* of any step marked as interrupted are failed; unfinished full runs too.
Recover ==
  LET running == {s \in Step : status[s] = "running"}
      waiting == {s \in Step : /\ status[s] = "queued"
                               /\ ~Standalone(s)
                               /\ execStatus[RunOf[s]] \in Active}
      marked == interrupted \cup running \cup waiting
      children == {s \in Step : /\ status[s] = "queued"
                                /\ \E p \in marked : child[p] = s}
      hit == running \cup waiting \cup children
      fired == Fired(hit, "failed")
  IN
  /\ status' = After(hit, "failed")
  /\ execStatus' = [e \in Exec |->
       IF /\ fired[e] \in Active
          /\ \/ e \in Run
             \/ \E s \in interrupted \cup hit : ExecOf(s) = e
       THEN "failed" ELSE fired[e]]
  /\ interrupted' = interrupted \cup hit
  /\ UNCHANGED <<child, dispatchAt, queuedAt, clock>>
=============================================================================
