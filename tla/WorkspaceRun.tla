---------------------------- MODULE WorkspaceRun ----------------------------
(***************************************************************************)
(* Full runs of a workspace on top of the run queue: the coordinator of    *)
(* crates/server/src/chip/workspace_execution.rs, which freezes the        *)
(* recipes of all chips as queued steps and then lets the dispatcher have  *)
(* them one by one, and the requests that cancel a run meanwhile, which    *)
(* write the same rows in several transactions.                            *)
(*                                                                         *)
(* All runs are of one workspace; RunOf, Plan and Edges are its canvas at  *)
(* the time of each run, and a step stands for its chip within the run.    *)
(***************************************************************************)
EXTENDS Dispatch, Sequences

CONSTANTS
  Plan,        \* Plan[r]: the steps of run r in the order of workspace_run_order
  Edges,       \* connections between steps of a run: [from, to, kind]
  Producer,    \* steps of chips whose output is a dataset
  MayFail,     \* steps whose recipe may be refused before the run starts
  MaxCancels   \* bound on the number of cancel requests for runs

EdgeKinds == {"data", "on_success", "on_error", "always"}

ASSUME RunAssumption ==
  /\ Plan \in [Run -> Seq(Step)]
  /\ \A r \in Run : \A i \in 1..Len(Plan[r]) : RunOf[Plan[r][i]] = r
  /\ \A r \in Run : \A i, j \in 1..Len(Plan[r]) : Plan[r][i] = Plan[r][j] => i = j
  /\ Edges \subseteq [from : Step, to : Step, kind : EdgeKinds]
  /\ Producer \subseteq Step
  /\ MayFail \subseteq Step
  /\ MaxCancels \in Nat

\* The plan is in the order of the connections between its chips.  Others may come
\* from chips that are not in it, which are switched off.
ASSUME CanvasAssumption ==
  /\ \A e \in Edges :
       /\ RunOf[e.from] = RunOf[e.to]
       /\ \A r \in Run : \A i, j \in 1..Len(Plan[r]) :
            Plan[r][i] = e.from /\ Plan[r][j] = e.to => i < j
  /\ \A s \in Producer : Kind[s] # "serve_chip"

VARIABLES
  coPc,       \* how far the coordinator of a run is, "none" when there is none
  coPos,      \* its place in the plan
  refused,    \* steps whose recipe prepare_config has refused
  outcome,    \* the coordinator's map of outcomes
  outputs,    \* steps in its map of outputs
  result,     \* what execute returns, and then the status to close the run with
  todo,       \* steps it has listed and still has to write
  canPc,      \* how far a cancel request of a run is
  canTodo,    \* steps that request has listed and still has to write
  cancels

coVars  == <<coPc, coPos, refused, outcome, outputs, result, todo>>
canVars == <<canPc, canTodo, cancels>>
runVars == <<coVars, canVars>>
allVars == <<vars, runVars>>

CoPcs ==
  { "none", "prepare", "snapshot", "preflight", "next", "serving", "bound",
    "waiting", "refused", "record", "verdict", "skip", "close" }

CanPcs == {"none", "list", "stop", "list_queued", "skip", "close"}

RunTypeOK ==
  /\ TypeOK
  /\ coPc \in [Run -> CoPcs]
  /\ coPos \in [Run -> Nat]
  /\ refused \in SUBSET Step
  /\ outcome \in [Step -> {"none", "succeeded", "failed", "skipped"}]
  /\ outputs \in SUBSET Step
  /\ result \in [Run -> {"ok", "error"} \cup Terminal]
  /\ todo \in [Run -> SUBSET Step]
  /\ canPc \in [Run -> CanPcs]
  /\ canTodo \in [Run -> SUBSET Step]
  /\ cancels \in 0..MaxCancels

RunInit ==
  /\ Init
  /\ coPc = [r \in Run |-> "none"]
  /\ coPos = [r \in Run |-> 1]
  /\ refused = {}
  /\ outcome = [s \in Step |-> "none"]
  /\ outputs = {}
  /\ result = [r \in Run |-> "ok"]
  /\ todo = [r \in Run |-> {}]
  /\ canPc = [r \in Run |-> "none"]
  /\ canTodo = [r \in Run |-> {}]
  /\ cancels = 0

StepsOf(r)  == {s \in Step : RunOf[s] = r}
Current(r)  == Plan[r][coPos[r]]
AtStep(r, pc) == coPc[r] = pc /\ coPos[r] <= Len(Plan[r])
QueuedOf(r) == {s \in StepsOf(r) : status[s] = "queued"}
Earliest(S) == CHOOSE s \in S : \A x \in S : queuedAt[s] <= queuedAt[x]

rest == <<queueVars, taskVars, userVars>>

-----------------------------------------------------------------------------
(* The coordinator: preparation                                            *)

CoGoto(r, pc) == coPc' = [coPc EXCEPT ![r] = pc]

\* The next chip of the plan.
Advance(r, pc) ==
  /\ CoGoto(r, pc)
  /\ coPos' = [coPos EXCEPT ![r] = @ + 1]

\* A mutant: an error ends the coordinator on the spot.
AbortAtOnce(r, kind) ==
  /\ CoGoto(r, "none")
  /\ result' = [result EXCEPT ![r] = kind]
  /\ UNCHANGED <<coPos, outcome, outputs>>

\* execute returns with an error.
Abort(r, kind) ==
  /\ CoGoto(r, "verdict")
  /\ result' = [result EXCEPT ![r] = kind]
  /\ UNCHANGED <<coPos, outcome, outputs>>

\* A mutant: a second run of the workspace beside the first.
StartRunBeside(r) ==
  /\ execStatus[r] = "absent"
  /\ execStatus' = [execStatus EXCEPT ![r] = "running"]
  /\ UNCHANGED <<status, child, interrupted, dispatchAt, queuedAt, clock>>
  /\ CoGoto(r, "prepare")
  /\ UNCHANGED <<coPos, refused, outcome, outputs, result, todo, canVars, rest>>

\* run_workspace: the execution is there before the coordinator starts.
StartRun(r) ==
  /\ OpenRun(r)
  /\ CoGoto(r, "prepare")
  /\ UNCHANGED <<coPos, refused, outcome, outputs, result, todo, canVars, rest>>

\* prepare_config of every chip; or no plan at all: a cycle, no active chip.
Prepare(r) ==
  /\ coPc[r] = "prepare"
  /\ \/ /\ \E S \in SUBSET (MayFail \cap StepsOf(r)) : refused' = refused \cup S
        /\ CoGoto(r, "snapshot")
        /\ UNCHANGED <<coPos, outcome, outputs, result>>
     \/ Abort(r, "error") /\ UNCHANGED refused
  /\ UNCHANGED <<dbVars, todo, canVars, rest>>

\* One transaction for each chip of the plan.  It is refused when the chip is
\* busy, has been edited, or the run has been closed; what has been inserted by
\* then stays.
Snapshot(r) ==
  /\ AtStep(r, "snapshot")
  /\ \/ /\ InsertStep(Current(r))
        /\ Advance(r, "snapshot")
        /\ UNCHANGED <<outcome, outputs, result>>
     \/ Abort(r, "error") /\ UNCHANGED dbVars
  /\ UNCHANGED <<refused, todo, canVars, rest>>

SnapshotDone(r) ==
  /\ coPc[r] = "snapshot"
  /\ coPos[r] > Len(Plan[r])
  /\ CoGoto(r, "preflight")
  /\ coPos' = [coPos EXCEPT ![r] = 1]
  /\ todo' = [todo EXCEPT ![r] = refused \cap StepsOf(r)]
  /\ result' = [result EXCEPT ![r] = IF refused \cap StepsOf(r) = {} THEN "ok" ELSE "error"]
  /\ UNCHANGED <<dbVars, refused, outcome, outputs, canVars, rest>>

\* The refused chips become failed steps, one by one.
Preflight(r) ==
  /\ coPc[r] = "preflight"
  /\ \/ /\ todo[r] # {}
        /\ SetChipFailed(Earliest(todo[r]))
        /\ todo' = [todo EXCEPT ![r] = @ \ {Earliest(todo[r])}]
        /\ UNCHANGED coPc
     \/ /\ todo[r] = {}
        /\ CoGoto(r, "next")
        /\ UNCHANGED <<dbVars, todo>>
  /\ UNCHANGED <<coPos, refused, outcome, outputs, result, canVars, rest>>

-----------------------------------------------------------------------------
(* The coordinator: one chip after the other                               *)

Record(s, value) == outcome' = [outcome EXCEPT ![s] = value]

\* A mutant: a skipped predecessor satisfies on_success as well.
BlockedOnFailure(s) ==
  \E e \in Edges :
    /\ e.to = s
    /\ \/ e.kind = "on_success" /\ outcome[e.from] = "failed"
       \/ e.kind = "on_error" /\ outcome[e.from] # "failed"
       \/ e.kind = "always" /\ outcome[e.from] = "none"

\* condition_blocked
Blocked(s) ==
  \E e \in Edges :
    /\ e.to = s
    /\ \/ e.kind = "on_success" /\ outcome[e.from] # "succeeded"
       \/ e.kind = "on_error" /\ outcome[e.from] # "failed"
       \/ e.kind = "always" /\ outcome[e.from] = "none"

\* A data connection without a dataset of this run at its other end.  A load,
\* which produces none, counts by its outcome.
Starved(s) ==
  \E e \in Edges :
    /\ e.to = s
    /\ e.kind = "data"
    /\ IF e.from \in Producer THEN e.from \notin outputs
                              ELSE outcome[e.from] # "succeeded"

PassRefused(r) ==
  /\ AtStep(r, "next")
  /\ Current(r) \in refused
  /\ Record(Current(r), "failed")
  /\ Advance(r, "next")
  /\ UNCHANGED <<dbVars, refused, outputs, result, todo, canVars, rest>>

\* A serve chip never waits for its turn, its conditions or the dispatcher:
\* finish_serve_run, in two transactions.
ServeBegin(r) ==
  LET s == Current(r) IN
  /\ AtStep(r, "next")
  /\ s \notin refused
  /\ Kind[s] = "serve_chip"
  /\ \/ /\ SetRunning(s)
        /\ CoGoto(r, "serving")
        /\ UNCHANGED <<coPos, outcome, outputs, result>>
     \/ /\ status[s] # "queued"
        /\ Abort(r, "error")
        /\ UNCHANGED dbVars
  /\ UNCHANGED <<refused, todo, canVars, rest>>

ServeEnd(r) ==
  LET s == Current(r) IN
  /\ AtStep(r, "serving")
  /\ \/ /\ SetSucceeded(s)
        /\ Record(s, "succeeded")
        /\ Advance(r, "next")
        /\ UNCHANGED <<outputs, result>>
     \/ /\ status[s] # "running"
        /\ Abort(r, "error")
        /\ UNCHANGED dbVars
  /\ UNCHANGED <<refused, todo, canVars, rest>>

HasTurn(r) ==
  /\ AtStep(r, "next")
  /\ Current(r) \notin refused
  /\ Kind[Current(r)] # "serve_chip"

\* Conditions first, then data.
PassOver(r) ==
  LET s == Current(r) IN
  /\ HasTurn(r)
  /\ Blocked(s) \/ Starved(s)
  /\ \/ /\ SkipStep(s)
        /\ Record(s, "skipped")
        /\ Advance(r, "next")
        /\ UNCHANGED <<outputs, result>>
     \/ /\ ~Waiting(s)
        /\ Abort(r, "error")
        /\ UNCHANGED dbVars
  /\ UNCHANGED <<refused, todo, canVars, rest>>

\* The inputs are looked up and bound to the step, if it is still waiting; an
\* input may have become unavailable.
Bind(r) ==
  LET s == Current(r) IN
  /\ HasTurn(r)
  /\ ~Blocked(s)
  /\ ~Starved(s)
  /\ \/ Waiting(s) /\ CoGoto(r, "bound")
     \/ CoGoto(r, "refused")
  /\ UNCHANGED <<dbVars, coPos, refused, outcome, outputs, result, todo, canVars, rest>>

\* Only now may the dispatcher see the step.
Mark(r) ==
  LET s == Current(r) IN
  /\ AtStep(r, "bound")
  /\ \/ /\ MarkDispatchable(s)
        /\ CoGoto(r, "waiting")
        /\ UNCHANGED <<coPos, outcome, outputs, result>>
     \/ /\ status[s] = "canceled"
        /\ Abort(r, "canceled")
        /\ UNCHANGED dbVars
     \/ /\ status[s] \notin {"queued", "canceled"}
        /\ CoGoto(r, "refused")
        /\ UNCHANGED <<dbVars, coPos, outcome, outputs, result>>
  /\ UNCHANGED <<refused, todo, canVars, rest>>

\* A mutant: the poll ends as soon as the step is no longer queued.
WaitForStart(r) ==
  LET s == Current(r) IN
  /\ AtStep(r, "waiting")
  /\ status[s] # "queued"
  /\ Advance(r, "next")
  /\ Record(s, "succeeded")
  /\ UNCHANGED <<dbVars, refused, outputs, result, todo, canVars, rest>>

\* A mutant: the poll knows of success and cancel only.
WaitForSuccess(r) ==
  LET s == Current(r) IN
  /\ AtStep(r, "waiting")
  /\ \/ /\ status[s] = "succeeded"
        /\ Advance(r, "next")
        /\ Record(s, "succeeded")
        /\ outputs' = IF s \in Producer THEN outputs \cup {s} ELSE outputs
        /\ UNCHANGED result
     \/ /\ status[s] = "canceled"
        /\ Abort(r, "canceled")
  /\ UNCHANGED <<dbVars, refused, todo, canVars, rest>>

\* wait_for_chip_run polls the step, and then reads its output: a producer
\* that has succeeded without one counts as failed.
Wait(r) ==
  LET s == Current(r) IN
  /\ AtStep(r, "waiting")
  /\ \/ /\ status[s] = "succeeded"
        /\ Advance(r, "next")
        /\ \/ /\ Record(s, "succeeded")
              /\ outputs' = IF s \in Producer THEN outputs \cup {s} ELSE outputs
              /\ UNCHANGED result
           \/ /\ s \in Producer
              /\ Record(s, "failed")
              /\ result' = [result EXCEPT ![r] = "error"]
              /\ UNCHANGED outputs
     \/ /\ status[s] = "canceled"
        /\ Abort(r, "canceled")
     \/ /\ status[s] = "failed"
        /\ CoGoto(r, "refused")
        /\ UNCHANGED <<coPos, outcome, outputs, result>>
  /\ UNCHANGED <<dbVars, refused, todo, canVars, rest>>

\* A mutant: a failed chip is not remembered for the verdict.
FailCurrentQuietly(r) ==
  /\ Record(Current(r), "failed")
  /\ Advance(r, "next")
  /\ UNCHANGED <<outputs, result>>

\* The chip has failed; the chips after it still get their turn.
FailCurrent(r) ==
  /\ Record(Current(r), "failed")
  /\ Advance(r, "next")
  /\ result' = [result EXCEPT ![r] = "error"]
  /\ UNCHANGED outputs

\* An error other than a cancel: a step that still is queued has no worker to
\* record it, so the coordinator does.
ChipError(r) ==
  /\ AtStep(r, "refused")
  /\ IF status[Current(r)] = "queued"
     THEN CoGoto(r, "record") /\ UNCHANGED <<coPos, outcome, outputs, result>>
     ELSE FailCurrent(r)
  /\ UNCHANGED <<dbVars, refused, todo, canVars, rest>>

RecordChipError(r) ==
  /\ AtStep(r, "record")
  /\ SetChipFailed(Current(r))
  /\ FailCurrent(r)
  /\ UNCHANGED <<refused, todo, canVars, rest>>

PlanDone(r) ==
  /\ coPc[r] = "next"
  /\ coPos[r] > Len(Plan[r])
  /\ CoGoto(r, "verdict")
  /\ UNCHANGED <<dbVars, coPos, refused, outcome, outputs, result, todo, canVars, rest>>

-----------------------------------------------------------------------------
(* The coordinator: the end of the run                                     *)

\* A mutant: the run is closed without a look at the steps that are left.
VerdictOnly(r) ==
  /\ coPc[r] = "verdict"
  /\ result' = [result EXCEPT ![r] =
       IF @ = "canceled" \/ execStatus[r] = "canceled" THEN "canceled"
       ELSE IF @ = "error" THEN "failed" ELSE "succeeded"]
  /\ CoGoto(r, "close")
  /\ UNCHANGED <<dbVars, coPos, refused, outcome, outputs, todo, canVars, rest>>

\* A mutant: only a cancel becomes a status.
VerdictUntranslated(r) ==
  /\ coPc[r] = "verdict"
  /\ result' = [result EXCEPT ![r] = IF execStatus[r] = "canceled" THEN "canceled" ELSE @]
  /\ CoGoto(r, "close")
  /\ UNCHANGED <<dbVars, coPos, refused, outcome, outputs, todo, canVars, rest>>

\* finish_workspace_execution reads the execution, and after an error lists
\* the steps that are left.
Verdict(r) ==
  /\ coPc[r] = "verdict"
  /\ result' = [result EXCEPT ![r] =
       IF @ = "canceled" \/ execStatus[r] = "canceled" THEN "canceled"
       ELSE IF @ = "error" THEN "failed" ELSE "succeeded"]
  /\ IF result[r] = "ok"
     THEN CoGoto(r, "close") /\ UNCHANGED todo
     ELSE CoGoto(r, "skip") /\ todo' = [todo EXCEPT ![r] = QueuedOf(r)]
  /\ UNCHANGED <<dbVars, coPos, refused, outcome, outputs, canVars, rest>>

\* skip_waiting_workspace_steps: a listed step that no longer waits is an
\* error, and the coordinator ends without closing the run.
SkipRest(r) ==
  LET s == Earliest(todo[r]) IN
  /\ coPc[r] = "skip"
  /\ \/ /\ todo[r] = {}
        /\ CoGoto(r, "close")
        /\ UNCHANGED <<dbVars, todo>>
     \/ /\ todo[r] # {}
        /\ \/ SkipStep(s) /\ todo' = [todo EXCEPT ![r] = @ \ {s}] /\ UNCHANGED coPc
           \/ ~Waiting(s) /\ CoGoto(r, "none") /\ UNCHANGED <<dbVars, todo>>
  /\ UNCHANGED <<coPos, refused, outcome, outputs, result, canVars, rest>>

Close(r) ==
  /\ coPc[r] = "close"
  /\ CloseRun(r, result[r])
  /\ CoGoto(r, "none")
  /\ UNCHANGED <<coPos, refused, outcome, outputs, result, todo, canVars, rest>>

CoNext(r) ==
  \/ Prepare(r) \/ Snapshot(r) \/ SnapshotDone(r) \/ Preflight(r)
  \/ PassRefused(r) \/ ServeBegin(r) \/ ServeEnd(r) \/ PassOver(r)
  \/ Bind(r) \/ Mark(r) \/ Wait(r) \/ ChipError(r) \/ RecordChipError(r)
  \/ PlanDone(r) \/ Verdict(r) \/ SkipRest(r) \/ Close(r)

-----------------------------------------------------------------------------
(* Cancel requests for a run: cancel_workspace_execution                   *)

CanGoto(r, pc) == canPc' = [canPc EXCEPT ![r] = pc]

CancelRun(r) ==
  /\ canPc[r] = "none"
  /\ cancels < MaxCancels
  /\ execStatus[r] \in Active
  /\ cancels' = cancels + 1
  /\ CanGoto(r, "list")
  /\ UNCHANGED <<dbVars, canTodo, coVars, rest>>

CancelListRunning(r) ==
  /\ canPc[r] = "list"
  /\ canTodo' = [canTodo EXCEPT ![r] = {s \in StepsOf(r) : status[s] = "running"}]
  /\ CanGoto(r, "stop")
  /\ UNCHANGED <<dbVars, cancels, coVars, rest>>

CancelStop(r) ==
  /\ canPc[r] = "stop"
  /\ \/ \E s \in canTodo[r] :
          /\ CancelStep(s)
          /\ canTodo' = [canTodo EXCEPT ![r] = @ \ {s}]
          /\ UNCHANGED canPc
     \/ /\ canTodo[r] = {}
        /\ CanGoto(r, "list_queued")
        /\ UNCHANGED <<dbVars, canTodo>>
  /\ UNCHANGED <<cancels, coVars, rest>>

CancelListQueued(r) ==
  /\ canPc[r] = "list_queued"
  /\ canTodo' = [canTodo EXCEPT ![r] = QueuedOf(r)]
  /\ CanGoto(r, "skip")
  /\ UNCHANGED <<dbVars, cancels, coVars, rest>>

\* A listed step that no longer waits is an error, and the request ends here.
CancelSkip(r) ==
  LET s == Earliest(canTodo[r]) IN
  /\ canPc[r] = "skip"
  /\ \/ /\ canTodo[r] = {}
        /\ CanGoto(r, "close")
        /\ UNCHANGED <<dbVars, canTodo>>
     \/ /\ canTodo[r] # {}
        /\ \/ SkipStep(s) /\ canTodo' = [canTodo EXCEPT ![r] = @ \ {s}] /\ UNCHANGED canPc
           \/ /\ ~Waiting(s)
              /\ CanGoto(r, "none")
              /\ canTodo' = [canTodo EXCEPT ![r] = {}]
              /\ UNCHANGED dbVars
  /\ UNCHANGED <<cancels, coVars, rest>>

CancelClose(r) ==
  /\ canPc[r] = "close"
  /\ CloseRun(r, "canceled")
  /\ CanGoto(r, "none")
  /\ UNCHANGED <<canTodo, cancels, coVars, rest>>

CancelNext(r) ==
  \/ CancelListRunning(r) \/ CancelStop(r) \/ CancelListQueued(r)
  \/ CancelSkip(r) \/ CancelClose(r)

-----------------------------------------------------------------------------
(* The system                                                              *)

\* A restart ends coordinators and requests; recovery closes their runs.
RestartAll ==
  /\ Restart
  /\ coPc' = [r \in Run |-> "none"]
  /\ coPos' = [r \in Run |-> 1]
  /\ refused' = {}
  /\ outcome' = [s \in Step |-> "none"]
  /\ outputs' = {}
  /\ result' = [r \in Run |-> "ok"]
  /\ todo' = [r \in Run |-> {}]
  /\ canPc' = [r \in Run |-> "none"]
  /\ canTodo' = [r \in Run |-> {}]
  /\ UNCHANGED cancels

QueueNext ==
  \/ PumpList \/ PumpRest
  \/ \E t \in Task : PumpPick(t) \/ TaskNext(t)
  \/ UserNext

RunNext ==
  \/ QueueNext /\ UNCHANGED runVars
  \/ \E r \in Run : StartRun(r) \/ CoNext(r) \/ CancelRun(r) \/ CancelNext(r)
  \/ RestartAll

RunSpec == RunInit /\ [][RunNext]_allVars

\* The coordinator is a task like any other, and a request is answered.
RunFairness ==
  /\ WF_allVars(PumpList /\ UNCHANGED runVars)
  /\ WF_allVars((PumpRest \/ \E t \in Task : PumpPick(t)) /\ UNCHANGED runVars)
  /\ \A t \in Task : WF_allVars(TaskNext(t) /\ UNCHANGED runVars)
  /\ \A r \in Run : WF_allVars(CoNext(r)) /\ WF_allVars(CancelNext(r))

FairRunSpec == RunSpec /\ RunFairness
-----------------------------------------------------------------------------
(* Properties                                                              *)

\* The chips of a full run run one at a time: the next is marked for the
\* dispatcher only when the one before has ended, whoever ended it.
OneAtATime ==
  \A r \in Run : Cardinality({s \in StepsOf(r) : status[s] = "running"}) <= 1

Before(x, s) ==
  \E r \in Run : \E i, j \in 1..Len(Plan[r]) : i < j /\ Plan[r][i] = x /\ Plan[r][j] = s

\* A chip of a full run starts only when every chip before it in the plan has
\* ended, and the database says of its predecessors what its on_success and
\* data connections ask for, although the coordinator decides by what it
\* remembers and the dispatcher acts later.  Serve chips ignore connections.
StartsInTurn ==
  [][\A s \in Step :
       ~Standalone(s) /\ status[s] # "running" /\ status'[s] = "running" =>
         /\ \A x \in Step : Before(x, s) => status[x] \in Terminal
         /\ Kind[s] # "serve_chip" =>
              \A e \in Edges : e.to = s /\ e.kind \in {"on_success", "data"} =>
                status[e.from] = "succeeded"]_allVars

\* A run that is stored as succeeded has run every chip of its plan with success,
\* except for those its connections passed over, which are those that wait for a
\* failure or follow a chip passed over or switched off: no refused recipe,
\* failure or cancel is lost on the way to the verdict.
SuccessIsWhole ==
  \A r \in Run : execStatus[r] = "succeeded" =>
    \A i \in 1..Len(Plan[r]) : LET s == Plan[r][i] IN
      \/ status[s] = "succeeded"
      \/ /\ status[s] = "canceled"
         /\ \E e \in Edges :
              e.to = s /\ (e.kind = "on_error" \/ status[e.from] \in {"canceled", "absent"})

\* A run that has succeeded or failed leaves no step behind that is still queued
\* or running; such a step would refuse its chip every later run.
ClosedRunIsQuiet ==
  \A r \in Run : execStatus[r] \in {"succeeded", "failed"} =>
    \A s \in StepsOf(r) : status[s] \notin Active

\* Somebody is left to close an unfinished run: its coordinator, or the cancel
\* request whose writes made the coordinator give up.  A refused recipe breaks
\* this: its step ends before those in front of it, so that coordinator and
\* request may each give up at a step the other has written.
RunHasKeeper ==
  \A r \in Run : execStatus[r] \in Active /\ refused \cap StepsOf(r) = {} =>
    coPc[r] # "none" \/ canPc[r] # "none"

\* The job of a chip run does not outlive it: cancel, failure recorders and recovery
\* each close both, so nothing works on for a chip that has ended.  A requeue breaks
\* it, since it takes the job alone; the runs that check this have none.
NoJobUnderEndedChip ==
  \A s \in Step : status[s] \in Terminal /\ child[s] # NoStep =>
    status[child[s]] \notin Active

\* The steps of full runs are the chips of OrderedRun.
Planned == {s \in Step : ~Standalone(s)}

Ordered ==
  INSTANCE OrderedRun WITH
    Chip <- Planned,
    chip <- [c \in Planned |-> status[c]],
    run  <- [r \in Run |-> execStatus[r]]

\* A full run keeps the promise of OrderedRun: its chips start in the order of
\* the plan, each once and one at a time, and its verdict is true of them, however
\* coordinator, dispatcher, cancel requests and restarts take turns.
ImplementsOrderedRun == Ordered!OrderedSpec

\* Every run that has been started ends, whatever is canceled meanwhile, but for
\* what RunHasKeeper leaves out; another cancel request ends such a run.
Abandoned(r) ==
  /\ refused \cap StepsOf(r) # {}
  /\ coPc[r] = "none"
  /\ canPc[r] = "none"

RunEnds ==
  \A r \in Run :
    execStatus[r] = "running" ~> execStatus[r] \in Terminal \/ Abandoned(r)

-----------------------------------------------------------------------------
(* What docs/workspace.md says of a canceled run, and the code does not keep *)

\* The current chip is closed as canceled and the chips that are left are skipped:
\* once its coordinator has gone, a canceled run has no chip that runs or waits.
CancelEndsChips ==
  \A r \in Run : execStatus[r] = "canceled" /\ coPc[r] = "none" =>
    \A s \in StepsOf(r) : status[s] \notin Active
=============================================================================
