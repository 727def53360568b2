--------------------------- MODULE DispatchProofs ---------------------------
(***************************************************************************)
(* Theorems about the run queue, for every set of steps, links between     *)
(* them, tasks, permits and bounds.  First what the transactions of        *)
(* ExecutionStore do to the status columns, whatever component runs them:  *)
(* types, the end of a step, and the agreement of an execution with its    *)
(* only step; then the dispatcher and its tasks; then transform chips and  *)
(* the jobs they are linked to: who works for a running step, and that a   *)
(* chip run and its job end together.                                      *)
(***************************************************************************)
EXTENDS Dispatch, TLAPS, FiniteSetTheorems

-----------------------------------------------------------------------------
(* The transactions                                                        *)

\* Any transaction of the store but a requeue, or none.
CalmStep ==
  \/ UNCHANGED dbVars
  \/ \E s \in Step :
       \/ InsertStep(s)
       \/ SetRunning(s) \/ SetSucceeded(s)
       \/ SetChipFailed(s) \/ SetExtractFailed(s)
       \/ FinishStep(s, "succeeded") \/ FinishStep(s, "failed")
       \/ FailJob(s) \/ CancelStep(s)
       \/ SkipStep(s) \/ MarkDispatchable(s)
  \/ \E s, c \in Step : LinkChild(s, c)
  \/ \E j, p \in Step : CompleteLinkedJob(j, p)
  \/ \E r \in Run : OpenRun(r) \/ \E to \in Terminal : CloseRun(r, to)
  \/ Recover

StoreStep == CalmStep \/ \E s \in Step : RequeueJob(s)

-----------------------------------------------------------------------------
(* Types                                                                   *)

\* The trigger only ever writes a status.
LEMMA DerivedType ==
  ASSUME NEW e, NEW st
  PROVE  DerivedStatus(e, st) \in Statuses \ {"absent", "canceled"}
BY DEF DerivedStatus, Statuses, Active, Terminal

\* The shape of an UPDATE of the status column.
LEMMA WriteType ==
  ASSUME StoreTypeOK, NEW S, NEW to \in Statuses
  PROVE  /\ After(S, to) \in [Step -> Statuses]
         /\ Fired(S, to) \in [Exec -> Statuses]
<1>1. After(S, to) \in [Step -> Statuses]
  BY DEF StoreTypeOK, After
<1>2. Fired(S, to) \in [Exec -> Statuses]
  BY DerivedType DEF StoreTypeOK, Fired
<1>3. QED
  BY <1>1, <1>2

\* Type correctness is kept by every transaction of the store.
LEMMA StoreTypeStep ==
  ASSUME StoreTypeOK, StoreStep
  PROVE  StoreTypeOK'
<1> USE DEF Statuses, Active, Terminal
<1>1. ASSUME NEW S, NEW to \in Statuses, SetStatus(S, to), OnlyStatus
      PROVE  StoreTypeOK'
  BY <1>1, WriteType DEF SetStatus, OnlyStatus, StoreTypeOK
<1>2. ASSUME NEW s \in Step, NEW to \in Statuses, ByHand(s, to)
      PROVE  /\ status' \in [Step -> Statuses]
             /\ execStatus' \in [Exec -> Statuses]
  <2> DEFINE fired == Fired({s}, to)
  <2>1. fired \in [Exec -> Statuses]
    BY WriteType
  <2>2. execStatus' = [e \in Exec |-> IF e = ExecOf(s) /\ e \notin Run
                                      THEN to ELSE fired[e]]
    BY <1>2 DEF ByHand
  <2> HIDE DEF fired
  <2>3. execStatus' \in [Exec -> Statuses]
    BY <2>1, <2>2
  <2>4. QED
    BY <1>2, <2>3, WriteType DEF ByHand
<1>3. CASE UNCHANGED dbVars
  BY <1>3 DEF dbVars, StoreTypeOK
<1>4. ASSUME NEW s \in Step, InsertStep(s)
      PROVE  StoreTypeOK'
  <2>1. status' \in [Step -> Statuses]
    BY <1>4 DEF InsertStep, StoreTypeOK
  <2>2. execStatus' \in [Exec -> Statuses]
    BY <1>4 DEF InsertStep, StoreTypeOK
  <2>3. queuedAt' \in [Step -> Nat] /\ clock' \in Nat
    BY <1>4 DEF InsertStep, StoreTypeOK
  <2>4. QED
    BY <1>4, <2>1, <2>2, <2>3 DEF InsertStep, StoreTypeOK
<1>5. ASSUME NEW s \in Step, \/ SetRunning(s) \/ SetSucceeded(s) \/ SkipStep(s)
                             \/ SetChipFailed(s) \/ SetExtractFailed(s) \/ FailJob(s)
      PROVE  StoreTypeOK'
  BY <1>1, <1>5
     DEF SetRunning, SetSucceeded, SkipStep, SetChipFailed, SetExtractFailed, FailJob
<1>6. ASSUME NEW s \in Step, FinishStep(s, "succeeded") \/ FinishStep(s, "failed")
      PROVE  StoreTypeOK'
  BY <1>2, <1>6 DEF FinishStep, OnlyStatus, StoreTypeOK
<1>7. ASSUME NEW s \in Step, RequeueJob(s)
      PROVE  StoreTypeOK'
  BY <1>2, <1>7 DEF RequeueJob, StoreTypeOK
<1>8. ASSUME NEW s \in Step, CancelStep(s)
      PROVE  StoreTypeOK'
  <2> DEFINE hit == {x \in {s, child[s]} \cap Step : status[x] \in Active}
             fired == Fired(hit, "canceled")
  <2>1. /\ After(hit, "canceled") \in [Step -> Statuses]
        /\ fired \in [Exec -> Statuses]
    BY WriteType
  <2>2. /\ status' = After(hit, "canceled")
        /\ execStatus' = [e \in Exec |->
             IF e = ExecOf(s) /\ e \notin Run /\ fired[e] \in Active
             THEN "canceled" ELSE fired[e]]
        /\ OnlyStatus
    BY <1>8 DEF CancelStep
  <2> HIDE DEF hit, fired
  <2>3. QED
    BY <2>1, <2>2 DEF OnlyStatus, StoreTypeOK
<1>9. ASSUME NEW s \in Step, NEW c \in Step, LinkChild(s, c)
      PROVE  StoreTypeOK'
  BY <1>9 DEF LinkChild, StoreTypeOK
<1>10. ASSUME NEW j \in Step, NEW p \in Step, CompleteLinkedJob(j, p)
       PROVE  StoreTypeOK'
  BY <1>1, <1>10 DEF CompleteLinkedJob
<1>11. CASE Recover
  <2> DEFINE running == {s \in Step : status[s] = "running"}
             waiting == {s \in Step : /\ status[s] = "queued"
                                      /\ ~Standalone(s)
                                      /\ execStatus[RunOf[s]] \in Active}
             marked == interrupted \cup running \cup waiting
             children == {s \in Step : /\ status[s] = "queued"
                                       /\ \E p \in marked : child[p] = s}
             hit == running \cup waiting \cup children
             fired == Fired(hit, "failed")
  <2>1. /\ After(hit, "failed") \in [Step -> Statuses]
        /\ fired \in [Exec -> Statuses]
    BY WriteType
  <2>2. /\ status' = After(hit, "failed")
        /\ execStatus' = [e \in Exec |->
             IF /\ fired[e] \in Active
                /\ \/ e \in Run
                   \/ \E s \in interrupted \cup hit : ExecOf(s) = e
             THEN "failed" ELSE fired[e]]
        /\ interrupted' = interrupted \cup hit
        /\ UNCHANGED <<child, dispatchAt, queuedAt, clock>>
    BY <1>11 DEF Recover
  <2>3. hit \subseteq Step
    OBVIOUS
  <2> HIDE DEF hit, fired
  <2>4. QED
    BY <2>1, <2>2, <2>3 DEF StoreTypeOK
<1>12. ASSUME NEW s \in Step, MarkDispatchable(s)
       PROVE  StoreTypeOK'
  BY <1>12 DEF MarkDispatchable, StoreTypeOK
<1>13. ASSUME NEW r \in Run, NEW to \in Terminal, OpenRun(r) \/ CloseRun(r, to)
       PROVE  StoreTypeOK'
  <2>1. execStatus' \in [Exec -> Statuses]
    BY <1>13 DEF OpenRun, CloseRun, StoreTypeOK
  <2>2. QED
    BY <1>13, <2>1 DEF OpenRun, CloseRun, StoreTypeOK
<1>14. QED
  BY <1>3, <1>4, <1>5, <1>6, <1>7, <1>8, <1>9, <1>10, <1>11, <1>12, <1>13
     DEF StoreStep, CalmStep
-----------------------------------------------------------------------------
(* The end of a step                                                       *)

\* What one transaction may do to the status of a step that has ended.
EndKept(s) ==
  /\ status[s] \in {"succeeded", "canceled"} => status'[s] = status[s]
  /\ status[s] = "failed" /\ status'[s] # "failed" =>
       status'[s] = "queued" /\ Kind[s] \in {"job", "transform_chip"}

\* An UPDATE of the steps in S leaves the others as they were.
LEMMA AfterAt ==
  ASSUME NEW S, NEW to, NEW s \in Step
  PROVE  After(S, to)[s] = IF s \in S THEN to ELSE status[s]
BY DEF After

\* Success and cancellation are for good in every transaction of the store, and
\* only a requeue takes a failed step back.
LEMMA EndKeptStep ==
  ASSUME StoreTypeOK, StoreStep, NEW s \in Step
  PROVE  EndKept(s)
<1> USE DEF EndKept, Active
<1>1. ASSUME NEW S, NEW to, status' = After(S, to),
             s \in S => status[s] \in Active \/ (status[s] = "failed" /\ to = "failed")
      PROVE  EndKept(s)
  BY <1>1, AfterAt
<1>2. CASE UNCHANGED dbVars
  BY <1>2 DEF dbVars
<1>3. ASSUME NEW x \in Step, InsertStep(x)
      PROVE  EndKept(s)
  BY <1>3 DEF InsertStep, StoreTypeOK
<1>4. ASSUME NEW x \in Step, SetRunning(x) \/ SetSucceeded(x)
      PROVE  EndKept(s)
  BY <1>1, <1>4 DEF SetRunning, SetSucceeded, SetStatus
<1>5. ASSUME NEW x \in Step, SetChipFailed(x)
      PROVE  EndKept(s)
  BY <1>1, <1>5 DEF SetChipFailed, SetStatus
<1>6. ASSUME NEW x \in Step, SetExtractFailed(x) \/ FailJob(x)
      PROVE  EndKept(s)
  BY <1>1, <1>6 DEF SetExtractFailed, FailJob, SetStatus
<1>7. ASSUME NEW x \in Step, FinishStep(x, "succeeded") \/ FinishStep(x, "failed")
      PROVE  EndKept(s)
  BY <1>1, <1>7 DEF FinishStep, ByHand
<1>8. ASSUME NEW x \in Step, RequeueJob(x)
      PROVE  EndKept(s)
  BY <1>8, AfterAt DEF RequeueJob, ByHand
<1>9. ASSUME NEW x \in Step, CancelStep(x)
      PROVE  EndKept(s)
  BY <1>1, <1>9 DEF CancelStep
<1>10. ASSUME NEW x \in Step, NEW c \in Step, LinkChild(x, c)
       PROVE  EndKept(s)
  BY <1>10 DEF LinkChild
<1>11. ASSUME NEW j \in Step, NEW p \in Step, CompleteLinkedJob(j, p)
       PROVE  EndKept(s)
  BY <1>1, <1>11 DEF CompleteLinkedJob, SetStatus
<1>12. CASE Recover
  BY <1>1, <1>12 DEF Recover
<1>13. ASSUME NEW x \in Step, SkipStep(x)
       PROVE  EndKept(s)
  BY <1>1, <1>13 DEF SkipStep, Waiting, SetStatus
<1>14. ASSUME NEW x \in Step, MarkDispatchable(x)
       PROVE  EndKept(s)
  BY <1>14 DEF MarkDispatchable
<1>15. ASSUME NEW r \in Run, NEW to, OpenRun(r) \/ CloseRun(r, to)
       PROVE  EndKept(s)
  BY <1>15 DEF OpenRun, CloseRun
<1>16. QED
  BY <1>2, <1>3, <1>4, <1>5, <1>6, <1>7, <1>8, <1>9, <1>10, <1>11, <1>12, <1>13,
     <1>14, <1>15 DEF StoreStep, CalmStep
-----------------------------------------------------------------------------
(* The course of a step and of a full run                                  *)

\* Without requeues a step only ever moves on.
Course(s) ==
  \/ status'[s] = status[s]
  \/ status[s] = "absent" /\ status'[s] = "queued"
  \/ status[s] = "queued" /\ status'[s] \in {"running"} \cup Terminal
  \/ status[s] = "running" /\ status'[s] \in Terminal

\* Every transaction but a requeue moves a step along its course.
LEMMA CourseStep ==
  ASSUME StoreTypeOK, CalmStep, NEW s \in Step
  PROVE  Course(s)
<1> USE DEF Course, Active, Terminal
<1>1. ASSUME NEW S, NEW to \in Terminal, status' = After(S, to),
             s \in S => status[s] \in Active \/ status[s] = to
      PROVE  Course(s)
  BY <1>1, AfterAt
<1>2. CASE UNCHANGED dbVars
  BY <1>2 DEF dbVars
<1>3. ASSUME NEW x \in Step, InsertStep(x)
      PROVE  Course(s)
  BY <1>3 DEF InsertStep, StoreTypeOK
<1>4. ASSUME NEW x \in Step, SetRunning(x)
      PROVE  Course(s)
  BY <1>4, AfterAt DEF SetRunning, SetStatus
<1>5. ASSUME NEW x \in Step, SetSucceeded(x)
      PROVE  Course(s)
  BY <1>1, <1>5 DEF SetSucceeded, SetStatus
<1>6. ASSUME NEW x \in Step, SetChipFailed(x)
      PROVE  Course(s)
  BY <1>1, <1>6 DEF SetChipFailed, SetStatus
<1>7. ASSUME NEW x \in Step, SetExtractFailed(x) \/ FailJob(x)
      PROVE  Course(s)
  BY <1>1, <1>7 DEF SetExtractFailed, FailJob, SetStatus
<1>8. ASSUME NEW x \in Step, FinishStep(x, "succeeded") \/ FinishStep(x, "failed")
      PROVE  Course(s)
  BY <1>1, <1>8 DEF FinishStep, ByHand
<1>9. ASSUME NEW x \in Step, CancelStep(x)
      PROVE  Course(s)
  BY <1>1, <1>9 DEF CancelStep
<1>10. ASSUME NEW x \in Step, SkipStep(x)
       PROVE  Course(s)
  BY <1>1, <1>10 DEF SkipStep, Waiting, SetStatus
<1>11. ASSUME NEW x \in Step, NEW c \in Step, LinkChild(x, c)
       PROVE  Course(s)
  BY <1>11 DEF LinkChild
<1>12. ASSUME NEW j \in Step, NEW p \in Step, CompleteLinkedJob(j, p)
       PROVE  Course(s)
  BY <1>1, <1>12 DEF CompleteLinkedJob, SetStatus
<1>13. ASSUME NEW x \in Step, MarkDispatchable(x)
       PROVE  Course(s)
  BY <1>13 DEF MarkDispatchable
<1>14. ASSUME NEW r \in Run, NEW to, OpenRun(r) \/ CloseRun(r, to)
       PROVE  Course(s)
  BY <1>14 DEF OpenRun, CloseRun
<1>15. CASE Recover
  BY <1>1, <1>15 DEF Recover
<1>16. QED
  BY <1>2, <1>3, <1>4, <1>5, <1>6, <1>7, <1>8, <1>9, <1>10, <1>11, <1>12, <1>13, <1>14,
     <1>15 DEF CalmStep

\* A step comes into being by its INSERT.
LEMMA Appears ==
  ASSUME StoreTypeOK, CalmStep, NEW s \in Step, status[s] = "absent", status'[s] # "absent"
  PROVE  InsertStep(s)
<1>1. ASSUME NEW S, NEW to, status' = After(S, to), s \notin S
      PROVE  FALSE
  BY <1>1, AfterAt
<1>2. \A S : (\A x \in S : status[x] # "absent") => s \notin S
  OBVIOUS
<1>3. ASSUME NEW x \in Step, InsertStep(x)
      PROVE  x = s
  BY <1>3 DEF InsertStep, StoreTypeOK
<1>4. ASSUME NEW x \in Step,
             \/ SetRunning(x) \/ SetSucceeded(x) \/ SetChipFailed(x) \/ SetExtractFailed(x)
             \/ FailJob(x) \/ SkipStep(x)
      PROVE  FALSE
  BY <1>1, <1>4 DEF SetRunning, SetSucceeded, SetChipFailed, SetExtractFailed, FailJob,
     SkipStep, Waiting, SetStatus, Active
<1>5. ASSUME NEW x \in Step, FinishStep(x, "succeeded") \/ FinishStep(x, "failed")
      PROVE  FALSE
  BY <1>1, <1>5 DEF FinishStep, ByHand, Active
<1>6. ASSUME NEW x \in Step, CancelStep(x)
      PROVE  FALSE
  BY <1>1, <1>6 DEF CancelStep, Active
<1>7. ASSUME NEW j \in Step, NEW p \in Step, CompleteLinkedJob(j, p)
      PROVE  FALSE
  BY <1>1, <1>7 DEF CompleteLinkedJob, SetStatus
<1>8. ASSUME Recover
      PROVE  FALSE
  BY <1>1, <1>8 DEF Recover
<1>9. QED
  BY <1>3, <1>4, <1>5, <1>6, <1>7, <1>8
     DEF CalmStep, dbVars, LinkChild, MarkDispatchable, OpenRun, CloseRun

\* No step ever goes away, requeues included.
LEMMA StaysPresent ==
  ASSUME StoreTypeOK, StoreStep, NEW s \in Step, status[s] # "absent"
  PROVE  status'[s] # "absent"
<1>1. CASE CalmStep
  BY <1>1, CourseStep DEF Course, Terminal
<1>2. CASE \E x \in Step : RequeueJob(x)
  BY <1>2, AfterAt DEF RequeueJob, ByHand
<1>3. QED
  BY <1>1, <1>2 DEF StoreStep

-----------------------------------------------------------------------------
(* A standalone execution and its only step                                *)

\* The execution of s is active, failed or running exactly when s is.
Agree(s) ==
  /\ (execStatus[s] \in Active) = (status[s] \in Active)
  /\ (execStatus[s] = "failed") = (status[s] = "failed")
  /\ (execStatus[s] = "running") = (status[s] = "running")

\* The invariant: recovery also closes the executions of the steps an earlier
\* recovery has marked, which is right only because those steps have ended.
AgreeInv ==
  /\ \A s \in Step : Standalone(s) => Agree(s)
  /\ \A s \in interrupted : status[s] = "failed"

\* What the trigger makes of a standalone step that has just been set to "to".
Outcome(to) == IF to \in {"failed", "running", "queued"} THEN to ELSE "succeeded"

\* No other step shares the execution of a standalone step.
LEMMA OwnExecution ==
  ASSUME NEW s \in Step, Standalone(s), NEW x \in Step
  PROVE  ExecOf(x) = s <=> x = s
BY StoreAssumption DEF Standalone, ExecOf

\* The trigger, for a standalone execution.
LEMMA FiredAt ==
  ASSUME NEW S \in SUBSET Step, NEW to, NEW s \in Step, Standalone(s)
  PROVE  Fired(S, to)[s] = IF s \in S THEN Outcome(to) ELSE execStatus[s]
<1>1. s \in Exec /\ s \notin Run
  BY StoreAssumption DEF Exec
<1>2. (\E x \in S : ExecOf(x) = s) <=> s \in S
  BY OwnExecution
<1>3. Fired(S, to)[s] = IF s \in S THEN DerivedStatus(s, After(S, to)) ELSE execStatus[s]
  BY <1>1, <1>2 DEF Fired
<1>4. ASSUME s \in S
      PROVE  DerivedStatus(s, After(S, to)) = Outcome(to)
  <2> DEFINE Some(value) == \E x \in Step : ExecOf(x) = s /\ After(S, to)[x] = value
  <2>1. \A value : Some(value) <=> value = to
    BY <1>4, AfterAt, OwnExecution
  <2>2. DerivedStatus(s, After(S, to)) =
          IF Some("failed") THEN "failed"
          ELSE IF Some("running") THEN "running"
          ELSE IF ~Some("queued") THEN "succeeded"
          ELSE "queued"
    BY DEF DerivedStatus
  <2> HIDE DEF Some
  <2>3. QED
    BY <2>1, <2>2 DEF Outcome
<1>5. QED
  BY <1>3, <1>4
\* The agreement is kept by every transaction of the store.
LEMMA AgreeStep ==
  ASSUME StoreTypeOK, AgreeInv, StoreStep
  PROVE  AgreeInv'
<1> USE DEF Active
<1>1. ASSUME NEW S \in SUBSET Step, NEW to \in {"running", "succeeded", "failed"},
             SetStatus(S, to), OnlyStatus,
             \A x \in S : status[x] = "failed" => to = "failed"
      PROVE  AgreeInv'
  <2>1. ASSUME NEW s \in Step, Standalone(s)
        PROVE  Agree(s)'
    <3>1. Agree(s)
      BY <2>1 DEF AgreeInv
    <3>2. /\ status'[s] = IF s \in S THEN to ELSE status[s]
          /\ execStatus'[s] = IF s \in S THEN Outcome(to) ELSE execStatus[s]
      BY <1>1, <2>1, AfterAt, FiredAt DEF SetStatus
    <3>3. QED
      BY <3>1, <3>2 DEF Agree, Outcome
  <2>2. \A s \in interrupted' : status'[s] = "failed"
    BY <1>1, AfterAt DEF AgreeInv, SetStatus, OnlyStatus, StoreTypeOK
  <2>3. QED
    BY <2>1, <2>2 DEF AgreeInv, Standalone
<1>2. ASSUME NEW x \in Step, NEW to, ByHand(x, to), NEW s \in Step, Standalone(s)
      PROVE  /\ status'[s] = IF s = x THEN to ELSE status[s]
             /\ execStatus'[s] = IF s = x THEN to ELSE execStatus[s]
  <2>1. status'[s] = IF s = x THEN to ELSE status[s]
    BY <1>2, AfterAt DEF ByHand
  <2>2. s \in Exec /\ s \notin Run /\ (s = ExecOf(x) <=> s = x)
    BY <1>2, StoreAssumption, OwnExecution DEF Exec
  <2>3. Fired({x}, to)[s] = IF s = x THEN Outcome(to) ELSE execStatus[s]
    BY <1>2, FiredAt
  <2>4. execStatus'[s] = IF s = ExecOf(x) /\ s \notin Run THEN to ELSE Fired({x}, to)[s]
    BY <1>2, <2>2 DEF ByHand
  <2>5. QED
    BY <2>1, <2>2, <2>3, <2>4
<1>3. CASE UNCHANGED dbVars
  BY <1>3 DEF dbVars, AgreeInv, Agree, Standalone
<1>4. ASSUME NEW x \in Step, InsertStep(x)
      PROVE  AgreeInv'
  <2>1. ASSUME NEW s \in Step, Standalone(s)
        PROVE  Agree(s)'
    <3>1. Agree(s)
      BY <2>1 DEF AgreeInv
    <3>2. s \in Exec
      BY DEF Exec
    <3>3. /\ status'[s] = IF s = x THEN "queued" ELSE status[s]
          /\ execStatus'[s] = IF s = x THEN "queued" ELSE execStatus[s]
      BY <1>4, <2>1, <3>2 DEF InsertStep, StoreTypeOK
    <3>4. QED
      BY <3>1, <3>3 DEF Agree
  <2>2. \A s \in interrupted' : status'[s] = "failed"
    BY <1>4 DEF AgreeInv, InsertStep, StoreTypeOK
  <2>3. QED
    BY <2>1, <2>2 DEF AgreeInv, Standalone
<1>5. ASSUME NEW x \in Step,
             SetRunning(x) \/ SetSucceeded(x) \/ SetChipFailed(x)
               \/ SetExtractFailed(x) \/ FailJob(x)
      PROVE  AgreeInv'
  <2>1. CASE SetRunning(x)
    BY <1>1, <2>1 DEF SetRunning
  <2>2. CASE SetSucceeded(x)
    BY <1>1, <2>2 DEF SetSucceeded
  <2>3. CASE SetChipFailed(x) \/ SetExtractFailed(x)
    BY <1>1, <2>3 DEF SetChipFailed, SetExtractFailed
  <2>4. CASE FailJob(x)
    <3>1. {y \in {x} \cup ParentsOf(x) : status[y] \in Active} \in SUBSET Step
      BY DEF ParentsOf
    <3>2. QED
      BY <1>1, <2>4, <3>1 DEF FailJob
  <2>5. QED
    BY <1>5, <2>1, <2>2, <2>3, <2>4
<1>6. ASSUME NEW x \in Step, NEW to \in {"succeeded", "failed"}, FinishStep(x, to)
      PROVE  AgreeInv'
  <2>1. ByHand(x, to) /\ status[x] \in {"queued", "running"} /\ interrupted' = interrupted
    BY <1>6 DEF FinishStep, OnlyStatus
  <2>2. ASSUME NEW s \in Step, Standalone(s)
        PROVE  Agree(s)'
    BY <1>2, <2>1, <2>2 DEF Agree, AgreeInv
  <2>3. \A s \in interrupted' : status'[s] = "failed"
    BY <2>1, AfterAt DEF AgreeInv, ByHand, StoreTypeOK
  <2>4. QED
    BY <2>2, <2>3 DEF AgreeInv, Standalone
<1>7. ASSUME NEW x \in Step, RequeueJob(x)
      PROVE  AgreeInv'
  <2>1. ByHand(x, "queued") /\ interrupted' = interrupted \ {x}
    BY <1>7 DEF RequeueJob
  <2>2. ASSUME NEW s \in Step, Standalone(s)
        PROVE  Agree(s)'
    BY <1>2, <2>1, <2>2 DEF Agree, AgreeInv
  <2>3. \A s \in interrupted' : status'[s] = "failed"
    BY <2>1, AfterAt DEF AgreeInv, ByHand, StoreTypeOK
  <2>4. QED
    BY <2>2, <2>3 DEF AgreeInv, Standalone
<1>8. ASSUME NEW x \in Step, CancelStep(x)
      PROVE  AgreeInv'
  <2> DEFINE hit == {y \in {x, child[x]} \cap Step : status[y] \in Active}
             fired == Fired(hit, "canceled")
  <2>1. /\ status' = After(hit, "canceled")
        /\ execStatus' = [e \in Exec |->
             IF e = ExecOf(x) /\ e \notin Run /\ fired[e] \in Active
             THEN "canceled" ELSE fired[e]]
        /\ OnlyStatus
    BY <1>8 DEF CancelStep
  <2>2. hit \in SUBSET Step /\ (\A y \in hit : status[y] \in Active)
    OBVIOUS
  <2>3. status[x] \in Active => x \in hit
    OBVIOUS
  <2> HIDE DEF hit
  <2>4. ASSUME NEW s \in Step, Standalone(s)
        PROVE  Agree(s)'
    <3>1. Agree(s)
      BY <2>4 DEF AgreeInv
    <3>2. s \in Exec /\ (s = ExecOf(x) <=> s = x)
      BY <2>4, OwnExecution DEF Exec
    <3>3. fired[s] = IF s \in hit THEN "succeeded" ELSE execStatus[s]
      BY <2>2, <2>4, FiredAt DEF Outcome
    <3>4. status'[s] = IF s \in hit THEN "canceled" ELSE status[s]
      BY <2>1, AfterAt
    <3> HIDE DEF fired
    <3>5. execStatus'[s] = IF s = x /\ s \notin Run /\ fired[s] \in Active
                           THEN "canceled" ELSE fired[s]
      BY <2>1, <3>2
    <3>6. CASE s \in hit
      BY <2>2, <3>3, <3>4, <3>5, <3>6 DEF Agree
    <3>7. CASE s \notin hit
      BY <2>3, <3>1, <3>3, <3>4, <3>5, <3>7 DEF Agree
    <3>8. QED
      BY <3>6, <3>7
  <2>5. \A s \in interrupted' : status'[s] = "failed"
    BY <2>1, <2>2, AfterAt DEF AgreeInv, OnlyStatus, StoreTypeOK
  <2>6. QED
    BY <2>4, <2>5 DEF AgreeInv, Standalone
<1>9. ASSUME NEW x \in Step, NEW c \in Step, LinkChild(x, c)
      PROVE  AgreeInv'
  BY <1>9 DEF LinkChild, AgreeInv, Agree, Standalone
<1>10. ASSUME NEW j \in Step, NEW p \in Step, CompleteLinkedJob(j, p)
       PROVE  AgreeInv'
  BY <1>1, <1>10 DEF CompleteLinkedJob
<1>11. CASE Recover
  <2> DEFINE running == {s \in Step : status[s] = "running"}
             waiting == {s \in Step : /\ status[s] = "queued"
                                      /\ ~Standalone(s)
                                      /\ execStatus[RunOf[s]] \in Active}
             marked == interrupted \cup running \cup waiting
             children == {s \in Step : /\ status[s] = "queued"
                                       /\ \E p \in marked : child[p] = s}
             hit == running \cup waiting \cup children
             fired == Fired(hit, "failed")
  <2>1. /\ status' = After(hit, "failed")
        /\ execStatus' = [e \in Exec |->
             IF /\ fired[e] \in Active
                /\ \/ e \in Run
                   \/ \E s \in interrupted \cup hit : ExecOf(s) = e
             THEN "failed" ELSE fired[e]]
        /\ interrupted' = interrupted \cup hit
    BY <1>11 DEF Recover
  <2>2. hit \in SUBSET Step
    OBVIOUS
  <2> HIDE DEF hit
  <2>3. ASSUME NEW s \in Step, Standalone(s)
        PROVE  Agree(s)'
    <3>1. Agree(s)
      BY <2>3 DEF AgreeInv
    <3>2. s \in Exec /\ s \notin Run
      BY StoreAssumption DEF Exec
    <3>3. fired[s] = IF s \in hit THEN "failed" ELSE execStatus[s]
      BY <2>2, <2>3, FiredAt DEF Outcome
    <3>4. status'[s] = IF s \in hit THEN "failed" ELSE status[s]
      BY <2>1, AfterAt
    <3> HIDE DEF fired
    <3>5. execStatus'[s] = IF /\ fired[s] \in Active
                              /\ \E x \in interrupted \cup hit : ExecOf(x) = s
                           THEN "failed" ELSE fired[s]
      BY <2>1, <3>2
    <3>6. CASE s \in hit
      BY <3>3, <3>4, <3>5, <3>6 DEF Agree
    <3>7. CASE s \notin hit
      <4>1. (\E x \in interrupted \cup hit : ExecOf(x) = s) => status[s] = "failed"
        BY <2>2, <2>3, <3>7, OwnExecution DEF AgreeInv, StoreTypeOK
      <4>2. QED
        BY <3>1, <3>3, <3>4, <3>5, <3>7, <4>1 DEF Agree
    <3>8. QED
      BY <3>6, <3>7
  <2>4. \A s \in interrupted' : status'[s] = "failed"
    BY <2>1, <2>2, AfterAt DEF AgreeInv, StoreTypeOK
  <2>5. QED
    BY <2>3, <2>4 DEF AgreeInv, Standalone
<1>12. ASSUME NEW x \in Step, SkipStep(x)
       PROVE  AgreeInv'
  <2>1. /\ status[x] = "queued" /\ ~Standalone(x)
        /\ SetStatus({x}, "canceled") /\ interrupted' = interrupted
    BY <1>12 DEF SkipStep, Waiting, OnlyStatus
  <2>2. ASSUME NEW s \in Step, Standalone(s)
        PROVE  Agree(s)'
    <3>1. status'[s] = status[s] /\ execStatus'[s] = execStatus[s]
      BY <2>1, <2>2, AfterAt, FiredAt DEF SetStatus
    <3>2. QED
      BY <2>2, <3>1 DEF Agree, AgreeInv
  <2>3. \A s \in interrupted' : status'[s] = "failed"
    BY <2>1, AfterAt DEF AgreeInv, SetStatus, StoreTypeOK
  <2>4. QED
    BY <2>2, <2>3 DEF AgreeInv, Standalone
<1>13. ASSUME NEW x \in Step, MarkDispatchable(x)
       PROVE  AgreeInv'
  BY <1>13 DEF MarkDispatchable, AgreeInv, Agree, Standalone
<1>14. ASSUME NEW r \in Run, NEW to, OpenRun(r) \/ CloseRun(r, to)
       PROVE  AgreeInv'
  <2>1. ASSUME NEW s \in Step
        PROVE  execStatus'[s] = execStatus[s]
    BY <1>14, StoreAssumption DEF OpenRun, CloseRun, StoreTypeOK, Exec
  <2>2. QED
    BY <1>14, <2>1 DEF OpenRun, CloseRun, AgreeInv, Agree, Standalone
<1>15. QED
  BY <1>3, <1>4, <1>5, <1>6, <1>7, <1>8, <1>9, <1>10, <1>11, <1>12, <1>13, <1>14
     DEF StoreStep, CalmStep

-----------------------------------------------------------------------------
(* Who runs the transactions                                               *)

\* A task that is busy works on a step.
LEMMA BusyStep ==
  ASSUME TypeOK, NEW t \in Task, taskPc[t] # "idle"
  PROVE  taskStep[t] \in Step
BY DEF TypeOK, Busy

\* The database changes only by the transactions of the store.
LEMMA TaskWrites ==
  ASSUME TypeOK, NEW t \in Task, TaskNext(t)
  PROVE  CalmStep
<1> DEFINE s == taskStep[t]
<1>1. taskPc[t] # "idle"
  BY DEF TaskNext, TaskStart, ChipStart, PageStart, LoadStart, PlainDone, ExtractDone,
         LoadDone, TransformInsert, TransformAttach, JobLookup, JobCommitAlone,
         JobCommitLinked, CancelSeen, CancelPollFails, RecordChipFailure,
         RecordJobFailure, Retire, Release
<1>2. s \in Step
  BY <1>1, BusyStep
<1>3. CASE TaskStart(t) \/ JobLookup(t) \/ CancelSeen(t) \/ CancelPollFails(t)
             \/ Retire(t) \/ Release(t)
  BY <1>3 DEF TaskStart, JobLookup, CancelSeen, CancelPollFails, Retire, Release, CalmStep
<1>4. CASE ChipStart(t) \/ PageStart(t) \/ LoadStart(t)
  BY <1>2, <1>4 DEF ChipStart, PageStart, LoadStart, CalmStep
<1>5. CASE PlainDone(t) \/ ExtractDone(t) \/ LoadDone(t)
  BY <1>2, <1>5 DEF PlainDone, ExtractDone, LoadDone, CalmStep
<1>6. CASE TransformInsert(t)
  BY <1>6 DEF TransformInsert, CalmStep
<1>7. CASE TransformAttach(t)
  <2>1. taskPc[t] = "inserted"
    BY <1>7 DEF TransformAttach
  <2>2. peer[t] \in Step
    BY <2>1 DEF TypeOK
  <2>3. QED
    BY <1>2, <1>7, <2>2 DEF TransformAttach, CalmStep
<1>8. CASE JobCommitAlone(t)
  BY <1>2, <1>8 DEF JobCommitAlone, CalmStep
<1>9. CASE JobCommitLinked(t)
  <2>1. taskPc[t] = "commit_linked"
    BY <1>9 DEF JobCommitLinked
  <2>2. peer[t] \in Step
    BY <2>1 DEF TypeOK
  <2>3. QED
    BY <1>2, <1>9, <2>2 DEF JobCommitLinked, CalmStep
<1>10. CASE RecordChipFailure(t) \/ RecordJobFailure(t)
  BY <1>2, <1>10 DEF RecordChipFailure, RecordJobFailure, CalmStep
<1>11. QED
  BY <1>3, <1>4, <1>5, <1>6, <1>7, <1>8, <1>9, <1>10 DEF TaskNext

\* Every step of the dispatcher writes the database by one transaction of the store.
LEMMA Writes ==
  ASSUME TypeOK, [Next]_vars
  PROVE  /\ StoreStep
         /\ MaxRequeues = 0 => CalmStep
<1>1. CASE UNCHANGED vars
  BY <1>1 DEF vars, StoreStep, CalmStep
<1>2. CASE PumpList \/ PumpRest \/ \E t \in Task : PumpPick(t)
  BY <1>2 DEF PumpList, PumpRest, PumpPick, StoreStep, CalmStep
<1>3. CASE \E t \in Task : TaskNext(t)
  BY <1>3, TaskWrites DEF StoreStep
<1>4. CASE UserNext
  <2>1. PICK s \in Step : \/ Submit(s) \/ ServeStart(s) \/ ServeFinish(s)
                          \/ CancelRequest(s) \/ CancelCommit(s)
                          \/ Requeue(s) \/ DeleteInput(s)
    BY <1>4 DEF UserNext
  <2>2. CASE Requeue(s)
    <3>1. MaxRequeues # 0
      BY <2>2 DEF Requeue, TypeOK
    <3>2. QED
      BY <2>2, <3>1 DEF Requeue, StoreStep
  <2>3. CASE ~Requeue(s)
    BY <2>1, <2>3 DEF Submit, ServeStart, ServeFinish, CancelRequest, CancelCommit,
                      DeleteInput, StoreStep, CalmStep
  <2>4. QED
    BY <2>2, <2>3
<1>5. CASE Restart
  BY <1>5 DEF Restart, StoreStep, CalmStep
<1>6. QED
  BY <1>1, <1>2, <1>3, <1>4, <1>5 DEF Next
-----------------------------------------------------------------------------
(* Type correctness                                                        *)

\* The variables have their types at the start.
LEMMA InitType ==
  ASSUME Init
  PROVE  TypeOK
<1>1. StoreTypeOK
  BY DEF Init, StoreInit, StoreTypeOK, Statuses
<1>2. QED
  BY <1>1, DispatchAssumption DEF Init, TypeOK, Busy, Pcs

\* A task that moves with Goto, or to a place where it needs a peer.
LEMMA GotoType ==
  ASSUME TypeOK, StoreTypeOK', NEW t \in Task, taskPc[t] # "idle",
         NEW pc \in Pcs, pc \notin {"inserted", "commit_linked"}, Goto(t, pc)
  PROVE  TypeOK'
<1>1. taskPc' \in [Task -> Pcs]
  BY DEF TypeOK, Goto
<1>2. \A u \in Task : taskPc'[u] # taskPc[u] => u = t /\ taskPc'[u] = pc
  BY DEF TypeOK, Goto
<1>3. UNCHANGED <<taskStep, peer, queueVars, userVars>>
  BY DEF Goto
<1>4. QED
  BY <1>1, <1>2, <1>3 DEF TypeOK, Busy, queueVars, userVars

\* A task that gets a step for its peer keeps the types.
LEMMA PeerType ==
  ASSUME TypeOK, StoreTypeOK', NEW t \in Task, taskPc[t] # "idle",
         NEW pc \in Pcs, NEW x \in Step,
         taskPc' = [taskPc EXCEPT ![t] = pc], peer' = [peer EXCEPT ![t] = x],
         UNCHANGED <<taskStep, queueVars, userVars>>
  PROVE  TypeOK'
<1>1. taskPc' \in [Task -> Pcs] /\ peer' \in [Task -> Step \cup {NoStep}]
  BY DEF TypeOK
<1>2. \A u \in Task : u # t => taskPc'[u] = taskPc[u] /\ peer'[u] = peer[u]
  BY DEF TypeOK
<1>3. peer'[t] = x
  BY DEF TypeOK
<1>4. QED
  BY <1>1, <1>2, <1>3 DEF TypeOK, Busy, queueVars, userVars

\* Every action of a task keeps the types.
LEMMA TaskType ==
  ASSUME TypeOK, StoreTypeOK', NEW t \in Task, TaskNext(t)
  PROVE  TypeOK'
<1> DEFINE s == taskStep[t]
<1>1. \A x : ErrorPc(x) \in Pcs \ {"inserted", "commit_linked"}
  BY DEF ErrorPc, Pcs
<1>2. CASE TaskStart(t)
  BY <1>2, GotoType DEF TaskStart, Pcs
<1>3. CASE ChipStart(t)
  BY <1>1, <1>3, GotoType DEF ChipStart, Pcs
<1>4. CASE PageStart(t) \/ LoadStart(t)
  BY <1>4, GotoType DEF PageStart, LoadStart, Pcs
<1>5. CASE PlainDone(t)
  BY <1>1, <1>5, GotoType DEF PlainDone, Pcs
<1>6. CASE ExtractDone(t) \/ LoadDone(t)
  BY <1>6, GotoType DEF ExtractDone, LoadDone, Pcs
<1>7. CASE TransformInsert(t)
  <2>1. CASE Goto(t, ErrorPc(s))
    BY <1>1, <1>7, <2>1, GotoType DEF TransformInsert
  <2>2. CASE ~Goto(t, ErrorPc(s))
    <3>1. PICK c \in Step : peer' = [peer EXCEPT ![t] = c]
      BY <1>7, <2>2 DEF TransformInsert
    <3>2. /\ taskPc[t] = "working"
          /\ taskPc' = [taskPc EXCEPT ![t] = "inserted"]
          /\ UNCHANGED <<taskStep, queueVars, userVars>>
      BY <1>7, <2>2 DEF TransformInsert
    <3>3. QED
      BY <3>1, <3>2, PeerType DEF Pcs
  <2>3. QED
    BY <2>1, <2>2
<1>8. CASE TransformAttach(t)
  BY <1>1, <1>8, GotoType DEF TransformAttach, Pcs
<1>9. CASE JobLookup(t)
  <2>1. taskPc[t] = "working"
    BY <1>9 DEF JobLookup
  <2>2. CASE Goto(t, "commit_alone") \/ Goto(t, "job_failing")
    BY <2>1, <2>2, GotoType DEF Pcs
  <2>3. CASE ~(Goto(t, "commit_alone") \/ Goto(t, "job_failing"))
    <3>1. PICK p \in ParentsOf(s) :
             /\ taskPc' = [taskPc EXCEPT ![t] = "commit_linked"]
             /\ peer' = [peer EXCEPT ![t] = p]
             /\ UNCHANGED <<taskStep, queueVars, userVars>>
      BY <1>9, <2>3 DEF JobLookup
    <3>2. p \in Step
      BY DEF ParentsOf
    <3>3. QED
      BY <2>1, <3>1, <3>2, PeerType DEF Pcs
  <2>4. QED
    BY <2>2, <2>3
<1>10. CASE JobCommitAlone(t) \/ JobCommitLinked(t)
  BY <1>10, GotoType DEF JobCommitAlone, JobCommitLinked, Pcs
<1>11. CASE CancelSeen(t) \/ CancelPollFails(t)
  BY <1>11, GotoType DEF CancelSeen, CancelPollFails, Pcs
<1>12. CASE RecordChipFailure(t) \/ RecordJobFailure(t)
  BY <1>12, GotoType DEF RecordChipFailure, RecordJobFailure, Pcs
<1>13. CASE Retire(t)
  <2>1. taskPc' \in [Task -> Pcs] /\ inFlight' \in SUBSET Step
    BY <1>13 DEF Retire, TypeOK, Pcs
  <2>2. \A u \in Task : taskPc'[u] # taskPc[u] => u = t /\ taskPc'[u] = "release"
    BY <1>13 DEF Retire, TypeOK
  <2>3. QED
    BY <1>13, <2>1, <2>2 DEF Retire, TypeOK, Busy, userVars
<1>14. CASE Release(t)
  <2>1. /\ taskPc' \in [Task -> Pcs]
        /\ taskStep' \in [Task -> Step \cup {NoStep}]
        /\ peer' \in [Task -> Step \cup {NoStep}]
        /\ free' \in Nat
    BY <1>14 DEF Release, TypeOK, Pcs
  <2>2. taskPc'[t] = "idle"
    BY <1>14 DEF Release, TypeOK
  <2>3. \A u \in Task : u # t =>
          taskPc'[u] = taskPc[u] /\ taskStep'[u] = taskStep[u] /\ peer'[u] = peer[u]
    BY <1>14 DEF Release, TypeOK
  <2>4. QED
    BY <1>14, <2>1, <2>2, <2>3 DEF Release, TypeOK, Busy, userVars
<1>15. QED
  BY <1>2, <1>3, <1>4, <1>5, <1>6, <1>7, <1>8, <1>9, <1>10, <1>11, <1>12, <1>13, <1>14
     DEF TaskNext

\* Every step keeps the types.
LEMMA TypeStep ==
  ASSUME TypeOK, [Next]_vars
  PROVE  TypeOK'
<1>1. StoreTypeOK'
  BY Writes, StoreTypeStep DEF TypeOK
<1>2. CASE UNCHANGED vars
  BY <1>1, <1>2 DEF vars, queueVars, taskVars, userVars, TypeOK, Busy
<1>3. CASE PumpList
  <2>1. ASSUME NEW r \in Rows
        PROVE  r \in Nat \X Step
    <3>1. \E s \in Step : r = <<queuedAt[s], s>>
      BY DEF Rows
    <3>2. \A s \in Step : queuedAt[s] \in Nat
      BY DEF TypeOK, StoreTypeOK
    <3>3. QED
      BY <3>1, <3>2
  <2>2. listed' \in SUBSET (Nat \X Step)
    BY <1>3, <2>1 DEF PumpList
  <2>3. QED
    BY <1>1, <1>3, <2>2 DEF PumpList, TypeOK, Busy, taskVars, userVars
<1>4. CASE PumpRest
  BY <1>1, <1>4 DEF PumpRest, TypeOK, Busy, taskVars, userVars
<1>5. ASSUME NEW t \in Task, PumpPick(t)
      PROVE  TypeOK'
  <2>1. PICK r \in Unclaimed : /\ inFlight' = inFlight \cup {r[2]}
                               /\ taskStep' = [taskStep EXCEPT ![t] = r[2]]
    BY <1>5 DEF PumpPick
  <2>2. r[2] \in Step
    BY DEF Unclaimed, TypeOK
  <2>3. /\ taskPc' = [taskPc EXCEPT ![t] = "picked"]
        /\ pump' = "idle" /\ listed' = {}
        /\ UNCHANGED <<dbVars, free, peer, userVars>>
    BY <1>5 DEF PumpPick
  <2>4. /\ taskPc' \in [Task -> Pcs]
        /\ taskStep' \in [Task -> Step \cup {NoStep}]
        /\ inFlight' \in SUBSET Step
    BY <2>1, <2>2, <2>3 DEF TypeOK, Pcs
  <2>5. /\ taskPc'[t] = "picked" /\ taskStep'[t] \in Step
        /\ \A u \in Task : u # t => taskPc'[u] = taskPc[u] /\ taskStep'[u] = taskStep[u]
    BY <2>1, <2>2, <2>3 DEF TypeOK
  <2>6. QED
    BY <1>1, <2>3, <2>4, <2>5 DEF TypeOK, Busy, userVars
<1>6. CASE \E t \in Task : TaskNext(t)
  BY <1>1, <1>6, TaskType
<1>7. CASE UserNext
  <2>1. PICK s \in Step : \/ Submit(s) \/ ServeStart(s) \/ ServeFinish(s)
                          \/ CancelRequest(s) \/ CancelCommit(s)
                          \/ Requeue(s) \/ DeleteInput(s)
    BY <1>7 DEF UserNext
  <2>2. UNCHANGED <<queueVars, taskVars, restarts>>
    BY <2>1 DEF Submit, ServeStart, ServeFinish, CancelRequest, CancelCommit, Requeue,
                DeleteInput
  <2>3. CASE Submit(s) \/ ServeStart(s) \/ ServeFinish(s)
    BY <1>1, <2>2, <2>3 DEF Submit, ServeStart, ServeFinish, TypeOK, Busy, queueVars, taskVars
  <2>4. CASE CancelRequest(s) \/ CancelCommit(s) \/ DeleteInput(s)
    BY <1>1, <2>2, <2>4
       DEF CancelRequest, CancelCommit, DeleteInput, TypeOK, Busy, queueVars, taskVars
  <2>5. CASE Requeue(s)
    <3>1. requeues' \in 0..MaxRequeues
      BY <2>5, DispatchAssumption DEF Requeue, TypeOK
    <3>2. QED
      BY <1>1, <2>2, <2>5, <3>1 DEF Requeue, TypeOK, Busy, queueVars, taskVars
  <2>6. QED
    BY <2>1, <2>3, <2>4, <2>5
<1>8. CASE Restart
  <2>1. restarts' \in 0..MaxRestarts /\ free' \in Nat
    BY <1>8, DispatchAssumption DEF Restart, TypeOK
  <2>2. QED
    BY <1>1, <1>8, <2>1 DEF Restart, TypeOK, Busy, Pcs
<1>9. QED
  BY <1>2, <1>3, <1>4, <1>5, <1>6, <1>7, <1>8 DEF Next

\* Every reachable state is well typed: no permit is borrowed that the semaphore
\* does not have, a busy task has a step, and a task about to link or complete
\* a transform chip knows the other half.
THEOREM TypeCorrect == Spec => []TypeOK
<1>1. Init => TypeOK
  BY InitType
<1>2. TypeOK /\ [Next]_vars => TypeOK'
  BY TypeStep
<1>3. QED
  BY <1>1, <1>2, PTL DEF Spec
-----------------------------------------------------------------------------
(* One task per step                                                       *)

\* A step is in inFlight as long as a task holds it, and no two tasks hold the
\* same one: the pump only claims what is not in inFlight, and a task that
\* leaves takes out nobody else's claim.
ClaimInv ==
  /\ \A t \in Task : Holds(t) => taskStep[t] \in inFlight
  /\ SoleRunner

\* The actions of a task up to its end keep the claims as they are.
LEMMA TaskKeepsClaim ==
  ASSUME TypeOK, NEW t \in Task, TaskNext(t), ~Retire(t), ~Release(t)
  PROVE  /\ UNCHANGED <<free, inFlight, taskStep, pump>>
         /\ taskPc[t] \notin {"idle", "release"}
         /\ taskPc'[t] \notin {"idle", "release"}
         /\ \A u \in Task : u # t => taskPc'[u] = taskPc[u]
<1>1. ASSUME NEW pc \in Pcs \ {"idle", "release"}, Goto(t, pc)
      PROVE  /\ UNCHANGED <<free, inFlight, taskStep, pump>>
             /\ taskPc'[t] = pc
             /\ \A u \in Task : u # t => taskPc'[u] = taskPc[u]
  BY <1>1 DEF Goto, TypeOK, queueVars
<1>2. \A x : ErrorPc(x) \in Pcs \ {"idle", "release"}
  BY DEF ErrorPc, Pcs
<1>3. CASE TaskStart(t) \/ PageStart(t) \/ LoadStart(t)
  BY <1>1, <1>3 DEF TaskStart, PageStart, LoadStart, Pcs
<1>4. CASE ChipStart(t) \/ PlainDone(t)
  BY <1>1, <1>2, <1>4 DEF ChipStart, PlainDone, Pcs
<1>5. CASE ExtractDone(t) \/ LoadDone(t)
  BY <1>1, <1>5 DEF ExtractDone, LoadDone, Pcs
<1>6. CASE TransformInsert(t)
  BY <1>1, <1>2, <1>6 DEF TransformInsert, TypeOK, queueVars
<1>7. CASE TransformAttach(t)
  BY <1>1, <1>2, <1>7 DEF TransformAttach, Pcs
<1>8. CASE JobLookup(t)
  BY <1>1, <1>8 DEF JobLookup, Pcs, TypeOK, queueVars
<1>9. CASE JobCommitAlone(t) \/ JobCommitLinked(t)
  BY <1>1, <1>9 DEF JobCommitAlone, JobCommitLinked, Pcs
<1>10. CASE CancelSeen(t) \/ CancelPollFails(t)
  BY <1>1, <1>10 DEF CancelSeen, CancelPollFails, Pcs
<1>11. CASE RecordChipFailure(t) \/ RecordJobFailure(t)
  BY <1>1, <1>11 DEF RecordChipFailure, RecordJobFailure, Pcs
<1>12. QED
  BY <1>3, <1>4, <1>5, <1>6, <1>7, <1>8, <1>9, <1>10, <1>11 DEF TaskNext

\* Every step keeps the claims: one runner to a step, which has it in flight.
LEMMA ClaimStep ==
  ASSUME TypeOK, ClaimInv, [Next]_vars
  PROVE  ClaimInv'
<1> USE DEF ClaimInv, SoleRunner, Holds
<1>1. CASE UNCHANGED vars
  BY <1>1 DEF vars, queueVars, taskVars
<1>2. CASE PumpList \/ PumpRest
  BY <1>2 DEF PumpList, PumpRest, taskVars
<1>3. ASSUME NEW t \in Task, PumpPick(t)
      PROVE  ClaimInv'
  <2>1. PICK r \in Unclaimed : /\ inFlight' = inFlight \cup {r[2]}
                               /\ taskStep' = [taskStep EXCEPT ![t] = r[2]]
    BY <1>3 DEF PumpPick
  <2>2. r[2] \notin inFlight
    BY DEF Unclaimed
  <2>3. /\ taskStep'[t] = r[2]
        /\ \A u \in Task : u # t => taskPc'[u] = taskPc[u] /\ taskStep'[u] = taskStep[u]
    BY <1>3, <2>1 DEF PumpPick, TypeOK
  <2>4. QED
    BY <2>1, <2>2, <2>3
<1>4. ASSUME NEW t \in Task, TaskNext(t), ~Retire(t), ~Release(t)
      PROVE  ClaimInv'
  BY <1>4, TaskKeepsClaim
<1>5. ASSUME NEW t \in Task, Retire(t)
      PROVE  ClaimInv'
  <2>1. /\ taskPc[t] = "retire" /\ taskPc'[t] = "release"
        /\ inFlight' = inFlight \ {taskStep[t]} /\ taskStep' = taskStep
        /\ \A u \in Task : u # t => taskPc'[u] = taskPc[u]
    BY <1>5 DEF Retire, TypeOK
  <2>2. QED
    BY <2>1
<1>6. ASSUME NEW t \in Task, Release(t)
      PROVE  ClaimInv'
  <2>1. /\ taskPc'[t] = "idle" /\ inFlight' = inFlight
        /\ \A u \in Task : u # t => taskPc'[u] = taskPc[u] /\ taskStep'[u] = taskStep[u]
    BY <1>6 DEF Release, TypeOK
  <2>2. QED
    BY <2>1
<1>7. CASE UserNext
  BY <1>7 DEF UserNext, Submit, ServeStart, ServeFinish, CancelRequest, CancelCommit,
              Requeue, DeleteInput, queueVars, taskVars
<1>8. CASE Restart
  BY <1>8 DEF Restart
<1>9. QED
  BY <1>1, <1>2, <1>3, <1>4, <1>5, <1>6, <1>7, <1>8 DEF Next

\* Claims and tasks stay together.
LEMMA ClaimsInvariant == Spec => []ClaimInv
<1>1. Init => ClaimInv
  BY DEF Init, ClaimInv, SoleRunner, Holds
<1>2. TypeOK /\ ClaimInv /\ [Next]_vars => ClaimInv'
  BY ClaimStep
<1>3. QED
  BY <1>1, <1>2, TypeCorrect, PTL DEF Spec

\* No step is ever worked on by two tasks, however listings, claims and the
\* ends of tasks interleave, and across restarts.
THEOREM OneTaskPerStep == Spec => []SoleRunner
<1>1. ClaimInv => SoleRunner
  BY DEF ClaimInv
<1>2. QED
  BY <1>1, ClaimsInvariant, PTL

-----------------------------------------------------------------------------
(* Permits                                                                 *)

BusyTasks == {t \in Task : Busy(t)}

\* The tasks that are busy after t has become so, or has ceased to be.
LEMMA BusyCount ==
  /\ Cardinality(BusyTasks) \in Nat
  /\ \A t \in Task :
       /\ ~Busy(t) => Cardinality(BusyTasks \cup {t}) = Cardinality(BusyTasks) + 1
       /\ Busy(t) => Cardinality(BusyTasks \ {t}) = Cardinality(BusyTasks) - 1
<1>1. IsFiniteSet(BusyTasks)
  BY DispatchAssumption, FS_Subset DEF BusyTasks
<1>2. QED
  BY <1>1, FS_CardinalityType, FS_AddElement, FS_RemoveElement DEF BusyTasks

\* Every step of the system keeps the balance of the permits.
LEMMA PermitsStep ==
  ASSUME TypeOK, PermitsBalance, [Next]_vars
  PROVE  PermitsBalance'
<1> DEFINE Picking == IF pump = "picking" THEN 1 ELSE 0
<1>1. free + Cardinality(BusyTasks) + Picking = Permits
  BY DEF PermitsBalance, BusyTasks
<1>2. free \in Nat /\ Permits \in Nat /\ Cardinality(BusyTasks) \in Nat
  BY BusyCount, DispatchAssumption DEF TypeOK
<1>3. SUFFICES free' + Cardinality(BusyTasks') + Picking' = Permits
  BY DEF PermitsBalance, BusyTasks
<1>4. ASSUME UNCHANGED <<free, pump>>, \A t \in Task : Busy(t)' = Busy(t)
      PROVE  free' + Cardinality(BusyTasks') + Picking' = Permits
  <2>1. BusyTasks' = BusyTasks
    BY <1>4 DEF BusyTasks
  <2>2. QED
    BY <1>1, <1>4, <2>1
<1>5. CASE UNCHANGED vars
  BY <1>4, <1>5 DEF vars, queueVars, taskVars, Busy
<1>6. CASE PumpList \/ PumpRest
  <2>1. BusyTasks' = BusyTasks
    BY <1>6 DEF PumpList, PumpRest, taskVars, BusyTasks, Busy
  <2>2. CASE PumpList
    <3>1. /\ pump = "idle" /\ pump' = "picking"
          /\ free' = free - 1
      BY <2>2 DEF PumpList
    <3>2. QED
      BY <1>1, <1>2, <2>1, <3>1
  <2>3. CASE PumpRest
    <3>1. /\ pump = "picking" /\ pump' = "idle"
          /\ free' = free + 1
      BY <2>3 DEF PumpRest
    <3>2. QED
      BY <1>1, <1>2, <2>1, <3>1
  <2>4. QED
    BY <1>6, <2>2, <2>3
<1>7. ASSUME NEW t \in Task, PumpPick(t)
      PROVE  free' + Cardinality(BusyTasks') + Picking' = Permits
  <2>1. /\ pump = "picking" /\ pump' = "idle" /\ free' = free
        /\ ~Busy(t) /\ taskPc' = [taskPc EXCEPT ![t] = "picked"]
    BY <1>7 DEF PumpPick
  <2>2. BusyTasks' = BusyTasks \cup {t}
    BY <2>1 DEF BusyTasks, Busy, TypeOK
  <2>3. Cardinality(BusyTasks') = Cardinality(BusyTasks) + 1
    BY <2>1, <2>2, BusyCount
  <2>4. QED
    BY <1>1, <1>2, <2>1, <2>3
<1>8. ASSUME NEW t \in Task, TaskNext(t), ~Release(t)
      PROVE  free' + Cardinality(BusyTasks') + Picking' = Permits
  <2>1. CASE ~Retire(t)
    BY <1>4, <1>8, <2>1, TaskKeepsClaim DEF Busy
  <2>2. CASE Retire(t)
    BY <1>4, <2>2 DEF Retire, TypeOK, Busy
  <2>3. QED
    BY <2>1, <2>2
<1>9. ASSUME NEW t \in Task, Release(t)
      PROVE  free' + Cardinality(BusyTasks') + Picking' = Permits
  <2>1. /\ pump' = pump /\ free' = free + 1
        /\ Busy(t) /\ taskPc' = [taskPc EXCEPT ![t] = "idle"]
    BY <1>9 DEF Release, Busy
  <2>2. BusyTasks' = BusyTasks \ {t}
    BY <2>1 DEF BusyTasks, Busy, TypeOK
  <2>3. Cardinality(BusyTasks') = Cardinality(BusyTasks) - 1
    BY <2>1, <2>2, BusyCount
  <2>4. QED
    BY <1>1, <1>2, <2>1, <2>3
<1>10. CASE UserNext
  <2>1. UNCHANGED <<queueVars, taskVars>>
    BY <1>10 DEF UserNext, Submit, ServeStart, ServeFinish, CancelRequest, CancelCommit,
                 Requeue, DeleteInput
  <2>2. QED
    BY <1>4, <2>1 DEF queueVars, taskVars, Busy
<1>11. CASE Restart
  <2>1. BusyTasks' = {} /\ free' = Permits /\ pump' = "idle"
    BY <1>11 DEF Restart, BusyTasks, Busy
  <2>2. QED
    BY <1>2, <2>1, FS_EmptySet
<1>12. QED
  BY <1>5, <1>6, <1>7, <1>8, <1>9, <1>10, <1>11 DEF Next

\* No permit is ever lost or made up, so that at most Permits tasks run and the
\* dispatcher never stops for want of one: failed listings, tasks that
\* return early and restarts included.
THEOREM PermitsConserved == Spec => []PermitsBalance
<1>1. Init => PermitsBalance
  <2>1. SUFFICES ASSUME Init
                 PROVE  PermitsBalance
    OBVIOUS
  <2>2. {t \in Task : Busy(t)} = {} /\ free = Permits /\ pump = "idle"
    BY <2>1 DEF Init, Busy
  <2>3. QED
    BY <2>2, FS_EmptySet, DispatchAssumption DEF PermitsBalance
<1>2. TypeOK /\ PermitsBalance /\ [Next]_vars => PermitsBalance'
  BY PermitsStep
<1>3. QED
  BY <1>1, <1>2, TypeCorrect, PTL DEF Spec

-----------------------------------------------------------------------------
(* The status columns                                                      *)

\* A step that has ended stays as it ended, a requeued transform excepted,
\* whoever writes last: the task, a failure recorder, a cancel or recovery.
THEOREM EndsAreFinal == Spec => EndIsFinal
<1>1. TypeOK /\ [Next]_vars =>
        [\A s \in Step :
           /\ status[s] \in {"succeeded", "canceled"} => status'[s] = status[s]
           /\ status[s] = "failed" /\ status'[s] # "failed" =>
                status'[s] = "queued" /\ Kind[s] \in {"job", "transform_chip"}]_vars
  BY Writes, EndKeptStep DEF TypeOK, EndKept
<1>2. QED
  BY <1>1, TypeCorrect, PTL DEF Spec, EndIsFinal

\* An execution of one step agrees with it, so a list of executions never shows
\* a run as going on that has ended, or the reverse.
THEOREM ExecutionAgrees == Spec => []ExecutionFollowsStep
<1>1. Init => AgreeInv
  BY DEF Init, StoreInit, AgreeInv, Agree, Active, Exec
<1>2. TypeOK /\ AgreeInv /\ [Next]_vars => AgreeInv'
  BY Writes, AgreeStep DEF TypeOK
<1>3. AgreeInv => ExecutionFollowsStep
  BY DEF AgreeInv, Agree, ExecutionFollowsStep
<1>4. QED
  BY <1>1, <1>2, <1>3, TypeCorrect, PTL DEF Spec
-----------------------------------------------------------------------------
(* One run of a chip at a time                                             *)

\* No step gives a chip a second active run.
LEMMA OneActiveStep ==
  ASSUME StoreTypeOK, OneActiveRunPerChip, CalmStep
  PROVE  OneActiveRunPerChip'
<1>1. \A s \in Step : status'[s] \in Active => status[s] \in Active \/ InsertStep(s)
  BY CourseStep, Appears DEF Course, Active, Terminal
<1>2. ASSUME NEW s \in Step, NEW x \in Step, InsertStep(s), s # x,
             IsChip(s), IsChip(x), ChipOf[s] = ChipOf[x]
      PROVE  status'[x] \notin Active
  BY <1>2 DEF InsertStep, ChipBusy, StoreTypeOK
<1>3. QED
  BY <1>1, <1>2 DEF OneActiveRunPerChip

\* A chip is queued or running at most once, on its own and in full runs alike, as
\* long as nothing is requeued.
THEOREM OneRunPerChip ==
  ASSUME MaxRequeues = 0
  PROVE  Spec => []OneActiveRunPerChip
<1>1. Init => OneActiveRunPerChip
  BY DEF Init, StoreInit, OneActiveRunPerChip, Active
<1>2. TypeOK /\ OneActiveRunPerChip /\ [Next]_vars => OneActiveRunPerChip'
  BY Writes, OneActiveStep DEF TypeOK
<1>3. QED
  BY <1>1, <1>2, TypeCorrect, PTL DEF Spec

-----------------------------------------------------------------------------
(* Kinds and links                                                         *)

\* The pcs of a task that has the work of its step in hand.
Working ==
  {"working", "inserted", "commit_alone", "commit_linked", "failing", "job_failing"}

\* What is linked to a chip run is a job of its own execution.
Linked(p) ==
  /\ Kind[p] = "transform_chip"
  /\ status[p] # "absent"
  /\ Kind[child[p]] = "job"
  /\ Standalone(child[p])
  /\ status[child[p]] # "absent"

\* A task only gets to the code of a kind of step with a step of that kind, and
\* the job it has inserted is nobody's child yet.
TaskKinds(t) ==
  /\ taskPc[t] = "inserted" =>
       /\ Kind[taskStep[t]] = "transform_chip"
       /\ Kind[peer[t]] = "job"
       /\ Standalone(peer[t])
       /\ status[peer[t]] # "absent"
       /\ \A p \in Step : child[p] # peer[t]
  /\ taskPc[t] \in {"commit_alone", "commit_linked", "job_failing"} =>
       Kind[taskStep[t]] = "job"
  /\ taskPc[t] = "failing" => IsChip(taskStep[t])

\* The invariant: a job is the child of one chip run at most.
LinkInv ==
  /\ \A p \in Step : child[p] # NoStep => Linked(p)
  /\ \A p, q \in Step : child[p] # NoStep /\ child[p] = child[q] => p = q
  /\ \A t \in Task : TaskKinds(t)
  /\ \A t, u \in Task :
       taskPc[t] = "inserted" /\ taskPc[u] = "inserted" /\ peer[t] = peer[u] => t = u
  /\ \A s \in Step : serving[s] # "none" => Kind[s] = "serve_chip" /\ Standalone(s)
  /\ canceling \in SUBSET {s \in Step : Standalone(s)}

\* A step of the dispatcher, a request or a task that links nothing keeps the
\* links, if a task that moves does so to a pc that fits its step.
LEMMA LinksKept ==
  ASSUME TypeOK, LinkInv, StoreStep, child' = child,
         \A t \in Task :
           /\ taskPc'[t] = "inserted" =>
                /\ taskPc[t] = "inserted"
                /\ taskStep'[t] = taskStep[t] /\ peer'[t] = peer[t]
           /\ taskPc'[t] \in {"commit_alone", "commit_linked", "job_failing"} =>
                Kind[taskStep'[t]] = "job"
           /\ taskPc'[t] = "failing" => IsChip(taskStep'[t]),
         \A s \in Step : serving'[s] # "none" => Kind[s] = "serve_chip" /\ Standalone(s),
         canceling' \in SUBSET {s \in Step : Standalone(s)}
  PROVE  LinkInv'
<1>1. \A s \in Step : status[s] # "absent" => status'[s] # "absent"
  BY StaysPresent DEF TypeOK
<1>2. \A p \in Step : child[p] # NoStep => child[p] \in Step
  BY DEF TypeOK, StoreTypeOK
<1>3. \A p \in Step : child'[p] # NoStep => Linked(p)'
  BY <1>1, <1>2 DEF LinkInv, Linked, Standalone
<1>4. \A t \in Task : TaskKinds(t)'
  BY <1>1 DEF LinkInv, TaskKinds, Standalone, IsChip, TypeOK
<1>5. QED
  BY <1>3, <1>4 DEF LinkInv, Standalone

\* What a task does up to its end, but for inserting and linking a job.
LEMMA TaskLinks ==
  ASSUME TypeOK, LinkInv, NEW t \in Task, TaskNext(t),
         ~TransformInsert(t), ~TransformAttach(t)
  PROVE  LinkInv'
<1>1. StoreStep
  BY TaskWrites DEF StoreStep
<1>2. ASSUME child' = child,
             UNCHANGED <<taskStep, serving, canceling>>,
             \A u \in Task : u # t => taskPc'[u] = taskPc[u] /\ peer'[u] = peer[u],
             taskPc'[t] # "inserted",
             taskPc'[t] \in {"commit_alone", "commit_linked", "job_failing"} =>
               Kind[taskStep[t]] = "job",
             taskPc'[t] = "failing" => IsChip(taskStep[t])
      PROVE  LinkInv'
  BY <1>1, <1>2, LinksKept DEF LinkInv, TaskKinds
<1>3. ASSUME NEW pc \in Pcs, Goto(t, pc), child' = child, pc # "inserted",
             pc \in {"commit_alone", "commit_linked", "job_failing"} =>
               Kind[taskStep[t]] = "job",
             pc = "failing" => IsChip(taskStep[t])
      PROVE  LinkInv'
  BY <1>2, <1>3 DEF Goto, userVars, TypeOK
<1>4. \A x : ErrorPc(x) \in {"retire", "failing"}
  BY DEF ErrorPc
<1> USE DEF Pcs
<1>5. CASE TaskStart(t)
  BY <1>3, <1>5 DEF TaskStart, dbVars
<1>6. CASE ChipStart(t)
  BY <1>3, <1>4, <1>6 DEF ChipStart, SetRunning, OnlyStatus, dbVars
<1>7. CASE PageStart(t) \/ LoadStart(t)
  BY <1>3, <1>7 DEF PageStart, LoadStart, SetRunning, OnlyStatus, dbVars
<1>8. CASE PlainDone(t)
  BY <1>3, <1>4, <1>8 DEF PlainDone, SetSucceeded, OnlyStatus, IsChip, dbVars
<1>9. CASE ExtractDone(t)
  BY <1>3, <1>9 DEF ExtractDone, SetSucceeded, SetExtractFailed, OnlyStatus, dbVars
<1>10. CASE LoadDone(t)
  BY <1>3, <1>10 DEF LoadDone, FinishStep, OnlyStatus, dbVars
<1>11. CASE JobLookup(t)
  <2>1. Kind[taskStep[t]] = "job" /\ child' = child
    BY <1>11 DEF JobLookup, dbVars
  <2>2. CASE Goto(t, "commit_alone") \/ Goto(t, "job_failing")
    BY <1>3, <2>1, <2>2
  <2>3. CASE ~(Goto(t, "commit_alone") \/ Goto(t, "job_failing"))
    <3>1. \E p \in ParentsOf(taskStep[t]) :
            /\ taskPc' = [taskPc EXCEPT ![t] = "commit_linked"]
            /\ peer' = [peer EXCEPT ![t] = p]
            /\ UNCHANGED <<taskStep, queueVars, userVars>>
      BY <1>11, <2>3 DEF JobLookup
    <3>2. QED
      BY <1>2, <2>1, <3>1 DEF userVars, TypeOK
  <2>4. QED
    BY <2>2, <2>3
<1>12. CASE JobCommitAlone(t) \/ JobCommitLinked(t)
  <2>1. Kind[taskStep[t]] = "job"
    BY <1>12 DEF JobCommitAlone, JobCommitLinked, LinkInv, TaskKinds
  <2>2. QED
    BY <1>3, <1>12, <2>1
       DEF JobCommitAlone, JobCommitLinked, SetSucceeded, CompleteLinkedJob, OnlyStatus, dbVars
<1>13. CASE CancelSeen(t) \/ CancelPollFails(t)
  BY <1>3, <1>13 DEF CancelSeen, CancelPollFails, dbVars
<1>14. CASE RecordChipFailure(t) \/ RecordJobFailure(t)
  BY <1>3, <1>14 DEF RecordChipFailure, RecordJobFailure, SetChipFailed, FailJob, OnlyStatus
<1>15. CASE Retire(t)
  BY <1>2, <1>15 DEF Retire, userVars, dbVars, TypeOK
<1>16. CASE Release(t)
  <2>1. /\ child' = child /\ UNCHANGED <<serving, canceling>> /\ taskPc'[t] = "idle"
        /\ \A u \in Task : u # t =>
             taskPc'[u] = taskPc[u] /\ peer'[u] = peer[u] /\ taskStep'[u] = taskStep[u]
    BY <1>16 DEF Release, userVars, dbVars, TypeOK
  <2>2. QED
    BY <1>1, <2>1, LinksKept DEF LinkInv, TaskKinds
<1>17. QED
  BY <1>5, <1>6, <1>7, <1>8, <1>9, <1>10, <1>11, <1>12, <1>13, <1>14, <1>15, <1>16
     DEF TaskNext

\* The job a task inserts is new, and so nobody's child and nobody's peer.
LEMMA InsertLinks ==
  ASSUME TypeOK, LinkInv, NEW t \in Task, TransformInsert(t)
  PROVE  LinkInv'
<1>1. CASE Goto(t, ErrorPc(taskStep[t])) /\ UNCHANGED dbVars
  <2>1. /\ child' = child /\ UNCHANGED <<taskStep, peer, serving, canceling>>
        /\ taskPc'[t] \in {"retire", "failing"}
        /\ Kind[taskStep[t]] = "transform_chip"
        /\ \A u \in Task : u # t => taskPc'[u] = taskPc[u]
    BY <1>1 DEF Goto, ErrorPc, userVars, dbVars, TypeOK, TransformInsert
  <2>2. StoreStep
    BY <1>1 DEF StoreStep, CalmStep
  <2>3. QED
    BY <2>1, <2>2, LinksKept DEF LinkInv, TaskKinds, IsChip
<1>2. ASSUME NEW c \in Step, Kind[c] = "job", Standalone(c), InsertStep(c),
             peer' = [peer EXCEPT ![t] = c],
             taskPc' = [taskPc EXCEPT ![t] = "inserted"],
             UNCHANGED <<taskStep, queueVars, userVars>>
      PROVE  LinkInv'
  <2>1. /\ status[c] = "absent" /\ status'[c] = "queued" /\ child' = child
        /\ \A s \in Step : s # c => status'[s] = status[s]
    BY <1>2 DEF InsertStep, TypeOK, StoreTypeOK
  <2>2. /\ taskPc'[t] = "inserted" /\ peer'[t] = c /\ taskStep' = taskStep
        /\ \A u \in Task : u # t => taskPc'[u] = taskPc[u] /\ peer'[u] = peer[u]
        /\ serving' = serving /\ canceling' = canceling
    BY <1>2 DEF TypeOK, userVars
  <2>3. \A p \in Step : child[p] # NoStep => child[p] \in Step /\ child[p] # c
    BY <2>1 DEF LinkInv, Linked, TypeOK, StoreTypeOK
  <2>4. \A p \in Step : child'[p] # NoStep => Linked(p)'
    BY <2>1, <2>3 DEF LinkInv, Linked, Standalone
  <2>5. \A p \in Step : child'[p] # c
    BY <2>1, <2>3, StoreAssumption
  <2>6. TaskKinds(t)'
    BY <1>2, <2>1, <2>2, <2>5 DEF TaskKinds, TransformInsert, Standalone
  <2>7. ASSUME NEW u \in Task, u # t
        PROVE  TaskKinds(u)'
    <3>1. taskPc[u] = "inserted" => peer[u] \in Step /\ peer[u] # c
      BY <2>1 DEF LinkInv, TaskKinds, TypeOK
    <3>2. QED
      BY <2>1, <2>2, <2>7, <3>1 DEF LinkInv, TaskKinds, Standalone, IsChip
  <2>8. \A u \in Task : taskPc[u] = "inserted" => peer[u] # c
    BY <2>1 DEF LinkInv, TaskKinds, TypeOK
  <2>9. QED
    BY <2>1, <2>2, <2>4, <2>6, <2>7, <2>8 DEF LinkInv, Standalone
<1>3. QED
  BY <1>1, <1>2 DEF TransformInsert

\* Linking the job makes it the child of one chip run.
LEMMA AttachLinks ==
  ASSUME TypeOK, LinkInv, NEW t \in Task, TransformAttach(t)
  PROVE  LinkInv'
<1> DEFINE p == taskStep[t]
           c == peer[t]
<1>1. /\ p \in Step /\ c \in Step /\ taskPc[t] = "inserted"
      /\ Kind[p] = "transform_chip" /\ Kind[c] = "job" /\ Standalone(c)
      /\ status[c] # "absent" /\ \A x \in Step : child[x] # c
  BY DEF TransformAttach, LinkInv, TaskKinds, TypeOK, Busy
<1>2. CASE LinkChild(p, c) /\ Goto(t, "retire")
  <2>1. /\ status' = status /\ status[p] = "running" /\ child'[p] = c
        /\ \A x \in Step : x # p => child'[x] = child[x]
    BY <1>1, <1>2 DEF LinkChild, TypeOK, StoreTypeOK
  <2>2. /\ taskPc'[t] = "retire" /\ UNCHANGED <<taskStep, peer, serving, canceling>>
        /\ \A u \in Task : u # t => taskPc'[u] = taskPc[u]
    BY <1>2 DEF Goto, userVars, TypeOK
  <2> HIDE DEF p, c
  <2>3. \A x \in Step : child'[x] # NoStep => Linked(x)'
    BY <1>1, <2>1 DEF LinkInv, Linked, Standalone
  <2>4. ASSUME NEW u \in Task
        PROVE  TaskKinds(u)'
    <3>1. CASE u = t
      BY <2>2, <3>1 DEF TaskKinds
    <3>2. CASE u # t
      <4>1. taskPc[u] = "inserted" => peer[u] # c
        BY <1>1, <3>2 DEF LinkInv, c
      <4>2. QED
        BY <2>1, <2>2, <3>2, <4>1 DEF LinkInv, TaskKinds, Standalone, IsChip
    <3>3. QED
      BY <3>1, <3>2
  <2>5. QED
    BY <1>1, <2>1, <2>2, <2>3, <2>4 DEF LinkInv, Standalone
<1>3. CASE Goto(t, ErrorPc(p)) /\ UNCHANGED dbVars
  <2>1. /\ child' = child /\ UNCHANGED <<taskStep, peer, serving, canceling>>
        /\ taskPc'[t] \in {"retire", "failing"}
        /\ \A u \in Task : u # t => taskPc'[u] = taskPc[u]
    BY <1>3 DEF Goto, ErrorPc, userVars, dbVars, TypeOK
  <2>2. StoreStep
    BY <1>3 DEF StoreStep, CalmStep
  <2>3. QED
    BY <1>1, <2>1, <2>2, LinksKept DEF LinkInv, TaskKinds, IsChip
<1>4. QED
  BY <1>2, <1>3 DEF TransformAttach

\* Every step keeps the links sound.
LEMMA LinkStep ==
  ASSUME TypeOK, LinkInv, [Next]_vars
  PROVE  LinkInv'
<1>1. StoreStep
  BY Writes
<1>2. ASSUME child' = child, UNCHANGED taskVars,
             \A s \in Step : serving'[s] # "none" => Kind[s] = "serve_chip" /\ Standalone(s),
             canceling' \in SUBSET {s \in Step : Standalone(s)}
      PROVE  LinkInv'
  BY <1>1, <1>2, LinksKept DEF LinkInv, TaskKinds, taskVars
<1>3. CASE UNCHANGED vars
  BY <1>2, <1>3 DEF vars, dbVars, userVars, LinkInv
<1>4. CASE PumpList \/ PumpRest
  BY <1>2, <1>4 DEF PumpList, PumpRest, dbVars, userVars, LinkInv
<1>5. ASSUME NEW t \in Task, PumpPick(t)
      PROVE  LinkInv'
  <2>1. /\ child' = child /\ UNCHANGED <<peer, serving, canceling>>
        /\ taskPc'[t] = "picked"
        /\ \A u \in Task : u # t => taskPc'[u] = taskPc[u] /\ taskStep'[u] = taskStep[u]
    BY <1>5 DEF PumpPick, dbVars, userVars, TypeOK
  <2>2. QED
    BY <1>1, <2>1, LinksKept DEF LinkInv, TaskKinds
<1>6. CASE \E t \in Task : TaskNext(t)
  BY <1>6, TaskLinks, InsertLinks, AttachLinks
<1>7. CASE UserNext
  <2>1. PICK s \in Step : \/ Submit(s) \/ ServeStart(s) \/ ServeFinish(s)
                          \/ CancelRequest(s) \/ CancelCommit(s)
                          \/ Requeue(s) \/ DeleteInput(s)
    BY <1>7 DEF UserNext
  <2>2. CASE Submit(s)
    BY <1>2, <2>2 DEF Submit, InsertStep, LinkInv, TypeOK
  <2>3. CASE ServeStart(s) \/ ServeFinish(s)
    BY <1>2, <2>3
       DEF ServeStart, ServeFinish, SetRunning, SetSucceeded, OnlyStatus, dbVars, LinkInv, TypeOK
  <2>4. CASE CancelRequest(s) \/ CancelCommit(s)
    BY <1>2, <2>4 DEF CancelRequest, CancelCommit, CancelStep, OnlyStatus, dbVars, LinkInv
  <2>5. CASE Requeue(s) \/ DeleteInput(s)
    BY <1>2, <2>5 DEF Requeue, RequeueJob, DeleteInput, dbVars, LinkInv
  <2>6. QED
    BY <2>1, <2>2, <2>3, <2>4, <2>5
<1>8. CASE Restart
  <2>1. /\ child' = child /\ (\A t \in Task : taskPc'[t] = "idle")
        /\ (\A s \in Step : serving'[s] = "none") /\ canceling' = {}
    BY <1>8 DEF Restart, Recover
  <2>2. QED
    BY <1>1, <2>1, LinksKept
<1>9. QED
  BY <1>3, <1>4, <1>5, <1>6, <1>7, <1>8 DEF Next

\* There are no links at the start.
LEMMA LinkInit ==
  ASSUME Init
  PROVE  LinkInv
BY StoreAssumption DEF Init, StoreInit, LinkInv, TaskKinds

\* The links stay as described, whatever happens.
LEMMA LinksInvariant == Spec => []LinkInv
<1>1. Init => LinkInv
  BY LinkInit
<1>2. TypeOK /\ LinkInv /\ [Next]_vars => LinkInv'
  BY LinkStep
<1>3. QED
  BY <1>1, <1>2, TypeCorrect, PTL DEF Spec
-----------------------------------------------------------------------------
(* Who works for a running step                                            *)

\* The invariant behind RunningHasRunner: the task that holds a running step has
\* its work in hand, and is not about to find out that there is none.
HasRunner(s) ==
  \/ \E t \in Task : taskStep[t] = s /\ taskPc[t] \in Working
  \/ serving[s] = "finish"
  \/ Kind[s] = "transform_chip" /\ child[s] # NoStep

RunnerInv == \A s \in Step : status[s] = "running" => HasRunner(s)

\* A task leaves no step running behind: where it goes without its work, the step
\* has ended or is linked to a job.
LEMMA TaskRuns ==
  ASSUME TypeOK, LinkInv, ~StorageFails, NEW t \in Task, TaskNext(t)
  PROVE  /\ \A s \in Step : status'[s] = "running" =>
              \/ s = taskStep[t] /\ taskPc'[t] \in Working /\ taskStep'[t] = s
              \/ status[s] = "running" /\ (s = taskStep[t] => taskPc[t] \notin Working)
              \/ Kind[s] = "transform_chip" /\ child'[s] # NoStep
         /\ \A s \in Step : child[s] # NoStep => child'[s] # NoStep
         /\ UNCHANGED serving
         /\ \A u \in Task : u # t => taskPc'[u] = taskPc[u] /\ taskStep'[u] = taskStep[u]
<1> DEFINE x == taskStep[t]
<1>1. x \in Step
  BY TaskWrites, BusyStep DEF TaskNext, TaskStart, ChipStart, PageStart, LoadStart, PlainDone,
     ExtractDone, LoadDone, TransformInsert, TransformAttach, JobLookup, JobCommitAlone,
     JobCommitLinked, CancelSeen, CancelPollFails, RecordChipFailure, RecordJobFailure,
     Retire, Release
<1>2. ASSUME NEW pc \in Pcs, Goto(t, pc)
      PROVE  /\ taskPc'[t] = pc /\ UNCHANGED <<taskStep, serving>>
             /\ \A u \in Task : u # t => taskPc'[u] = taskPc[u]
  BY <1>2 DEF Goto, TypeOK, userVars
<1>3. ErrorPc(x) = IF status[x] = "canceled" THEN "retire" ELSE "failing"
  BY DEF ErrorPc
<1>4. ASSUME UNCHANGED dbVars
      PROVE  status' = status /\ child' = child
  BY <1>4 DEF dbVars
<1>5. \A S, to : \A s \in Step : After(S, to)[s] = IF s \in S THEN to ELSE status[s]
  BY AfterAt
<1> USE DEF Working, Pcs
<1>6. CASE TaskStart(t)
  BY <1>2, <1>4, <1>6 DEF TaskStart
<1>7. CASE ChipStart(t)
  BY <1>1, <1>2, <1>3, <1>4, <1>5, <1>7 DEF ChipStart, SetRunning, SetStatus, OnlyStatus
<1>8. CASE PageStart(t) \/ LoadStart(t)
  BY <1>1, <1>2, <1>4, <1>5, <1>8 DEF PageStart, LoadStart, SetRunning, SetStatus, OnlyStatus
<1>9. CASE PlainDone(t)
  BY <1>1, <1>2, <1>3, <1>4, <1>5, <1>9 DEF PlainDone, SetSucceeded, SetStatus, OnlyStatus
<1>10. CASE ExtractDone(t)
  BY <1>1, <1>2, <1>4, <1>5, <1>10
     DEF ExtractDone, SetSucceeded, SetExtractFailed, SetStatus, OnlyStatus, Active
<1>11. CASE LoadDone(t)
  BY <1>1, <1>2, <1>4, <1>5, <1>11 DEF LoadDone, FinishStep, ByHand, OnlyStatus, Active
<1>12. CASE TransformInsert(t)
  <2>1. CASE Goto(t, ErrorPc(x)) /\ UNCHANGED dbVars
    BY <1>2, <1>3, <1>4, <2>1
  <2>2. ASSUME NEW c \in Step, InsertStep(c),
               taskPc' = [taskPc EXCEPT ![t] = "inserted"],
               UNCHANGED <<taskStep, queueVars, userVars>>
        PROVE  /\ taskPc'[t] = "inserted" /\ UNCHANGED <<taskStep, serving, child>>
               /\ \A u \in Task : u # t => taskPc'[u] = taskPc[u]
               /\ \A s \in Step : status'[s] = "running" => status[s] = "running"
    BY <2>2 DEF InsertStep, TypeOK, StoreTypeOK, userVars
  <2>3. QED
    BY <1>12, <2>1, <2>2 DEF TransformInsert
<1>13. CASE TransformAttach(t)
  <2>1. Kind[x] = "transform_chip" /\ peer[t] \in Step
    BY <1>13 DEF TransformAttach, LinkInv, TaskKinds, TypeOK
  <2>2. CASE LinkChild(x, peer[t]) /\ Goto(t, "retire")
    <3>1. /\ status' = status /\ child'[x] = peer[t] /\ child'[x] # NoStep
          /\ \A s \in Step : s # x => child'[s] = child[s]
      BY <1>1, <2>1, <2>2, StoreAssumption DEF LinkChild, TypeOK, StoreTypeOK
    <3>2. QED
      BY <1>2, <2>1, <2>2, <3>1
  <2>3. CASE status[x] # "running" /\ Goto(t, ErrorPc(x)) /\ UNCHANGED dbVars
    BY <1>2, <1>3, <1>4, <2>3
  <2>4. QED
    BY <1>13, <2>2, <2>3 DEF TransformAttach
<1>14. CASE JobLookup(t)
  BY <1>2, <1>4, <1>14 DEF JobLookup, TypeOK, userVars
<1>15. CASE JobCommitAlone(t)
  BY <1>1, <1>2, <1>4, <1>5, <1>15 DEF JobCommitAlone, SetSucceeded, SetStatus, OnlyStatus
<1>16. CASE JobCommitLinked(t)
  BY <1>1, <1>2, <1>4, <1>5, <1>16
     DEF JobCommitLinked, CompleteLinkedJob, SetStatus, OnlyStatus
<1>17. CASE CancelSeen(t) \/ CancelPollFails(t)
  BY <1>2, <1>4, <1>17 DEF CancelSeen, CancelPollFails
<1>18. CASE RecordChipFailure(t)
  BY <1>1, <1>2, <1>5, <1>18
     DEF RecordChipFailure, SetChipFailed, SetStatus, OnlyStatus, Active
<1>19. CASE RecordJobFailure(t)
  BY <1>1, <1>2, <1>5, <1>19 DEF RecordJobFailure, FailJob, SetStatus, OnlyStatus, Active
<1>20. CASE Retire(t) \/ Release(t)
  BY <1>4, <1>20 DEF Retire, Release, TypeOK, userVars
<1>21. QED
  BY <1>6, <1>7, <1>8, <1>9, <1>10, <1>11, <1>12, <1>13, <1>14, <1>15, <1>16, <1>17, <1>18,
     <1>19, <1>20 DEF TaskNext

\* Every step keeps a runner to each running step.
LEMMA RunnerStep ==
  ASSUME TypeOK, LinkInv, ~StorageFails, RunnerInv, [Next]_vars
  PROVE  RunnerInv'
<1>1. ASSUME UNCHANGED <<taskPc, taskStep>>,
             \A s \in Step : child[s] # NoStep => child'[s] # NoStep,
             \A s \in Step : status'[s] = "running" =>
               \/ status[s] = "running" /\ (serving[s] = "finish" => serving'[s] = "finish")
               \/ serving'[s] = "finish"
      PROVE  RunnerInv'
  BY <1>1 DEF RunnerInv, HasRunner
<1>2. CASE UNCHANGED vars
  BY <1>1, <1>2 DEF vars, dbVars, taskVars, userVars
<1>3. CASE PumpList \/ PumpRest
  BY <1>1, <1>3 DEF PumpList, PumpRest, dbVars, taskVars, userVars
<1>4. ASSUME NEW t \in Task, PumpPick(t)
      PROVE  RunnerInv'
  <2>1. /\ UNCHANGED <<status, child, serving>> /\ taskPc[t] = "idle"
        /\ \A u \in Task : u # t => taskPc'[u] = taskPc[u] /\ taskStep'[u] = taskStep[u]
    BY <1>4 DEF PumpPick, dbVars, userVars, TypeOK, Busy
  <2>2. QED
    BY <2>1 DEF RunnerInv, HasRunner, Working
<1>5. ASSUME NEW t \in Task, TaskNext(t)
      PROVE  RunnerInv'
  BY <1>5, TaskRuns DEF RunnerInv, HasRunner
<1>6. CASE UserNext
  <2>1. PICK s \in Step : \/ Submit(s) \/ ServeStart(s) \/ ServeFinish(s)
                          \/ CancelRequest(s) \/ CancelCommit(s)
                          \/ Requeue(s) \/ DeleteInput(s)
    BY <1>6 DEF UserNext
  <2>2. CASE Submit(s)
    BY <1>1, <2>2 DEF Submit, InsertStep, TypeOK, StoreTypeOK, taskVars
  <2>3. CASE ServeStart(s)
    <3>1. CASE SetRunning(s)
      BY <1>1, <2>3, <3>1, AfterAt
         DEF ServeStart, SetRunning, SetStatus, OnlyStatus, TypeOK, taskVars
    <3>2. CASE UNCHANGED dbVars
      BY <1>1, <2>3, <3>2 DEF ServeStart, SetRunning, SetStatus, TypeOK, taskVars, dbVars
    <3>3. QED
      BY <2>3, <3>1, <3>2 DEF ServeStart
  <2>4. CASE ServeFinish(s)
    BY <1>1, <2>4, AfterAt
       DEF ServeFinish, SetSucceeded, SetStatus, OnlyStatus, TypeOK, taskVars, dbVars
  <2>5. CASE CancelRequest(s) \/ DeleteInput(s)
    BY <1>1, <2>5 DEF CancelRequest, DeleteInput, dbVars, taskVars
  <2>6. CASE CancelCommit(s)
    BY <1>1, <2>6, AfterAt DEF CancelCommit, CancelStep, OnlyStatus, taskVars
  <2>7. CASE Requeue(s)
    BY <1>1, <2>7, AfterAt DEF Requeue, RequeueJob, ByHand, taskVars
  <2>8. QED
    BY <2>1, <2>2, <2>3, <2>4, <2>5, <2>6, <2>7
<1>7. CASE Restart
  <2>1. \A s \in Step : status'[s] # "running"
    BY <1>7, AfterAt DEF Restart, Recover
  <2>2. QED
    BY <2>1 DEF RunnerInv
<1>8. QED
  BY <1>2, <1>3, <1>4, <1>5, <1>6, <1>7 DEF Next

\* As long as no database call of a running task fails, nothing is left running
\* with nobody to end it, however many tasks, cancels, requeues and restarts there
\* are.  (With such a failure there is: see CancelPollFails.)
THEOREM RunnersExist ==
  ASSUME ~StorageFails
  PROVE  Spec => []RunningHasRunner
<1>1. Init => RunnerInv
  BY DEF Init, StoreInit, RunnerInv
<1>2. TypeOK /\ LinkInv /\ RunnerInv /\ [Next]_vars => RunnerInv'
  BY RunnerStep
<1>3. RunnerInv => RunningHasRunner
  BY DEF RunnerInv, HasRunner, RunningHasRunner, Working, Holds
<1>4. QED
  BY <1>1, <1>2, <1>3, TypeCorrect, LinksInvariant, PTL DEF Spec
-----------------------------------------------------------------------------
(* A chip run and its job                                                  *)

\* No task works on p; one may have found out that there is nothing to do.
Unattended(p) ==
  \A t \in Task : Holds(t) /\ taskStep[t] = p => taskPc[t] \in {"picked", "retire"}

\* A chip run that is linked to a job waits for it, or both have ended, or one of
\* them has been requeued: the job, which then finds that its chip run has ended,
\* or the chip run, whose old job stays ended.
Paired(p) ==
  \/ status[p] = "running" /\ Unattended(p)
  \/ /\ status[p] \in Terminal
     /\ Unattended(p)
     /\ status[child[p]] \notin Active \/ requeues = 1
     /\ \A t \in Task :
          taskPc[t] = "commit_alone" /\ taskStep[t] = child[p] => status[child[p]] # "running"
  \/ requeues = 1 /\ status[child[p]] \notin Active

\* The invariant.  A job that is about to end with its chip run knows the right one.
PairInv ==
  /\ \A p \in Step : child[p] # NoStep => Paired(p)
  /\ \A t \in Task :
       taskPc[t] = "commit_linked" /\ status[taskStep[t]] = "running" =>
         child[peer[t]] = taskStep[t]
  /\ \A p \in Step : Kind[p] = "transform_chip" /\ status[p] = "succeeded" =>
       child[p] # NoStep /\ status[child[p]] = "succeeded"

\* What a step does to the pairs when it links nothing and requeues nothing.
PairMove ==
  /\ child' = child
  /\ \A p \in Step : child[p] # NoStep /\ status[p] = "running" /\ status'[p] # "running" =>
       status'[child[p]] \notin Active
  /\ \A p \in Step : Kind[p] = "transform_chip" /\ status'[p] = "succeeded" =>
       \/ status[p] = "succeeded"
       \/ child[p] # NoStep /\ status'[child[p]] = "succeeded"
  /\ \A s \in Step : status'[s] = "running" /\ status[s] # "running" =>
       \/ Kind[s] = "serve_chip"
       \/ \E t \in Task : taskStep[t] = s /\ taskPc[t] = "ready"

\* What it does to a task: nobody takes up a step that is no longer queued, and
\* a job is looked up before it is committed.
TaskMove(t) ==
  /\ taskPc'[t] \notin {"idle", "release", "picked", "retire"} =>
       /\ taskPc[t] \notin {"idle", "release", "retire"}
       /\ taskPc[t] = "picked" => status[taskStep[t]] = "queued"
       /\ taskStep'[t] = taskStep[t]
  /\ taskPc'[t] = "commit_alone" =>
       taskPc[t] = "commit_alone" \/ ParentsOf(taskStep[t]) = {}
  /\ taskPc'[t] = "commit_linked" =>
       \/ taskPc[t] = "commit_linked" /\ peer'[t] = peer[t]
       \/ child[peer'[t]] = taskStep[t]
  /\ taskPc'[t] \in {"commit_alone", "commit_linked"} => taskPc[t] # "ready"

\* Chip runs stay paired with their jobs under a move that parts none.
LEMMA PairKept ==
  ASSUME TypeOK, LinkInv, LinkInv', ClaimInv, PairInv, CalmStep, PairMove,
         requeues' = requeues, \A t \in Task : TaskMove(t)
  PROVE  PairInv'
<1>1. \A s \in Step : status[s] \notin Active \cup {"absent"} => status'[s] = status[s]
  BY CourseStep DEF TypeOK, Course, Active
<1>2. \A s \in Step : status[s] = "running" => status'[s] \in {"running"} \cup Terminal
  BY CourseStep DEF TypeOK, Course, Active
<1>3. \A p \in Step : child[p] # NoStep =>
        /\ child[p] \in Step /\ status[child[p]] # "absent"
        /\ status[child[p]] \notin Active => status'[child[p]] \notin Active
        /\ Kind[p] = "transform_chip" /\ Kind[child[p]] = "job"
  BY <1>1 DEF LinkInv, Linked, TypeOK, StoreTypeOK
<1>4. ASSUME NEW t \in Task, taskPc'[t] \in {"commit_alone", "commit_linked"},
             status'[taskStep[t]] = "running"
      PROVE  status[taskStep[t]] = "running" /\ taskStep'[t] = taskStep[t]
  <2>1. /\ taskPc[t] \notin {"idle", "release", "ready"} /\ taskStep'[t] = taskStep[t]
        /\ taskStep[t] \in Step /\ Kind[taskStep[t]] = "job"
    BY <1>4 DEF TaskMove, TypeOK, Busy, LinkInv, TaskKinds
  <2>2. SUFFICES ASSUME status[taskStep[t]] # "running"
                 PROVE  FALSE
    BY <2>1
  <2>3. PICK u \in Task : taskStep[u] = taskStep[t] /\ taskPc[u] = "ready"
    BY <1>4, <2>1, <2>2 DEF PairMove
  <2>4. QED
    BY <2>1, <2>3 DEF ClaimInv, SoleRunner, Holds
<1>5. ASSUME NEW p \in Step, child'[p] # NoStep
      PROVE  Paired(p)'
  <2> DEFINE j == child[p]
  <2>1. child'[p] = j /\ j # NoStep /\ child' = child
    BY <1>5 DEF PairMove
  <2>2. ASSUME Unattended(p), status[p] # "queued"
        PROVE  Unattended(p)'
    BY <2>2 DEF Unattended, TaskMove, Holds
  <2>3. CASE status[p] = "running" /\ Unattended(p)
    <3>1. CASE status'[p] = "running"
      BY <2>2, <2>3, <3>1 DEF Paired
    <3>2. CASE status'[p] # "running"
      <4>1. status'[p] \in Terminal /\ status'[j] \notin Active
        BY <1>2, <2>1, <2>3, <3>2 DEF PairMove
      <4>2. QED
        BY <2>1, <2>2, <2>3, <4>1 DEF Paired, Active
    <3>3. QED
      BY <3>1, <3>2
  <2>4. CASE /\ status[p] \in Terminal
             /\ Unattended(p)
             /\ status[j] \notin Active \/ requeues = 1
             /\ \A t \in Task :
                  taskPc[t] = "commit_alone" /\ taskStep[t] = j => status[j] # "running"
    <3>1. status'[p] = status[p] /\ Unattended(p)'
      BY <1>1, <2>2, <2>4 DEF Active, Terminal
    <3>2. status'[j] \notin Active \/ requeues' = 1
      BY <1>3, <2>1, <2>4
    <3>3. ASSUME NEW t \in Task, taskPc'[t] = "commit_alone", taskStep'[t] = j,
                 status'[j] = "running"
          PROVE  FALSE
      <4>1. taskStep[t] = j
        BY <3>3 DEF TaskMove
      <4>2. ParentsOf(j) # {}
        BY DEF ParentsOf
      <4>3. QED
        BY <1>4, <2>4, <3>3, <4>1, <4>2 DEF TaskMove
    <3>4. QED
      BY <2>1, <2>4, <3>1, <3>2, <3>3 DEF Paired
  <2>5. CASE requeues = 1 /\ status[j] \notin Active
    BY <1>3, <2>1, <2>5 DEF Paired, Active
  <2>6. QED
    BY <2>1, <2>3, <2>4, <2>5 DEF PairInv, Paired
<1>6. ASSUME NEW t \in Task, taskPc'[t] = "commit_linked", status'[taskStep'[t]] = "running"
      PROVE  child'[peer'[t]] = taskStep'[t]
  <2>1. taskStep'[t] = taskStep[t]
    BY <1>6 DEF TaskMove
  <2>2. status[taskStep[t]] = "running"
    BY <1>4, <1>6, <2>1
  <2>3. QED
    BY <1>6, <2>1, <2>2 DEF TaskMove, PairMove, PairInv
<1>7. ASSUME NEW p \in Step, Kind[p] = "transform_chip", status'[p] = "succeeded"
      PROVE  child'[p] # NoStep /\ status'[child'[p]] = "succeeded"
  <2>1. CASE status[p] = "succeeded"
    <3>1. child[p] # NoStep /\ status[child[p]] = "succeeded"
      BY <1>7, <2>1 DEF PairInv
    <3>2. QED
      BY <1>1, <1>3, <3>1 DEF PairMove, Active
  <2>2. CASE status[p] # "succeeded"
    BY <1>7, <2>2 DEF PairMove
  <2>3. QED
    BY <2>1, <2>2
<1>8. QED
  BY <1>5, <1>6, <1>7 DEF PairInv

\* The job of a chip run that is at work again, after a requeue, has ended.
LEMMA AtWork ==
  ASSUME TypeOK, PairInv, NEW t \in Task,
         taskPc[t] \notin {"idle", "release", "picked", "retire"},
         child[taskStep[t]] # NoStep
  PROVE  status[child[taskStep[t]]] \notin Active
<1>1. taskStep[t] \in Step /\ ~Unattended(taskStep[t])
  BY DEF TypeOK, Busy, Unattended, Holds
<1>2. QED
  BY <1>1 DEF PairInv, Paired

\* An UPDATE of step x alone, which is no transform chip or does not succeed and,
\* if it waits for a job, finds that job ended.
LEMMA OneEnds ==
  ASSUME TypeOK, LinkInv, NEW x \in Step, NEW to \in {"succeeded", "failed"},
         NEW S \in SUBSET {x}, status' = After(S, to), child' = child,
         to = "succeeded" => Kind[x] # "transform_chip",
         child[x] # NoStep => status[child[x]] \notin Active
  PROVE  PairMove
<1>1. \A s \in Step : status'[s] = IF s \in S THEN to ELSE status[s]
  BY AfterAt
<1>2. \A p \in Step : child[p] # NoStep =>
        child[p] \in Step /\ Kind[p] = "transform_chip" /\ Kind[child[p]] = "job"
  BY DEF LinkInv, Linked, TypeOK, StoreTypeOK
<1>3. ASSUME NEW p \in Step, child[p] # NoStep, status[p] = "running", status'[p] # "running"
      PROVE  status'[child[p]] \notin Active
  <2>1. p = x /\ child[p] # x
    BY <1>1, <1>2, <1>3
  <2>2. QED
    BY <1>1, <1>2, <1>3, <2>1
<1>4. QED
  BY <1>1, <1>2, <1>3 DEF PairMove

\* An UPDATE of the status that ends nothing.
LEMMA NoneEnds ==
  ASSUME TypeOK, child' = child,
         \A s \in Step :
           \/ status'[s] = status[s]
           \/ status[s] = "absent" /\ status'[s] = "queued"
           \/ /\ status'[s] = "running" /\ status[s] # "running"
              /\ \/ Kind[s] = "serve_chip"
                 \/ \E t \in Task : taskStep[t] = s /\ taskPc[t] = "ready"
  PROVE  PairMove
BY DEF PairMove

\* A task keeps the pairs until it links a job.
LEMMA TaskPairs ==
  ASSUME TypeOK, LinkInv, PairInv, NEW t \in Task, TaskNext(t), ~TransformAttach(t)
  PROVE  PairMove /\ TaskMove(t)
<1> DEFINE x == taskStep[t]
<1>1. ASSUME NEW pc \in Pcs, Goto(t, pc)
      PROVE  taskPc'[t] = pc /\ UNCHANGED <<taskStep, peer>>
  BY <1>1 DEF Goto, TypeOK
<1>2. ErrorPc(x) \in {"retire", "failing"}
  BY DEF ErrorPc
<1>3. ASSUME taskPc[t] \notin {"idle", "release", "picked", "retire"}
      PROVE  /\ x \in Step
             /\ child[x] # NoStep => status[child[x]] \notin Active
  BY <1>3, AtWork DEF TypeOK, Busy
<1>4. ASSUME UNCHANGED dbVars
      PROVE  PairMove
  BY <1>4, NoneEnds DEF dbVars
<1>5. ASSUME SetRunning(x), x \in Step, taskPc[t] = "ready"
      PROVE  PairMove
  BY <1>5, NoneEnds, AfterAt DEF SetRunning, SetStatus, OnlyStatus
<1>6. ASSUME SetSucceeded(x), taskPc[t] \notin {"idle", "release", "picked", "retire"},
             Kind[x] # "transform_chip"
      PROVE  PairMove
  BY <1>3, <1>6, OneEnds DEF SetSucceeded, SetStatus, OnlyStatus
<1> USE DEF Pcs
<1>7. CASE TaskStart(t)
  BY <1>1, <1>4, <1>7 DEF TaskStart, TaskMove
<1>8. CASE ChipStart(t)
  BY <1>1, <1>2, <1>3, <1>4, <1>5, <1>8 DEF ChipStart, TaskMove
<1>9. CASE PageStart(t) \/ LoadStart(t)
  BY <1>1, <1>3, <1>4, <1>5, <1>9 DEF PageStart, LoadStart, TaskMove
<1>10. CASE PlainDone(t)
  BY <1>1, <1>2, <1>4, <1>6, <1>10 DEF PlainDone, TaskMove
<1>11. CASE ExtractDone(t)
  <2>1. ASSUME SetExtractFailed(x)
        PROVE  PairMove
    BY <1>3, <1>11, <2>1, OneEnds DEF ExtractDone, SetExtractFailed, SetStatus, OnlyStatus
  <2>2. QED
    BY <1>1, <1>4, <1>6, <1>11, <2>1 DEF ExtractDone, TaskMove
<1>12. CASE LoadDone(t)
  <2>1. ASSUME NEW to \in {"succeeded", "failed"}, FinishStep(x, to)
        PROVE  PairMove
    BY <1>3, <1>12, <2>1, OneEnds DEF LoadDone, FinishStep, ByHand, OnlyStatus
  <2>2. QED
    BY <1>1, <1>4, <1>12, <2>1 DEF LoadDone, TaskMove
<1>13. CASE TransformInsert(t)
  <2>1. ASSUME NEW c \in Step, InsertStep(c)
        PROVE  PairMove
    BY <2>1, NoneEnds DEF InsertStep, TypeOK, StoreTypeOK
  <2>2. TaskMove(t)
    BY <1>1, <1>2, <1>13 DEF TransformInsert, TaskMove, TypeOK
  <2>3. QED
    BY <1>4, <1>13, <2>1, <2>2 DEF TransformInsert
<1>14. CASE JobLookup(t)
  <2>1. TaskMove(t)
    BY <1>1, <1>14 DEF JobLookup, TaskMove, ParentsOf, TypeOK
  <2>2. QED
    BY <1>4, <1>14, <2>1 DEF JobLookup
<1>15. CASE JobCommitAlone(t)
  <2>1. Kind[x] = "job"
    BY <1>15 DEF JobCommitAlone, LinkInv, TaskKinds
  <2>2. QED
    BY <1>1, <1>4, <1>6, <1>15, <2>1 DEF JobCommitAlone, TaskMove
<1>16. CASE JobCommitLinked(t)
  <2> DEFINE p == peer[t]
  <2>1. Kind[x] = "job" /\ x \in Step /\ p \in Step /\ taskPc[t] = "commit_linked"
    BY <1>3, <1>16 DEF JobCommitLinked, LinkInv, TaskKinds, TypeOK
  <2>2. ASSUME CompleteLinkedJob(x, p)
        PROVE  PairMove
    <3>1. child[p] = x /\ x # NoStep /\ child' = child
      BY <2>1, <2>2, StoreAssumption DEF CompleteLinkedJob, OnlyStatus, PairInv
    <3>2. \A s \in Step : status'[s] = IF s \in {x, p} THEN "succeeded" ELSE status[s]
      BY <2>2, AfterAt DEF CompleteLinkedJob, SetStatus
    <3>3. \A q \in Step : child[q] # NoStep => Kind[q] = "transform_chip"
      BY DEF LinkInv, Linked
    <3> HIDE DEF x, p
    <3>4. QED
      BY <2>1, <3>1, <3>2, <3>3 DEF PairMove, Active
  <2>3. TaskMove(t)
    BY <1>1, <1>16 DEF JobCommitLinked, TaskMove
  <2>4. QED
    BY <1>4, <1>16, <2>2, <2>3 DEF JobCommitLinked
<1>17. CASE CancelSeen(t) \/ CancelPollFails(t)
  BY <1>1, <1>4, <1>17 DEF CancelSeen, CancelPollFails, TaskMove
<1>18. CASE RecordChipFailure(t)
  <2>1. PairMove
    BY <1>3, <1>18, OneEnds DEF RecordChipFailure, SetChipFailed, SetStatus, OnlyStatus
  <2>2. QED
    BY <1>1, <1>18, <2>1 DEF RecordChipFailure, TaskMove
<1>19. CASE RecordJobFailure(t)
  <2>1. Kind[x] = "job" /\ x \in Step
    BY <1>3, <1>19 DEF RecordJobFailure, LinkInv, TaskKinds
  <2>2. /\ child' = child
        /\ \A s \in Step : status'[s] = IF s \in {x} \cup ParentsOf(x) /\ status[s] \in Active
                                       THEN "failed" ELSE status[s]
    BY <1>19, AfterAt DEF RecordJobFailure, FailJob, SetStatus, OnlyStatus
  <2>3. \A q \in Step : child[q] # NoStep => Kind[q] = "transform_chip" /\ child[q] \in Step
    BY DEF LinkInv, Linked, TypeOK, StoreTypeOK
  <2> HIDE DEF x
  <2>4. PairMove
    BY <2>1, <2>2, <2>3 DEF PairMove, ParentsOf, Active
  <2>5. QED
    BY <1>1, <1>19, <2>4 DEF RecordJobFailure, TaskMove, x
<1>20. CASE Retire(t) \/ Release(t)
  <2>1. TaskMove(t)
    BY <1>20 DEF Retire, Release, TaskMove, TypeOK
  <2>2. QED
    BY <1>4, <1>20, <2>1 DEF Retire, Release
<1>21. QED
  BY <1>7, <1>8, <1>9, <1>10, <1>11, <1>12, <1>13, <1>14, <1>15, <1>16, <1>17, <1>18, <1>19,
     <1>20 DEF TaskNext

\* A chip run that links a job has no other task, and the job that it may have had
\* before is not about to end with it.
LEMMA AttachPairs ==
  ASSUME TypeOK, LinkInv, LinkInv', ClaimInv, PairInv, NEW t \in Task, TransformAttach(t)
  PROVE  PairInv'
<1>1. PICK p \in Step, c \in Step :
        /\ p = taskStep[t] /\ c = peer[t] /\ taskPc[t] = "inserted" /\ c # NoStep
        /\ \A x \in Step : child[x] # c
  BY StoreAssumption DEF TransformAttach, LinkInv, TaskKinds, TypeOK, Busy
<1>2. \A u \in Task : Holds(u) /\ taskStep[u] = p => u = t
  BY <1>1 DEF ClaimInv, SoleRunner, Holds
<1>3. CASE LinkChild(p, c) /\ Goto(t, "retire")
  <2>1. /\ status' = status /\ status[p] = "running" /\ child'[p] = c
        /\ \A x \in Step : x # p => child'[x] = child[x]
    BY <1>1, <1>3 DEF LinkChild, TypeOK, StoreTypeOK
  <2>2. /\ taskPc'[t] = "retire" /\ UNCHANGED <<taskStep, peer, requeues>>
        /\ \A u \in Task : u # t => taskPc'[u] = taskPc[u]
    BY <1>3 DEF Goto, userVars, TypeOK
  <2>3. Paired(p)'
    BY <1>1, <1>2, <2>1, <2>2 DEF Paired, Unattended, Holds
  <2>4. ASSUME NEW x \in Step, x # p, child'[x] # NoStep
        PROVE  Paired(x)'
    BY <2>1, <2>2, <2>4 DEF PairInv, Paired, Unattended, Holds, Active
  <2>5. ASSUME NEW u \in Task, taskPc'[u] = "commit_linked",
               status'[taskStep'[u]] = "running"
        PROVE  child'[peer'[u]] = taskStep'[u]
    <3>1. taskPc[u] = "commit_linked" /\ child[peer[u]] = taskStep[u] /\ peer[u] \in Step
            /\ taskStep[u] \in Step
      BY <2>1, <2>2, <2>5 DEF PairInv, TypeOK, Busy
    <3>2. ASSUME peer[u] = p
          PROVE  FALSE
      <4>1. child[p] # NoStep /\ status[child[p]] = "running"
        BY <2>1, <2>2, <2>5, <3>1, <3>2, StoreAssumption
      <4>2. QED
        BY <1>1, <4>1, AtWork DEF Active
    <3>3. QED
      BY <2>1, <2>2, <3>1, <3>2
  <2>6. ASSUME NEW x \in Step, Kind[x] = "transform_chip", status'[x] = "succeeded"
        PROVE  child'[x] # NoStep /\ status'[child'[x]] = "succeeded"
    BY <2>1, <2>6 DEF PairInv
  <2>7. QED
    BY <2>3, <2>4, <2>5, <2>6 DEF PairInv
<1>4. CASE Goto(t, ErrorPc(p)) /\ UNCHANGED dbVars
  <2>1. taskPc'[t] \in {"retire", "failing"} /\ UNCHANGED <<taskStep, peer, requeues>>
        /\ \A u \in Task : u # t => taskPc'[u] = taskPc[u]
    BY <1>4 DEF Goto, ErrorPc, userVars, TypeOK
  <2>2. \A u \in Task : TaskMove(u)
    BY <1>1, <2>1 DEF TaskMove, PairInv
  <2>3. PairMove /\ CalmStep
    BY <1>4, NoneEnds DEF dbVars, CalmStep
  <2>4. QED
    BY <2>1, <2>2, <2>3, PairKept
<1>5. QED
  BY <1>1, <1>3, <1>4 DEF TransformAttach

\* A task that stays where it is makes a move of this kind.
LEMMA StillMove ==
  ASSUME TypeOK, LinkInv, PairInv, NEW t \in Task,
         taskPc'[t] = taskPc[t], taskStep'[t] = taskStep[t], peer'[t] = peer[t]
  PROVE  TaskMove(t)
BY DEF TaskMove

\* A requeued job finds that its chip run has ended; the job of a requeued chip run
\* has ended.
LEMMA RequeuePairs ==
  ASSUME TypeOK, LinkInv, PairInv, NEW s \in Step, Requeue(s), requeues = 0
  PROVE  PairInv'
<1>1. /\ status[s] = "failed" /\ status'[s] = "queued"
      /\ \A x \in Step : x # s => status'[x] = status[x]
  BY AfterAt DEF Requeue, RequeueJob, ByHand
<1>2. UNCHANGED <<child, taskPc, taskStep, peer>> /\ requeues' = 1
  BY DEF Requeue, RequeueJob, taskVars
<1>3. \A p \in Step : child[p] # NoStep => child[p] \in Step /\ child[p] # p
  BY DEF LinkInv, Linked, TypeOK, StoreTypeOK
<1>4. ASSUME NEW p \in Step, child[p] # NoStep
      PROVE  Paired(p)'
  <2>1. \/ status[p] = "running" /\ Unattended(p)
        \/ /\ status[p] \in Terminal /\ Unattended(p) /\ status[child[p]] \notin Active
           /\ \A t \in Task :
                taskPc[t] = "commit_alone" /\ taskStep[t] = child[p] =>
                  status[child[p]] # "running"
    BY <1>4 DEF PairInv, Paired
  <2>2. Unattended(p)' = Unattended(p)
    BY <1>2 DEF Unattended, Holds
  <2>3. CASE p = s
    BY <1>1, <1>2, <1>3, <1>4, <2>1, <2>3 DEF Paired
  <2>4. CASE p # s
    BY <1>1, <1>2, <1>3, <1>4, <2>1, <2>2, <2>4 DEF Paired
  <2>5. QED
    BY <2>3, <2>4
<1>5. ASSUME NEW t \in Task, taskPc[t] = "commit_linked", status'[taskStep[t]] = "running"
      PROVE  child[peer[t]] = taskStep[t]
  BY <1>1, <1>5 DEF PairInv, TypeOK, Busy
<1>6. ASSUME NEW p \in Step, Kind[p] = "transform_chip", status'[p] = "succeeded"
      PROVE  child[p] # NoStep /\ status'[child[p]] = "succeeded"
  BY <1>1, <1>3, <1>6 DEF PairInv
<1>7. QED
  BY <1>2, <1>4, <1>5, <1>6 DEF PairInv

\* A cancel ends a chip run with its job; no job has a job.
LEMMA CancelPairs ==
  ASSUME TypeOK, LinkInv, NEW s \in Step, CancelStep(s)
  PROVE  PairMove
<1>1. /\ child' = child
      /\ \A x \in Step : status'[x] = IF x \in {s, child[s]} /\ status[x] \in Active
                                      THEN "canceled" ELSE status[x]
  BY AfterAt DEF CancelStep, OnlyStatus
<1>2. \A p \in Step : child[p] # NoStep =>
        child[p] \in Step /\ Kind[p] = "transform_chip" /\ Kind[child[p]] = "job"
  BY DEF LinkInv, Linked, TypeOK, StoreTypeOK
<1>3. ASSUME NEW p \in Step, child[p] # NoStep, status[p] = "running", status'[p] # "running"
      PROVE  status'[child[p]] \notin Active
  <2>1. p = s
    BY <1>1, <1>2, <1>3, StoreAssumption
  <2>2. QED
    BY <1>1, <1>2, <1>3, <2>1 DEF Active
<1>4. QED
  BY <1>1, <1>3 DEF PairMove

\* So does a restart.
LEMMA RecoverPairs ==
  ASSUME TypeOK, LinkInv, Recover
  PROVE  PairMove
<1>1. child' = child /\ \A x \in Step :
        /\ status'[x] \in {status[x], "failed"}
        /\ status[x] = "running" => status'[x] = "failed"
        /\ (status[x] = "queued" /\ \E p \in Step : status[p] = "running" /\ child[p] = x) =>
             status'[x] = "failed"
  BY AfterAt DEF Recover
<1>2. \A p \in Step : child[p] # NoStep => child[p] \in Step
  BY DEF TypeOK, StoreTypeOK
<1>3. QED
  BY <1>1, <1>2 DEF PairMove, Active

\* What a task does concerns no other task.
LEMMA TaskSolo ==
  ASSUME TypeOK, NEW t \in Task, TaskNext(t)
  PROVE  /\ UNCHANGED userVars
         /\ \A u \in Task : u # t =>
              taskPc'[u] = taskPc[u] /\ taskStep'[u] = taskStep[u] /\ peer'[u] = peer[u]
<1>1. ASSUME NEW pc, Goto(t, pc)
      PROVE  /\ UNCHANGED <<userVars, taskStep, peer>>
             /\ \A u \in Task : u # t => taskPc'[u] = taskPc[u]
  BY <1>1 DEF Goto, TypeOK
<1>2. CASE TransformInsert(t) \/ JobLookup(t)
  BY <1>1, <1>2 DEF TransformInsert, JobLookup, TypeOK
<1>3. CASE Retire(t) \/ Release(t)
  BY <1>3 DEF Retire, Release, TypeOK
<1>4. QED
  BY <1>1, <1>2, <1>3 DEF TaskNext, TaskStart, ChipStart, PageStart, LoadStart, PlainDone,
     ExtractDone, LoadDone, TransformAttach, JobCommitAlone, JobCommitLinked, CancelSeen,
     CancelPollFails, RecordChipFailure, RecordJobFailure

\* Every step keeps chip runs paired with their jobs.
LEMMA PairStep ==
  ASSUME TypeOK, LinkInv, LinkInv', ClaimInv, requeues < 2 => PairInv, [Next]_vars,
         requeues' < 2
  PROVE  PairInv'
<1>1. ASSUME NEW s \in Step, Requeue(s)
      PROVE  PairInv'
  <2>1. requeues = 0
    BY <1>1 DEF Requeue, TypeOK
  <2>2. QED
    BY <1>1, <2>1, RequeuePairs
<1>2. ASSUME requeues' = requeues, UNCHANGED taskVars, CalmStep, PairMove
      PROVE  PairInv'
  BY <1>2, PairKept, StillMove DEF taskVars
<1>3. ASSUME requeues' = requeues, UNCHANGED <<taskVars, dbVars>>
      PROVE  PairInv'
  BY <1>2, <1>3, NoneEnds DEF CalmStep, dbVars
<1>4. CASE UNCHANGED vars
  BY <1>3, <1>4 DEF vars, userVars
<1>5. CASE PumpList \/ PumpRest
  BY <1>3, <1>5 DEF PumpList, PumpRest, userVars
<1>6. ASSUME NEW t \in Task, PumpPick(t)
      PROVE  PairInv'
  <2>1. /\ UNCHANGED <<dbVars, peer>> /\ taskPc'[t] = "picked" /\ requeues' = requeues
        /\ \A u \in Task : u # t => taskPc'[u] = taskPc[u] /\ taskStep'[u] = taskStep[u]
    BY <1>6 DEF PumpPick, userVars, TypeOK
  <2>2. PairInv
    BY <2>1
  <2>3. \A u \in Task : TaskMove(u)
    BY <2>1, <2>2, StillMove DEF TaskMove
  <2>4. PairMove /\ CalmStep
    BY <2>1, NoneEnds DEF CalmStep, dbVars
  <2>5. QED
    BY <2>1, <2>2, <2>3, <2>4, PairKept
<1>7. ASSUME NEW t \in Task, TaskNext(t)
      PROVE  PairInv'
  <2>1. requeues' = requeues
        /\ \A u \in Task : u # t =>
              taskPc'[u] = taskPc[u] /\ taskStep'[u] = taskStep[u] /\ peer'[u] = peer[u]
    BY <1>7, TaskSolo DEF userVars
  <2>2. PairInv
    BY <2>1
  <2>3. CASE TransformAttach(t)
    BY <2>2, <2>3, AttachPairs
  <2>4. CASE ~TransformAttach(t)
    <3>1. PairMove /\ TaskMove(t) /\ CalmStep
      BY <1>7, <2>2, <2>4, TaskPairs, TaskWrites
    <3>2. \A u \in Task : TaskMove(u)
      BY <2>1, <2>2, <3>1, StillMove
    <3>3. QED
      BY <2>1, <2>2, <3>1, <3>2, PairKept
  <2>5. QED
    BY <2>3, <2>4
<1>8. CASE UserNext
  <2>1. PICK s \in Step : \/ Submit(s) \/ ServeStart(s) \/ ServeFinish(s)
                          \/ CancelRequest(s) \/ CancelCommit(s)
                          \/ Requeue(s) \/ DeleteInput(s)
    BY <1>8 DEF UserNext
  <2>2. CASE Submit(s)
    <3>1. InsertStep(s) /\ UNCHANGED <<requeues, taskVars>>
      BY <2>2 DEF Submit
    <3>2. PairMove
      BY <3>1, NoneEnds DEF InsertStep, TypeOK, StoreTypeOK
    <3>3. QED
      BY <1>2, <3>1, <3>2 DEF CalmStep
  <2>3. CASE ServeStart(s)
    <3>1. UNCHANGED <<requeues, taskVars>> /\ Kind[s] = "serve_chip"
      BY <2>3 DEF ServeStart, LinkInv
    <3>2. CASE SetRunning(s)
      <4>1. PairMove
        BY <3>1, <3>2, NoneEnds, AfterAt DEF SetRunning, SetStatus, OnlyStatus
      <4>2. QED
        BY <1>2, <3>1, <3>2, <4>1 DEF CalmStep
    <3>3. CASE UNCHANGED dbVars
      BY <1>3, <3>1, <3>3
    <3>4. QED
      BY <2>3, <3>2, <3>3 DEF ServeStart
  <2>4. CASE ServeFinish(s)
    <3>1. UNCHANGED <<requeues, taskVars>> /\ Kind[s] = "serve_chip"
      BY <2>4 DEF ServeFinish, LinkInv
    <3>2. child[s] = NoStep
      BY <3>1 DEF LinkInv, Linked
    <3>3. CASE SetSucceeded(s)
      <4>1. PairMove
        BY <3>1, <3>2, <3>3, OneEnds DEF SetSucceeded, SetStatus, OnlyStatus
      <4>2. QED
        BY <1>2, <3>1, <3>3, <4>1 DEF CalmStep
    <3>4. CASE UNCHANGED dbVars
      BY <1>3, <3>1, <3>4
    <3>5. QED
      BY <2>4, <3>3, <3>4 DEF ServeFinish
  <2>5. CASE CancelRequest(s) \/ DeleteInput(s)
    BY <1>3, <2>5 DEF CancelRequest, DeleteInput
  <2>6. CASE CancelCommit(s)
    <3>1. CancelStep(s) /\ UNCHANGED <<requeues, taskVars>>
      BY <2>6 DEF CancelCommit
    <3>2. PairMove
      BY <3>1, CancelPairs
    <3>3. QED
      BY <1>2, <3>1, <3>2 DEF CalmStep
  <2>7. QED
    BY <1>1, <2>1, <2>2, <2>3, <2>4, <2>5, <2>6
<1>9. CASE Restart
  <2>1. (\A t \in Task : taskPc'[t] = "idle") /\ requeues' = requeues /\ Recover
    BY <1>9 DEF Restart
  <2>2. \A t \in Task : TaskMove(t)
    BY <2>1 DEF TaskMove
  <2>3. QED
    BY <2>1, <2>2, PairKept, RecoverPairs DEF CalmStep
<1>10. QED
  BY <1>4, <1>5, <1>6, <1>7, <1>8, <1>9 DEF Next

\* Up to the first requeue, or the second, the pairs are as described.
PairsHold == requeues < 2 => PairInv

\* Chip runs and their jobs are paired in every reachable state.
LEMMA PairsInvariant == Spec => []PairsHold
<1>1. Init => PairsHold
  BY DEF Init, StoreInit, PairsHold, PairInv
<1>2. ASSUME TypeOK, LinkInv, LinkInv', ClaimInv, PairsHold, [Next]_vars
      PROVE  PairsHold'
  BY <1>2, PairStep DEF PairsHold
<1>3. TypeOK /\ LinkInv /\ LinkInv' /\ ClaimInv /\ PairsHold /\ [Next]_vars => PairsHold'
  BY <1>2
<1>4. QED
  BY <1>1, <1>3, TypeCorrect, LinksInvariant, ClaimsInvariant, PTL DEF Spec

\* No chip run of a transform succeeds without its job, unless two requeues have
\* brought an old job and its chip run back together.
THEOREM ChipsSucceedWithJobs == Spec => []ChipSucceedsWithJob
<1>1. PairsHold => ChipSucceedsWithJob
  BY DEF PairsHold, PairInv, ChipSucceedsWithJob
<1>2. QED
  BY <1>1, PairsInvariant, PTL

\* A job succeeds only by the transaction of its task.
LEMMA JobSuccess ==
  ASSUME TypeOK, LinkInv, PairInv, [Next]_vars, NEW j \in Step, Kind[j] = "job",
         status[j] # "succeeded", status'[j] = "succeeded"
  PROVE  \E t \in Task :
           /\ taskStep[t] = j /\ status[j] = "running"
           /\ \/ taskPc[t] = "commit_alone"
              \/ taskPc[t] = "commit_linked" /\ status[peer[t]] = "running"
<1>1. status' # status
  OBVIOUS
<1>2. ASSUME NEW S, NEW to, to # "succeeded", status' = After(S, to)
      PROVE  FALSE
  BY <1>2, AfterAt
<1>3. ASSUME NEW c \in Step, InsertStep(c)
      PROVE  FALSE
  BY <1>3 DEF InsertStep, TypeOK, StoreTypeOK
<1>4. ASSUME NEW x \in Step, SetSucceeded(x)
      PROVE  x = j
  BY <1>4, AfterAt DEF SetSucceeded, SetStatus
<1>5. ASSUME UNCHANGED dbVars
      PROVE  FALSE
  BY <1>1, <1>5 DEF dbVars
<1>6. CASE UNCHANGED vars \/ PumpList \/ PumpRest \/ \E t \in Task : PumpPick(t)
  BY <1>5, <1>6 DEF vars, PumpList, PumpRest, PumpPick
<1>7. ASSUME NEW t \in Task, TaskNext(t)
      PROVE  /\ taskStep[t] = j /\ status[j] = "running"
             /\ \/ taskPc[t] = "commit_alone"
                \/ taskPc[t] = "commit_linked" /\ status[peer[t]] = "running"
  <2> DEFINE x == taskStep[t]
  <2>1. taskPc[t] # "idle" => x \in Step
    BY BusyStep
  <2>2. CASE JobCommitAlone(t)
    BY <1>4, <1>5, <2>1, <2>2 DEF JobCommitAlone, SetSucceeded
  <2>3. CASE JobCommitLinked(t)
    <3>1. CompleteLinkedJob(x, peer[t]) /\ taskPc[t] = "commit_linked"
      BY <1>5, <2>3 DEF JobCommitLinked
    <3>2. j = x \/ j = peer[t]
      BY <3>1, AfterAt DEF CompleteLinkedJob, SetStatus
    <3>3. child[peer[t]] = x /\ x \in Step /\ peer[t] \in Step
      BY <2>1, <3>1 DEF CompleteLinkedJob, PairInv, TypeOK
    <3>4. Kind[peer[t]] = "transform_chip"
      BY <3>3, StoreAssumption DEF LinkInv, Linked
    <3>5. QED
      BY <3>1, <3>2, <3>4 DEF CompleteLinkedJob
  <2>4. CASE PlainDone(t) \/ ExtractDone(t) \/ LoadDone(t)
    BY <1>2, <1>4, <1>5, <2>1, <2>4, AfterAt
       DEF PlainDone, ExtractDone, LoadDone, SetExtractFailed, FinishStep, ByHand, SetStatus
  <2>5. CASE TransformInsert(t)
    BY <1>3, <1>5, <2>5 DEF TransformInsert
  <2>6. CASE TransformAttach(t)
    BY <1>1, <1>5, <2>6 DEF TransformAttach, LinkChild
  <2>7. QED
    BY <1>2, <1>5, <1>7, <2>2, <2>3, <2>4, <2>5, <2>6
       DEF TaskNext, TaskStart, ChipStart, PageStart, LoadStart, SetRunning, SetStatus,
           JobLookup, CancelSeen, CancelPollFails, RecordChipFailure, SetChipFailed,
           RecordJobFailure, FailJob, Retire, Release
<1>8. CASE UserNext
  <2>1. PICK s \in Step : \/ Submit(s) \/ ServeStart(s) \/ ServeFinish(s)
                          \/ CancelRequest(s) \/ CancelCommit(s)
                          \/ Requeue(s) \/ DeleteInput(s)
    BY <1>8 DEF UserNext
  <2>3. CASE ServeStart(s) \/ ServeFinish(s)
    BY <1>2, <1>4, <1>5, <2>3
       DEF ServeStart, ServeFinish, SetRunning, SetStatus, LinkInv
  <2>4. QED
    BY <1>2, <1>3, <1>5, <2>1, <2>3
       DEF Submit, CancelRequest, CancelCommit, CancelStep, Requeue, RequeueJob, ByHand, DeleteInput
<1>9. CASE Restart
  BY <1>2, <1>9 DEF Restart, Recover
<1>10. QED
  BY <1>6, <1>7, <1>8, <1>9 DEF Next

\* A cancel, a failure or a restart that has ended a chip run of a transform keeps its
\* job from succeeding, before the second requeue.
THEOREM JobsEndWithChips == Spec => NoSuccessUnderEndedChip
<1> DEFINE NoLateSuccess ==
      requeues < 2 =>
        \A p, j \in Step :
          child[p] = j /\ status[p] \in Terminal /\ status[j] # "succeeded" =>
            status'[j] # "succeeded"
<1>1. ASSUME TypeOK, LinkInv, PairsHold, [Next]_vars
      PROVE  NoLateSuccess
  <2>1. SUFFICES ASSUME PairInv, NEW p \in Step, NEW j \in Step, child[p] = j,
                        status[p] \in Terminal, status[j] # "succeeded",
                        status'[j] = "succeeded"
                 PROVE  FALSE
    BY <1>1 DEF PairsHold
  <2>2. j # NoStep /\ Kind[j] = "job"
    BY <2>1, <1>1, StoreAssumption DEF LinkInv, Linked
  <2>3. PICK t \in Task :
          /\ taskStep[t] = j /\ status[j] = "running"
          /\ \/ taskPc[t] = "commit_alone"
             \/ taskPc[t] = "commit_linked" /\ status[peer[t]] = "running"
    BY <1>1, <2>1, <2>2, JobSuccess
  <2>4. CASE taskPc[t] = "commit_alone"
    BY <2>1, <2>2, <2>3, <2>4 DEF PairInv, Paired, Active, Terminal
  <2>5. CASE taskPc[t] = "commit_linked" /\ status[peer[t]] = "running"
    <3>1. peer[t] \in Step /\ child[peer[t]] = j
      BY <1>1, <2>1, <2>3, <2>5 DEF TypeOK, PairInv
    <3>2. peer[t] = p
      BY <1>1, <2>1, <2>2, <3>1 DEF LinkInv
    <3>3. QED
      BY <2>1, <2>5, <3>2 DEF Terminal
  <2>6. QED
    BY <2>3, <2>4, <2>5
<1>2. TypeOK /\ LinkInv /\ PairsHold /\ [Next]_vars => [NoLateSuccess]_vars
  BY <1>1
<1>3. QED
  BY <1>2, TypeCorrect, LinksInvariant, PairsInvariant, PTL DEF Spec, NoSuccessUnderEndedChip
=============================================================================
