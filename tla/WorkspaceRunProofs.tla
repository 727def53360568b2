-------------------------- MODULE WorkspaceRunProofs --------------------------
(***************************************************************************)
(* Theorems about full runs of a workspace, for every canvas, plan, number *)
(* of runs, tasks, cancel requests and restarts.  Nothing is requeued in   *)
(* them (MaxRequeues = 0): a requeue dispatches a step of a run that has   *)
(* closed once more, which is none of the run's doing.                     *)
(***************************************************************************)
EXTENDS WorkspaceRun, DispatchProofs

-----------------------------------------------------------------------------
(* The invariant of a full run                                             *)

\* The pcs of a coordinator that goes through the plan.
Loop == {"next", "serving", "bound", "waiting", "refused", "record"}

Places(r) == 1..Len(Plan[r])
Over(s)   == status[s] \in Terminal
Marked(s) == s \in dispatchAt

\* A step the dispatcher may take or has taken.
Live(s) == status[s] = "running" \/ (status[s] = "queued" /\ Marked(s))

\* What the on_success and data connections of s ask for.
PredsDone(s) ==
  \A e \in Edges : e.to = s /\ e.kind \in {"on_success", "data"} =>
    status[e.from] = "succeeded"

\* A step a run may succeed with.
Excused(s) ==
  \/ status[s] = "succeeded"
  \/ /\ status[s] = "canceled"
     /\ \E e \in Edges :
          e.to = s /\ (e.kind = "on_error" \/ status[e.from] \in {"canceled", "absent"})

\* How far the run is, and which of its steps are there.
Extent(r) ==
  /\ coPos[r] \in 1..(Len(Plan[r]) + 1)
  /\ execStatus[r] \in {"absent", "running"} \cup Terminal
  /\ coPc[r] # "none" => execStatus[r] \in {"running", "canceled"}
  /\ execStatus[r] = "absent" => coPc[r] = "none" /\ result[r] = "ok"
  /\ execStatus[r] = "absent" \/ coPc[r] = "prepare" =>
       coPos[r] = 1 /\ \A s \in StepsOf(r) : status[s] = "absent"
  /\ coPc[r] = "snapshot" =>
       \A i \in Places(r) : status[Plan[r][i]] = "absent" <=> i >= coPos[r]
  /\ coPc[r] \in Loop \cup {"preflight"} =>
       \A i \in Places(r) : status[Plan[r][i]] # "absent"
  /\ coPc[r] \in Loop \ {"next"} => coPos[r] \in Places(r)
  /\ coPc[r] = "preflight" => coPos[r] = 1
  /\ todo[r] \subseteq StepsOf(r) /\ canTodo[r] \subseteq StepsOf(r)

\* Every step of the run that is there has its place in the plan.
Placed(r) ==
  \A s \in StepsOf(r) :
    /\ status[s] # "absent" => \E i \in Places(r) : Plan[r][i] = s
    /\ Marked(s) => status[s] # "absent" /\ PredsDone(s)

\* One step after the other.
InOrder(r) ==
  /\ coPc[r] \in Loop => \A i \in Places(r) : i < coPos[r] => Over(Plan[r][i])
  /\ \A i \in Places(r) : Live(Plan[r][i]) =>
       /\ \A j \in Places(r) : j < i => Over(Plan[r][j])
       /\ \/ coPc[r] \in {"waiting", "serving"} /\ i = coPos[r]
          \/ coPc[r] = "none" /\ execStatus[r] = "canceled"
  /\ coPc[r] = "waiting" => Marked(Current(r))
  /\ coPc[r] = "serving" => Kind[Current(r)] = "serve_chip" /\ status[Current(r)] # "queued"
  /\ coPc[r] = "bound" => PredsDone(Current(r))

\* What the coordinator remembers is true of the steps, and no refused step is left.
Memory(r) ==
  /\ \A s \in StepsOf(r) :
       outcome[s] = "succeeded" \/ s \in outputs => status[s] = "succeeded"
  /\ coPc[r] = "preflight" =>
       \A s \in refused \cap StepsOf(r) : s \in todo[r] \/ status[s] \notin Active
  /\ coPc[r] \in Loop => \A s \in refused \cap StepsOf(r) : status[s] \notin Active

\* As long as the result is ok, every step behind the coordinator is excused.
Sound(r) ==
  /\ result[r] = "ok" =>
       /\ coPc[r] \in Loop \cup {"preflight"} => refused \cap StepsOf(r) = {}
       /\ coPc[r] \in Loop => \A i \in Places(r) : i < coPos[r] =>
            LET s == Plan[r][i] IN
            /\ Excused(s)
            /\ status[s] = "succeeded" =>
                 outcome[s] = "succeeded" /\ (s \in Producer => s \in outputs)
  /\ (\/ coPc[r] = "verdict" /\ result[r] = "ok"
      \/ coPc[r] = "close" /\ result[r] = "succeeded"
      \/ execStatus[r] = "succeeded")
     => \A i \in Places(r) : Excused(Plan[r][i])

\* The way to the verdict.
Ending(r) ==
  /\ coPc[r] \notin {"none", "skip", "close"} => result[r] \in {"ok", "error", "canceled"}
  /\ coPc[r] = "skip" => result[r] \in {"failed", "canceled"} /\ QueuedOf(r) \subseteq todo[r]
  /\ coPc[r] = "close" => result[r] \in Terminal /\ QueuedOf(r) = {}
  /\ execStatus[r] \in {"succeeded", "failed"} => \A s \in StepsOf(r) : status[s] \notin Active

RunInv(r) == Extent(r) /\ Placed(r) /\ InOrder(r) /\ Memory(r) /\ Sound(r) /\ Ending(r)
RunsInv   == \A r \in Run : RunInv(r)

\* Every place of a plan holds a step of the run, and no step has two places.
LEMMA PlanPlaces ==
  ASSUME NEW r \in Run
  PROVE  /\ Len(Plan[r]) \in Nat
         /\ \A i \in Places(r) : Plan[r][i] \in StepsOf(r) /\ Plan[r][i] \in Step
         /\ \A i, j \in Places(r) : Plan[r][i] = Plan[r][j] => i = j
BY RunAssumption DEF Places, StepsOf

\* A connection is between two steps of one run.
LEMMA EdgeEnds ==
  \A r \in Run : \A e \in Edges : e.to \in StepsOf(r) => e.from \in StepsOf(r)
BY RunAssumption, CanvasAssumption DEF StepsOf

\* What has succeeded, been canceled or left out tells for good.
LEMMA TruthKept ==
  ASSUME NEW r \in Run,
         \A s \in StepsOf(r) : status[s] \in {"succeeded", "canceled"} => status'[s] = status[s]
  PROVE  /\ \A s \in StepsOf(r) : PredsDone(s) => PredsDone(s)'
         /\ (\A s \in StepsOf(r) : status[s] = "absent" => status'[s] = "absent") =>
              \A s \in StepsOf(r) : Excused(s) => Excused(s)'
<1>1. \A s \in StepsOf(r) : PredsDone(s) => PredsDone(s)'
  BY EdgeEnds DEF PredsDone
<1>2. ASSUME \A s \in StepsOf(r) : status[s] = "absent" => status'[s] = "absent",
             NEW s \in StepsOf(r), status[s] = "canceled", NEW e \in Edges, e.to = s,
             e.kind = "on_error" \/ status[e.from] \in {"canceled", "absent"}
      PROVE  Excused(s)'
  <2>1. e.kind = "on_error" \/ status'[e.from] \in {"canceled", "absent"}
    BY <1>2, EdgeEnds
  <2>2. QED
    BY <1>2, <2>1 DEF Excused
<1>3. QED
  BY <1>1, <1>2 DEF Excused

\* What happens to the steps of a run while its coordinator does nothing: they
\* end, or the dispatcher takes a marked one, or a cancel request closes the run.
Drift(r) ==
  /\ coPc'[r] = coPc[r] /\ coPos'[r] = coPos[r] /\ result'[r] = result[r]
  /\ todo'[r] = todo[r] /\ canTodo'[r] \subseteq StepsOf(r)
  /\ execStatus'[r] # execStatus[r] =>
       execStatus[r] = "running" /\ execStatus'[r] = "canceled"
  /\ \A s \in StepsOf(r) :
       /\ outcome'[s] = outcome[s]
       /\ s \in outputs' <=> s \in outputs
       /\ s \in refused' <=> s \in refused
       /\ Marked(s)' <=> Marked(s)
       /\ \/ status'[s] = status[s]
          \/ status[s] \in Active /\ status'[s] \in Terminal
          \/ status[s] = "queued" /\ Marked(s) /\ status'[s] = "running"

\* What others do to a run keeps its invariant.
LEMMA DriftKeeps ==
  ASSUME NEW r \in Run, RunInv(r), Drift(r)
  PROVE  RunInv(r)'
<1> USE PlanPlaces
<1>1. StepsOf(r)' = StepsOf(r) /\ Places(r)' = Places(r) /\ Current(r)' = Current(r)
  BY DEF StepsOf, Places, Current, Drift
<1>2. \A s \in StepsOf(r) :
        /\ status'[s] = "absent" <=> status[s] = "absent"
        /\ status'[s] \in Active => status[s] \in Active
        /\ status'[s] = "queued" => status[s] = "queued"
        /\ Over(s) => status'[s] = status[s] /\ Over(s)'
        /\ Live(s)' => Live(s)
  BY DEF Drift, Active, Terminal, Over, Live
<1>3. \A s \in StepsOf(r) : PredsDone(s) => PredsDone(s)'
  BY <1>2, TruthKept DEF Over, Terminal
<1>4. \A s \in StepsOf(r) : Excused(s) => Excused(s)'
  BY <1>2, TruthKept DEF Over, Terminal
<1>5. Extent(r)'
  BY <1>1, <1>2 DEF RunInv, Extent, Drift, Terminal
<1>6. Placed(r)'
  BY <1>1, <1>2, <1>3 DEF RunInv, Placed, Drift
<1>7. InOrder(r)'
  <2>1. coPc[r] \in {"waiting", "serving", "bound"} => Current(r) \in StepsOf(r)
    BY DEF RunInv, Extent, Loop, Current
  <2>2. QED
    BY <1>1, <1>2, <1>3, <2>1 DEF RunInv, InOrder, Drift
<1>8. Memory(r)'
  BY <1>1, <1>2 DEF RunInv, Memory, Drift, Over, Terminal
<1>9. Sound(r)'
  BY <1>1, <1>2, <1>4 DEF RunInv, Sound, InOrder, Drift
<1>10. Ending(r)'
  BY <1>1, <1>2 DEF RunInv, Ending, Drift, QueuedOf
<1>11. QED
  BY <1>5, <1>6, <1>7, <1>8, <1>9, <1>10 DEF RunInv

\* The coordinator is through with the current step s.
Turned(r, s, value) ==
  /\ s = Current(r)
  /\ coPc[r] \in Loop /\ coPos[r] \in Places(r)
  /\ coPc'[r] = "next" /\ coPos'[r] = coPos[r] + 1
  /\ todo'[r] = todo[r] /\ canTodo'[r] = canTodo[r] /\ execStatus'[r] = execStatus[r]
  /\ \A x \in StepsOf(r) :
       /\ x \in refused' <=> x \in refused
       /\ Marked(x)' <=> Marked(x)
       /\ x # s => /\ status'[x] = status[x] /\ outcome'[x] = outcome[x]
                   /\ x \in outputs' <=> x \in outputs
  /\ status'[s] \in Terminal
  /\ status[s] \in Terminal => status'[s] = status[s]
  /\ outcome'[s] = value
  /\ value = "succeeded" \/ s \in outputs' => status'[s] = "succeeded"
  /\ result'[r] \in {result[r], "error"}
  /\ result'[r] = "ok" =>
       /\ Excused(s)'
       /\ status'[s] = "succeeded" =>
            value = "succeeded" /\ (s \in Producer => s \in outputs')

\* A turn of the coordinator at one step of the run keeps the invariant.
LEMMA TurnKeeps ==
  ASSUME NEW r \in Run, NEW s \in Step, NEW value, RunInv(r), Turned(r, s, value)
  PROVE  RunInv(r)'
<1> DEFINE k == coPos[r]
<1>1. s = Plan[r][k] /\ s \in StepsOf(r)
  BY PlanPlaces DEF Turned, Current
<1>2. /\ StepsOf(r)' = StepsOf(r) /\ Places(r)' = Places(r)
      /\ Len(Plan[r]) \in Nat /\ k \in Nat /\ k <= Len(Plan[r]) /\ k >= 1
      /\ \A i \in Places(r) : i \in Nat /\ Plan[r][i] \in StepsOf(r)
                              /\ (Plan[r][i] = s => i = k)
  BY <1>1, PlanPlaces DEF StepsOf, Places, Turned
<1>3. /\ \A x \in StepsOf(r) : x # s => status'[x] = status[x]
      /\ status'[s] \in Terminal
      /\ status[s] \in Terminal => status'[s] = status[s]
      /\ status[s] # "absent"
  BY <1>1 DEF Turned, RunInv, Extent
<1>4. /\ coPc[r] \in Loop /\ coPc'[r] = "next" /\ coPos'[r] = k + 1
      /\ todo'[r] = todo[r] /\ canTodo'[r] = canTodo[r] /\ execStatus'[r] = execStatus[r]
      /\ \A x \in StepsOf(r) : (x \in refused' <=> x \in refused) /\ (Marked(x)' <=> Marked(x))
      /\ result'[r] \in {result[r], "error"}
  BY DEF Turned
<1>5. /\ \A x \in StepsOf(r) : PredsDone(x) => PredsDone(x)'
      /\ \A x \in StepsOf(r) : Excused(x) => Excused(x)'
  BY <1>3, TruthKept DEF Terminal
<1> HIDE DEF k
<1>6. Extent(r)'
  BY <1>2, <1>3, <1>4 DEF RunInv, Extent, Loop, Terminal, k
<1>7. Placed(r)'
  BY <1>2, <1>3, <1>4, <1>5 DEF RunInv, Placed, Terminal
<1>8. InOrder(r)'
  <2>1. \A i \in Places(r) : ~Live(Plan[r][i])'
    BY <1>1, <1>2, <1>3, <1>4 DEF RunInv, InOrder, Live, Terminal, Loop, k
  <2>2. \A i \in Places(r) : i < k + 1 => Over(Plan[r][i])'
    BY <1>1, <1>2, <1>3, <1>4 DEF RunInv, InOrder, Over, k
  <2>3. QED
    BY <1>2, <1>4, <2>1, <2>2 DEF InOrder
<1>9. Memory(r)'
  <2>1. \A x \in StepsOf(r) :
          outcome'[x] = "succeeded" \/ x \in outputs' => status'[x] = "succeeded"
    BY <1>3 DEF RunInv, Memory, Turned
  <2>2. \A x \in refused' \cap StepsOf(r) : status'[x] \notin Active
    BY <1>3, <1>4 DEF RunInv, Memory, Terminal, Active
  <2>3. QED
    BY <1>2, <1>4, <2>1, <2>2 DEF Memory
<1>10. Sound(r)'
  <2>1. ASSUME result'[r] = "ok"
        PROVE  /\ refused \cap StepsOf(r) = {}
               /\ Excused(s)'
               /\ status'[s] = "succeeded" =>
                    outcome'[s] = "succeeded" /\ (s \in Producer => s \in outputs')
               /\ \A i \in Places(r) : i < k =>
                    /\ Excused(Plan[r][i])
                    /\ status[Plan[r][i]] = "succeeded" =>
                         /\ outcome[Plan[r][i]] = "succeeded"
                         /\ Plan[r][i] \in Producer => Plan[r][i] \in outputs
    BY <1>1, <1>4, <2>1 DEF RunInv, Sound, Turned, k
  <2>2. ASSUME result'[r] = "ok", NEW i \in Places(r), i < k + 1
        PROVE  /\ Excused(Plan[r][i])'
               /\ status'[Plan[r][i]] = "succeeded" =>
                    /\ outcome'[Plan[r][i]] = "succeeded"
                    /\ Plan[r][i] \in Producer => Plan[r][i] \in outputs'
    <3>1. CASE i = k
      BY <1>1, <2>1, <2>2, <3>1 DEF k
    <3>2. CASE i < k
      BY <1>1, <1>2, <1>3, <1>5, <2>1, <2>2, <3>2 DEF Turned
    <3>3. QED
      BY <1>2, <2>2, <3>1, <3>2
  <2>3. execStatus[r] # "succeeded"
    BY <1>4 DEF RunInv, Extent, Loop
  <2>4. QED
    BY <1>2, <1>4, <2>1, <2>2, <2>3 DEF Sound
<1>11. Ending(r)'
  <2>1. execStatus[r] \notin {"succeeded", "failed"}
    BY <1>4 DEF RunInv, Extent, Loop
  <2>2. QED
    BY <1>4, <2>1 DEF RunInv, Ending, Loop
<1>12. QED
  BY <1>6, <1>7, <1>8, <1>9, <1>10, <1>11 DEF RunInv

\* The coordinator moves on without a word to the database.
Moved(r) ==
  /\ coPc'[r] # coPc[r] /\ coPc[r] # "none"
  /\ coPos'[r] = coPos[r] /\ todo'[r] = todo[r] /\ canTodo'[r] = canTodo[r]
  /\ UNCHANGED <<dbVars, outcome, outputs, refused>>
  /\ \A i \in Places(r) : ~Live(Plan[r][i])

\* Within the plan, or from its end to the verdict ...
LEMMA MoveKeeps ==
  ASSUME NEW r \in Run, RunInv(r), Moved(r), coPc[r] \in Loop, result'[r] = result[r],
         \/ /\ coPc'[r] \in {"bound", "refused", "record"} /\ coPos[r] \in Places(r)
            /\ coPc'[r] = "bound" => PredsDone(Current(r))
         \/ coPc'[r] = "verdict" /\ coPos[r] = Len(Plan[r]) + 1
  PROVE  RunInv(r)'
<1>1. /\ StepsOf(r)' = StepsOf(r) /\ Places(r)' = Places(r) /\ Current(r)' = Current(r)
      /\ status' = status /\ dispatchAt' = dispatchAt /\ execStatus' = execStatus
      /\ \A i \in Places(r) : Len(Plan[r]) \in Nat /\ i < Len(Plan[r]) + 1
  BY PlanPlaces DEF StepsOf, Places, Current, Moved, dbVars
<1>2. Extent(r)'
  BY <1>1 DEF RunInv, Extent, Moved, Loop
<1>3. Placed(r)'
  BY <1>1 DEF RunInv, Placed, Marked, PredsDone
<1>4. InOrder(r)'
  BY <1>1 DEF RunInv, InOrder, Moved, Marked, PredsDone, Live, Over, Loop
<1>5. Memory(r)'
  BY <1>1 DEF RunInv, Memory, Moved, Loop
<1>6. Sound(r)'
  BY <1>1 DEF RunInv, Sound, Moved, Excused, Loop
<1>7. Ending(r)'
  BY <1>1 DEF RunInv, Ending, Moved, Loop
<1>8. QED
  BY <1>2, <1>3, <1>4, <1>5, <1>6, <1>7 DEF RunInv

\* ... or to the verdict with an error.
LEMMA AbortKeeps ==
  ASSUME NEW r \in Run, RunInv(r), Moved(r), coPc'[r] = "verdict",
         result'[r] \in {"error", "canceled"}
  PROVE  RunInv(r)'
<1>1. /\ StepsOf(r)' = StepsOf(r) /\ Places(r)' = Places(r)
      /\ status' = status /\ dispatchAt' = dispatchAt /\ execStatus' = execStatus
  BY DEF StepsOf, Places, Moved, dbVars
<1>2. Extent(r)'
  BY <1>1 DEF RunInv, Extent, Moved, Loop
<1>3. Placed(r)'
  BY <1>1 DEF RunInv, Placed, Marked, PredsDone
<1>4. InOrder(r)'
  BY <1>1 DEF InOrder, Moved, Live, Marked, Loop
<1>5. Memory(r)'
  BY <1>1 DEF RunInv, Memory, Moved, Loop
<1>6. Sound(r)'
  <2>1. execStatus[r] # "succeeded"
    BY DEF RunInv, Extent, Moved
  <2>2. QED
    BY <1>1, <2>1 DEF Sound, Moved, Loop
<1>7. Ending(r)'
  BY <1>1 DEF RunInv, Ending, Moved
<1>8. QED
  BY <1>2, <1>3, <1>4, <1>5, <1>6, <1>7 DEF RunInv
-----------------------------------------------------------------------------
(* What the actions of a run touch                                         *)

\* There is an earliest step in every list.
LEMMA EarliestIn ==
  ASSUME StoreTypeOK, NEW S \in SUBSET Step, S # {}
  PROVE  Earliest(S) \in S /\ \A x \in S : queuedAt[Earliest(S)] <= queuedAt[x]
<1> DEFINE T == {queuedAt[s] : s \in S}
<1>1. T \subseteq Nat /\ T # {}
  BY DEF StoreTypeOK
<1>2. \E m \in T : \A y \in T : <<y, m>> \notin OpToRel(<, Nat)
  <2> HIDE DEF T
  <2>1. QED
    BY <1>1, WFMin, NatLessThanWellFounded, Zenon
<1>3. \E m \in T : \A y \in T : ~(y < m)
  <2> HIDE DEF T
  <2>1. QED
    BY <1>1, <1>2, Zenon DEF OpToRel
<1>4. \E m \in T : \A y \in T : m <= y
  <2> HIDE DEF T
  <2>1. QED
    BY <1>1, <1>3
<1>5. \E s \in S : \A x \in S : queuedAt[s] <= queuedAt[x]
  BY <1>4
<1>6. QED
  BY <1>5 DEF Earliest

\* An UPDATE of the status leaves the executions of full runs alone.
LEMMA WriteAt ==
  ASSUME NEW S, NEW to, SetStatus(S, to), OnlyStatus
  PROVE  /\ \A x \in Step : status'[x] = IF x \in S THEN to ELSE status[x]
         /\ \A q \in Run : execStatus'[q] = execStatus[q]
         /\ UNCHANGED <<child, interrupted, dispatchAt, queuedAt, clock>>
BY AfterAt DEF SetStatus, OnlyStatus, Fired, Exec

\* An INSERT leaves the other steps and the executions of full runs alone.
LEMMA InsertAt ==
  ASSUME StoreTypeOK, NEW s \in Step, ~Standalone(s), InsertStep(s)
  PROVE  /\ status[s] = "absent" /\ status'[s] = "queued"
         /\ \A x \in Step : x # s => status'[x] = status[x]
         /\ execStatus' = execStatus /\ execStatus[RunOf[s]] = "running"
         /\ UNCHANGED <<child, interrupted, dispatchAt>>
BY DEF InsertStep, StoreTypeOK

\* A cancel request writes its step and nothing else of a full run.
LEMMA CancelAt ==
  ASSUME TypeOK, LinkInv, NEW s \in Step, ~Standalone(s), CancelStep(s)
  PROVE  /\ \A x \in Step : ~Standalone(x) =>
              status'[x] = IF x = s /\ status[s] \in Active THEN "canceled" ELSE status[x]
         /\ \A q \in Run : execStatus'[q] = execStatus[q]
         /\ UNCHANGED <<child, interrupted, dispatchAt, queuedAt, clock>>
<1>1. child[s] # NoStep => Standalone(child[s])
  BY DEF LinkInv, Linked
<1>2. \A q \in Run : execStatus'[q] = execStatus[q]
  BY DEF CancelStep, Fired, Exec
<1>3. \A x \in Step : status'[x] =
        IF x \in {s, child[s]} /\ status[x] \in Active THEN "canceled" ELSE status[x]
  BY AfterAt DEF CancelStep
<1>4. QED
  BY <1>1, <1>2, <1>3, StoreAssumption DEF CancelStep, OnlyStatus

\* The step whose turn it is.
LEMMA CurrentStep ==
  ASSUME NEW r \in Run, RunInv(r), NEW pc, AtStep(r, pc)
  PROVE  /\ coPos[r] \in Places(r)
         /\ Current(r) \in StepsOf(r) /\ Current(r) \in Step
         /\ RunOf[Current(r)] = r /\ ~Standalone(Current(r))
<1>1. coPos[r] \in Places(r)
  BY PlanPlaces DEF AtStep, RunInv, Extent, Places
<1>2. QED
  BY <1>1, PlanPlaces, StoreAssumption DEF Current, StepsOf, Standalone

\* The step at whose place in the plan the coordinator is.
OnTurn(r, s) == coPc[r] \in Loop /\ coPos[r] \in Places(r) /\ s = Current(r)

\* The step a coordinator or a cancel request skips next.
NextSkip(r, s) ==
  \/ coPc[r] = "skip" /\ todo[r] # {} /\ s = Earliest(todo[r])
  \/ canPc[r] = "skip" /\ canTodo[r] # {} /\ s = Earliest(canTodo[r])

\* The transactions of coordinators and cancel requests.
RunWrites(r) ==
  \/ UNCHANGED dbVars
  \/ \E s \in StepsOf(r) :
       \/ AtStep(r, "snapshot") /\ s = Current(r) /\ InsertStep(s)
       \/ OnTurn(r, s) /\ Kind[s] = "serve_chip" /\ (SetRunning(s) \/ SetSucceeded(s))
       \/ /\ OnTurn(r, s) \/ (coPc[r] = "preflight" /\ s \in todo[r])
          /\ status[s] # "running"
          /\ SetChipFailed(s)
       \/ (OnTurn(r, s) \/ NextSkip(r, s)) /\ SkipStep(s)
       \/ canPc[r] = "stop" /\ s \in canTodo[r] /\ CancelStep(s)
       \/ MarkDispatchable(s)
  \/ OpenRun(r) \/ \E to \in Terminal : CloseRun(r, to)

\* Coordinators and cancel requests of run r leave what is not of their run alone.
CoHere(r) ==
  /\ UNCHANGED rest
  /\ \A q \in Run : q # r =>
       /\ coPc'[q] = coPc[q] /\ coPos'[q] = coPos[q] /\ result'[q] = result[q]
       /\ todo'[q] = todo[q] /\ canTodo'[q] = canTodo[q] /\ canPc'[q] = canPc[q]
  /\ \A x \in Step : x \notin StepsOf(r) =>
       /\ outcome'[x] = outcome[x]
       /\ x \in outputs' <=> x \in outputs
       /\ x \in refused' <=> x \in refused

Elsewhere(r) ==
  /\ CoHere(r) /\ child' = child
  /\ \A q \in Run : q # r => execStatus'[q] = execStatus[q]
  /\ \A x \in Step : ~Standalone(x) /\ x \notin StepsOf(r) =>
       status'[x] = status[x] /\ (Marked(x)' <=> Marked(x))

\* To another run, it is a drift.
LEMMA ElsewhereDrifts ==
  ASSUME NEW r \in Run, NEW q \in Run, q # r, RunInv(q), Elsewhere(r)
  PROVE  Drift(q)
<1>1. \A x \in StepsOf(q) : x \in Step /\ ~Standalone(x) /\ x \notin StepsOf(r)
  BY StoreAssumption DEF StepsOf, Standalone
<1>2. canTodo'[q] \subseteq StepsOf(q)
  BY DEF Elsewhere, CoHere, RunInv, Extent
<1>3. QED
  BY <1>1, <1>2 DEF Elsewhere, CoHere, Drift

\* A transaction of a run is one of the store, and touches no step of another run.
LEMMA WritesElsewhere ==
  ASSUME TypeOK, LinkInv, NEW r \in Run, RunWrites(r), CoHere(r)
  PROVE  Elsewhere(r) /\ CalmStep
<1>1. \A s \in StepsOf(r) : s \in Step /\ ~Standalone(s)
  BY StoreAssumption DEF StepsOf, Standalone
<1>2. CalmStep
  BY <1>1 DEF RunWrites, CalmStep
<1>3. CASE UNCHANGED dbVars
  BY <1>2, <1>3 DEF dbVars, Elsewhere, Marked
<1>4. ASSUME NEW s \in StepsOf(r), NEW S \in SUBSET {s}, NEW to, SetStatus(S, to), OnlyStatus
      PROVE  Elsewhere(r)
  BY <1>1, <1>4, WriteAt DEF Elsewhere, Marked
<1>5. ASSUME NEW s \in StepsOf(r), InsertStep(s)
      PROVE  Elsewhere(r)
  BY <1>1, <1>5, InsertAt DEF TypeOK, Elsewhere, Marked
<1>6. ASSUME NEW s \in StepsOf(r), SetRunning(s) \/ SetSucceeded(s)
      PROVE  Elsewhere(r)
  BY <1>4, <1>6 DEF SetRunning, SetSucceeded
<1>7. ASSUME NEW s \in StepsOf(r), SetChipFailed(s)
      PROVE  Elsewhere(r)
  BY <1>4, <1>7 DEF SetChipFailed
<1>8. ASSUME NEW s \in StepsOf(r), SkipStep(s)
      PROVE  Elsewhere(r)
  BY <1>4, <1>8 DEF SkipStep
<1>9. ASSUME NEW s \in StepsOf(r), CancelStep(s)
      PROVE  Elsewhere(r)
  BY <1>1, <1>9, CancelAt DEF Elsewhere, Marked
<1>10. ASSUME NEW s \in StepsOf(r), MarkDispatchable(s)
       PROVE  Elsewhere(r)
  BY <1>1, <1>10 DEF MarkDispatchable, Elsewhere, Marked
<1>11. ASSUME NEW to, OpenRun(r) \/ CloseRun(r, to)
       PROVE  Elsewhere(r)
  <2>1. \A q \in Run : q # r => execStatus'[q] = execStatus[q]
    BY <1>11 DEF OpenRun, CloseRun, TypeOK, StoreTypeOK, Exec
  <2>2. status' = status /\ child' = child /\ dispatchAt' = dispatchAt
    BY <1>11 DEF OpenRun, CloseRun
  <2>3. QED
    BY <2>1, <2>2 DEF Elsewhere, Marked
<1>12. QED
  BY <1>2, <1>3, <1>5, <1>6, <1>7, <1>8, <1>9, <1>10, <1>11 DEF RunWrites

\* It parts no chip run from its job.
LEMMA WritesPairs ==
  ASSUME TypeOK, LinkInv, PairInv, requeues = 0, NEW r \in Run, RunWrites(r), CoHere(r)
  PROVE  PairMove
<1>1. \A s \in StepsOf(r) : s \in Step /\ ~Standalone(s)
  BY StoreAssumption DEF StepsOf, Standalone
<1>2. child' = child
  BY WritesElsewhere DEF Elsewhere
<1>3. \A s \in Step : child[s] # NoStep =>
        /\ Kind[s] = "transform_chip"
        /\ status[s] # "running" => status[child[s]] \notin Active
  BY DEF LinkInv, Linked, PairInv, Paired
<1>4. CASE status' = status
  BY <1>2, <1>4, NoneEnds
<1>5. ASSUME NEW s \in StepsOf(r), InsertStep(s)
      PROVE  PairMove
  BY <1>1, <1>2, <1>5, InsertAt, NoneEnds DEF TypeOK
<1>6. ASSUME NEW s \in StepsOf(r), Kind[s] = "serve_chip", SetRunning(s)
      PROVE  PairMove
  BY <1>1, <1>2, <1>6, WriteAt, NoneEnds DEF SetRunning
<1>7. ASSUME NEW s \in StepsOf(r), Kind[s] = "serve_chip", SetSucceeded(s)
      PROVE  PairMove
  BY <1>1, <1>2, <1>3, <1>7, OneEnds DEF SetSucceeded, SetStatus
<1>8. ASSUME NEW s \in StepsOf(r), status[s] # "running", SetChipFailed(s)
      PROVE  PairMove
  BY <1>1, <1>2, <1>3, <1>8, OneEnds DEF SetChipFailed, SetStatus
<1>9. ASSUME NEW s \in StepsOf(r), SkipStep(s)
      PROVE  PairMove
  <2>1. \A x \in Step : status'[x] = IF x = s THEN "canceled" ELSE status[x]
    BY <1>9, WriteAt DEF SkipStep
  <2>2. status[s] = "queued"
    BY <1>9 DEF SkipStep, Waiting
  <2>3. QED
    BY <1>2, <2>1, <2>2 DEF PairMove
<1>10. ASSUME NEW s \in StepsOf(r), CancelStep(s)
       PROVE  PairMove
  BY <1>1, <1>10, CancelPairs
<1>11. QED
  BY <1>4, <1>5, <1>6, <1>7, <1>8, <1>9, <1>10
     DEF RunWrites, dbVars, MarkDispatchable, OpenRun, CloseRun

\* What the action of a coordinator or a request does besides its own variables.
Here(r) == RunWrites(r) /\ CoHere(r)

\* The actions up to the first turn write as RunWrites and CoHere say.
LEMMA PrepareHere ==
  ASSUME RunTypeOK, NEW r \in Run, RunInv(r),
         StartRun(r) \/ Prepare(r) \/ Snapshot(r) \/ SnapshotDone(r) \/ Preflight(r)
  PROVE  Here(r)
<1> USE DEF RunTypeOK, CoHere, CoGoto, Advance, Abort, coVars, canVars
<1>1. CASE StartRun(r)
  BY <1>1 DEF StartRun, Here, RunWrites
<1>2. CASE Prepare(r)
  BY <1>2 DEF Prepare, Here, RunWrites
<1>3. CASE Snapshot(r)
  BY <1>3, CurrentStep DEF Snapshot, Here, RunWrites
<1>4. CASE SnapshotDone(r)
  BY <1>4 DEF SnapshotDone, Here, RunWrites
<1>5. CASE Preflight(r)
  <2>1. CoHere(r)
    BY <1>5 DEF Preflight
  <2>2. ASSUME todo[r] # {}, SetChipFailed(Earliest(todo[r])), coPc[r] = "preflight"
        PROVE  RunWrites(r)
    <3>1. Earliest(todo[r]) \in StepsOf(r) /\ Earliest(todo[r]) \in todo[r]
      BY <2>2, EarliestIn DEF TypeOK, RunInv, Extent
    <3>2. status[Earliest(todo[r])] # "running"
      BY <2>2, <3>1 DEF RunInv, InOrder, Placed, Live
    <3>3. QED
      BY <2>2, <3>1, <3>2 DEF RunWrites
  <2>3. RunWrites(r)
    BY <1>5, <2>2 DEF Preflight, RunWrites
  <2>4. QED
    BY <2>1, <2>3 DEF Here
<1>6. QED
  BY <1>1, <1>2, <1>3, <1>4, <1>5

\* So do the turns of the coordinator.
LEMMA LoopHere ==
  ASSUME RunTypeOK, NEW r \in Run, RunInv(r),
         \/ PassRefused(r) \/ ServeBegin(r) \/ ServeEnd(r) \/ PassOver(r) \/ Bind(r)
         \/ Mark(r) \/ Wait(r) \/ ChipError(r) \/ RecordChipError(r) \/ PlanDone(r)
  PROVE  Here(r)
<1> USE DEF RunTypeOK, CoHere, CoGoto, Advance, Abort, Record, FailCurrent, coVars, canVars
<1>1. ASSUME NEW pc \in Loop, AtStep(r, pc)
      PROVE  OnTurn(r, Current(r)) /\ Current(r) \in StepsOf(r)
  BY <1>1, CurrentStep DEF OnTurn, AtStep
<1>2. CASE PassRefused(r)
  BY <1>2, CurrentStep DEF PassRefused, Here, RunWrites
<1>3. CASE ServeBegin(r)
  <2>1. OnTurn(r, Current(r)) /\ Current(r) \in StepsOf(r)
    BY <1>1, <1>3 DEF ServeBegin, Loop
  <2>2. RunWrites(r)
    BY <1>3, <2>1 DEF ServeBegin, RunWrites
  <2>3. CoHere(r)
    BY <1>3, <2>1 DEF ServeBegin
  <2>4. QED
    BY <2>2, <2>3 DEF Here
<1>4. CASE ServeEnd(r)
  <2>1. /\ Current(r) \in StepsOf(r) /\ Kind[Current(r)] = "serve_chip"
        /\ OnTurn(r, Current(r))
    BY <1>1, <1>4 DEF ServeEnd, AtStep, RunInv, InOrder, Loop
  <2>2. RunWrites(r)
    BY <1>4, <2>1 DEF ServeEnd, RunWrites
  <2>3. CoHere(r)
    BY <1>4, <2>1 DEF ServeEnd
  <2>4. QED
    BY <2>2, <2>3 DEF Here
<1>5. CASE PassOver(r)
  <2>1. OnTurn(r, Current(r)) /\ Current(r) \in StepsOf(r)
    BY <1>1, <1>5 DEF PassOver, HasTurn, Loop
  <2>2. RunWrites(r)
    BY <1>5, <2>1 DEF PassOver, RunWrites
  <2>3. CoHere(r)
    BY <1>5, <2>1 DEF PassOver
  <2>4. QED
    BY <2>2, <2>3 DEF Here
<1>6. CASE Bind(r)
  BY <1>6 DEF Bind, Here, RunWrites
<1>7. CASE Mark(r)
  BY <1>7, CurrentStep DEF Mark, Here, RunWrites
<1>8. CASE Wait(r)
  BY <1>8, CurrentStep DEF Wait, Here, RunWrites
<1>9. CASE ChipError(r)
  BY <1>9, CurrentStep DEF ChipError, Here, RunWrites
<1>10. CASE RecordChipError(r)
  <2>1. Current(r) \in StepsOf(r) /\ coPc[r] = "record" /\ OnTurn(r, Current(r))
    BY <1>1, <1>10 DEF RecordChipError, AtStep, Loop
  <2>2. status[Current(r)] # "running"
    BY <2>1 DEF RunInv, InOrder, Placed, Live
  <2>3. RunWrites(r)
    BY <1>10, <2>1, <2>2 DEF RecordChipError, RunWrites
  <2>4. CoHere(r)
    BY <1>10, <2>1 DEF RecordChipError
  <2>5. QED
    BY <2>3, <2>4 DEF Here
<1>11. CASE PlanDone(r)
  BY <1>11 DEF PlanDone, Here, RunWrites
<1>12. QED
  BY <1>2, <1>3, <1>4, <1>5, <1>6, <1>7, <1>8, <1>9, <1>10, <1>11

\* So do the way to the verdict and cancel requests.
LEMMA EndHere ==
  ASSUME RunTypeOK, NEW r \in Run, RunInv(r),
         Verdict(r) \/ SkipRest(r) \/ Close(r) \/ CancelRun(r) \/ CancelNext(r)
  PROVE  Here(r)
<1> USE DEF RunTypeOK, CoHere, CoGoto, CanGoto, coVars, canVars
<1>1. CASE Verdict(r)
  BY <1>1 DEF Verdict, Here, RunWrites
<1>2. CASE SkipRest(r)
  <2>1. todo[r] # {} => Earliest(todo[r]) \in StepsOf(r)
    BY EarliestIn DEF TypeOK, RunInv, Extent
  <2>2. RunWrites(r)
    BY <1>2, <2>1 DEF SkipRest, RunWrites, NextSkip
  <2>3. CoHere(r)
    BY <1>2 DEF SkipRest
  <2>4. QED
    BY <2>2, <2>3 DEF Here
<1>3. CASE Close(r)
  BY <1>3 DEF Close, Here, RunWrites, RunInv, Ending
<1>4. CASE CancelRun(r)
  BY <1>4 DEF CancelRun, Here, RunWrites
<1>5. CASE CancelListRunning(r) \/ CancelListQueued(r)
  BY <1>5 DEF CancelListRunning, CancelListQueued, Here, RunWrites
<1>6. CASE CancelStop(r)
  BY <1>6 DEF CancelStop, Here, RunWrites, RunInv, Extent
<1>7. CASE CancelSkip(r)
  <2>1. canTodo[r] # {} => Earliest(canTodo[r]) \in StepsOf(r)
    BY EarliestIn DEF TypeOK, RunInv, Extent
  <2>2. RunWrites(r)
    BY <1>7, <2>1 DEF CancelSkip, RunWrites, NextSkip
  <2>3. CoHere(r)
    BY <1>7 DEF CancelSkip
  <2>4. QED
    BY <2>2, <2>3 DEF Here
<1>8. CASE CancelClose(r)
  BY <1>8 DEF CancelClose, Here, RunWrites, Terminal
<1>9. QED
  BY <1>1, <1>2, <1>3, <1>4, <1>5, <1>6, <1>7, <1>8 DEF CancelNext
-----------------------------------------------------------------------------
(* The invariant under the actions of a run                                *)

\* A cancel request keeps the invariant of its run.
LEMMA CancelKeeps ==
  ASSUME RunTypeOK, LinkInv, NEW r \in Run, RunInv(r), CancelRun(r) \/ CancelNext(r)
  PROVE  RunInv(r)'
<1> SUFFICES Drift(r)
  BY DriftKeeps
<1>1. /\ \A s \in StepsOf(r) : s \in Step /\ ~Standalone(s)
      /\ UNCHANGED coVars
  BY StoreAssumption DEF StepsOf, Standalone, CancelRun, CancelNext, CancelListRunning,
     CancelStop, CancelListQueued, CancelSkip, CancelClose
<1>2. ASSUME UNCHANGED dbVars, canTodo'[r] \subseteq StepsOf(r)
      PROVE  Drift(r)
  BY <1>1, <1>2 DEF Drift, dbVars, coVars, Marked
<1>3. canTodo[r] \subseteq StepsOf(r)
  BY DEF RunInv, Extent
<1>4. CASE CancelRun(r)
  BY <1>2, <1>3, <1>4 DEF CancelRun
<1>5. CASE CancelListRunning(r) \/ CancelListQueued(r)
  BY <1>2, <1>5 DEF CancelListRunning, CancelListQueued, QueuedOf, RunTypeOK
<1>6. CASE CancelStop(r)
  <2>1. canTodo'[r] \subseteq StepsOf(r)
    BY <1>3, <1>6 DEF CancelStop, RunTypeOK
  <2>2. ASSUME NEW s \in canTodo[r], CancelStep(s)
        PROVE  Drift(r)
    <3>1. /\ \A x \in StepsOf(r) :
               status'[x] = IF x = s /\ status[s] \in Active THEN "canceled" ELSE status[x]
          /\ execStatus'[r] = execStatus[r] /\ dispatchAt' = dispatchAt
      BY <1>1, <1>3, <2>2, CancelAt DEF RunTypeOK
    <3>2. QED
      BY <1>1, <2>1, <3>1 DEF Drift, coVars, Marked, Terminal
  <2>3. QED
    BY <1>2, <1>6, <2>1, <2>2 DEF CancelStop
<1>7. CASE CancelSkip(r)
  <2>1. canTodo'[r] \subseteq StepsOf(r)
    BY <1>3, <1>7 DEF CancelSkip, RunTypeOK
  <2>2. ASSUME NEW s, SkipStep(s)
        PROVE  Drift(r)
    <3>1. /\ \A x \in StepsOf(r) : status'[x] = IF x = s THEN "canceled" ELSE status[x]
          /\ execStatus'[r] = execStatus[r] /\ dispatchAt' = dispatchAt
      BY <1>1, <2>2, WriteAt DEF SkipStep
    <3>2. status[s] = "queued"
      BY <2>2 DEF SkipStep, Waiting
    <3>3. QED
      BY <1>1, <2>1, <3>1, <3>2 DEF Drift, coVars, Marked, Terminal, Active
  <2>3. QED
    BY <1>2, <1>7, <2>1, <2>2 DEF CancelSkip
<1>8. CASE CancelClose(r)
  <2>1. /\ UNCHANGED <<canTodo, status, dispatchAt>>
        /\ \/ execStatus'[r] = execStatus[r]
           \/ execStatus[r] \in Active /\ execStatus'[r] = "canceled"
    BY <1>8 DEF CancelClose, CloseRun, RunTypeOK, TypeOK, StoreTypeOK, Exec
  <2>2. execStatus[r] \in Active => execStatus[r] = "running"
    BY DEF RunInv, Extent, Active, Terminal
  <2>3. QED
    BY <1>1, <1>3, <2>1, <2>2 DEF Drift, coVars, Marked
<1>9. QED
  BY <1>4, <1>5, <1>6, <1>7, <1>8 DEF CancelNext

\* The preparation of a run, up to the last step frozen.
LEMMA StartKeeps ==
  ASSUME RunTypeOK, NEW r \in Run, RunInv(r), StartRun(r)
  PROVE  RunInv(r)'
<1>1. /\ coPc'[r] = "prepare" /\ UNCHANGED <<coPos, refused, outcome, outputs, result, todo>>
      /\ UNCHANGED <<canTodo, status, dispatchAt>>
      /\ execStatus[r] = "absent" /\ execStatus'[r] = "running"
  BY DEF StartRun, OpenRun, CoGoto, canVars, RunTypeOK, TypeOK, StoreTypeOK, Exec
<1>2. /\ coPc[r] = "none" /\ result[r] = "ok" /\ coPos[r] = 1
      /\ \A s \in StepsOf(r) : status[s] = "absent"
  BY <1>1 DEF RunInv, Extent
<1>3. /\ StepsOf(r)' = StepsOf(r) /\ Places(r)' = Places(r)
      /\ \A i \in Places(r) : Plan[r][i] \in StepsOf(r)
  BY PlanPlaces DEF StepsOf, Places
<1>4. Extent(r)'
  BY <1>1, <1>2, <1>3 DEF RunInv, Extent, Loop
<1>5. Placed(r)' /\ Memory(r)'
  BY <1>1, <1>2, <1>3 DEF RunInv, Placed, Memory, Marked, Loop
<1>6. InOrder(r)'
  BY <1>1, <1>2, <1>3 DEF RunInv, InOrder, Live, Loop
<1>7. Sound(r)' /\ Ending(r)'
  BY <1>1, <1>2, <1>3 DEF RunInv, Sound, Ending, Loop
<1>8. QED
  BY <1>4, <1>5, <1>6, <1>7 DEF RunInv

\* Before the loop nothing of the run runs.
LEMMA EarlyQuiet ==
  ASSUME NEW r \in Run, RunInv(r),
         coPc[r] \in {"prepare", "snapshot", "preflight", "next", "bound", "refused", "record",
                     "verdict", "skip", "close"}
  PROVE  \A s \in StepsOf(r) : ~Live(s)
<1>1. \A i \in Places(r) : ~Live(Plan[r][i])
  BY DEF RunInv, InOrder
<1>2. \A s \in StepsOf(r) : Live(s) => status[s] # "absent"
  BY DEF Live
<1>3. QED
  BY <1>1, <1>2 DEF RunInv, Placed

\* Preparation keeps the invariant.
LEMMA PrepareKeeps ==
  ASSUME RunTypeOK, NEW r \in Run, RunInv(r), Prepare(r)
  PROVE  RunInv(r)'
<1>1. /\ coPc[r] = "prepare" /\ UNCHANGED <<coPos, outcome, outputs, todo, canTodo, dbVars>>
  BY DEF Prepare, Abort, canVars
<1>2. CASE Abort(r, "error") /\ UNCHANGED refused
  <2>1. coPc'[r] = "verdict" /\ result'[r] = "error"
    BY <1>2 DEF Abort, CoGoto, RunTypeOK
  <2>2. Moved(r)
    BY <1>1, <1>2, <2>1, EarlyQuiet, PlanPlaces DEF Moved
  <2>3. QED
    BY <2>1, <2>2, AbortKeeps
<1>3. CASE coPc'[r] = "snapshot" /\ UNCHANGED result
  <2>1. /\ StepsOf(r)' = StepsOf(r) /\ Places(r)' = Places(r)
        /\ UNCHANGED <<status, execStatus, dispatchAt>>
        /\ \A i \in Places(r) : Plan[r][i] \in StepsOf(r) /\ i \in Nat /\ i >= 1
    BY <1>1, PlanPlaces DEF StepsOf, Places, dbVars
  <2>2. Extent(r)'
    BY <1>1, <1>3, <2>1 DEF RunInv, Extent, Loop
  <2>3. Placed(r)' /\ Memory(r)'
    BY <1>1, <1>3, <2>1 DEF RunInv, Placed, Memory, Marked, PredsDone, Loop
  <2>4. InOrder(r)'
    BY <1>1, <1>3, <2>1, EarlyQuiet DEF InOrder, Live, Marked, Loop
  <2>5. Sound(r)' /\ Ending(r)'
    BY <1>1, <1>3, <2>1 DEF RunInv, Sound, Excused, Ending, Loop
  <2>6. QED
    BY <2>2, <2>3, <2>4, <2>5 DEF RunInv
<1>4. QED
  BY <1>2, <1>3 DEF Prepare, CoGoto, RunTypeOK

\* The INSERT of the next step of the plan keeps the invariant.
LEMMA SnapshotKeeps ==
  ASSUME RunTypeOK, NEW r \in Run, RunInv(r), Snapshot(r)
  PROVE  RunInv(r)'
<1> DEFINE s == Current(r)
<1>1. /\ coPc[r] = "snapshot" /\ UNCHANGED <<refused, outcome, outputs, todo, canTodo>>
      /\ s \in StepsOf(r) /\ s \in Step /\ ~Standalone(s) /\ s = Plan[r][coPos[r]]
      /\ coPos[r] \in Places(r)
  BY CurrentStep DEF Snapshot, AtStep, Abort, canVars, Current
<1>2. /\ StepsOf(r)' = StepsOf(r) /\ Places(r)' = Places(r)
      /\ \A i \in Places(r) : /\ Plan[r][i] \in StepsOf(r) /\ i \in Nat /\ i >= 1
                              /\ Plan[r][i] = s => i = coPos[r]
  BY <1>1, PlanPlaces DEF StepsOf, Places
<1>3. CASE InsertStep(s) /\ Advance(r, "snapshot") /\ UNCHANGED result
  <2>1. /\ status[s] = "absent" /\ status'[s] = "queued"
        /\ \A x \in StepsOf(r) : x # s => status'[x] = status[x]
        /\ execStatus' = execStatus /\ dispatchAt' = dispatchAt
    BY <1>1, <1>3, InsertAt DEF RunTypeOK, TypeOK, StepsOf
  <2>2. coPc'[r] = "snapshot" /\ coPos'[r] = coPos[r] + 1
    BY <1>3 DEF Advance, CoGoto, RunTypeOK
  <2>3. coPos[r] + 1 \in 1..(Len(Plan[r]) + 1)
    BY <1>1, PlanPlaces DEF Places
  <2>4. Extent(r)'
    BY <1>1, <1>2, <1>3, <2>1, <2>2, <2>3 DEF RunInv, Extent, Loop
  <2>5. Placed(r)'
    <3>1. \A x \in StepsOf(r) : PredsDone(x) => PredsDone(x)'
      BY <2>1, TruthKept
    <3>2. QED
      BY <1>1, <1>2, <2>1, <3>1 DEF RunInv, Placed, Marked
  <2>6. Memory(r)'
    BY <1>1, <1>2, <2>1, <2>2 DEF RunInv, Memory, Loop
  <2>7. InOrder(r)'
    <3>1. \A x \in StepsOf(r) : ~Live(x)'
      BY <1>1, <2>1, EarlyQuiet DEF Live, Marked, RunInv, Placed
    <3>2. QED
      BY <1>2, <2>2, <3>1 DEF InOrder, Loop
  <2>8. Sound(r)' /\ Ending(r)'
    BY <1>1, <1>3, <2>1, <2>2 DEF RunInv, Extent, Sound, Ending, Loop
  <2>9. QED
    BY <2>4, <2>5, <2>6, <2>7, <2>8 DEF RunInv
<1>4. CASE Abort(r, "error") /\ UNCHANGED dbVars
  <2>1. coPc'[r] = "verdict" /\ result'[r] = "error"
    BY <1>4 DEF Abort, CoGoto, RunTypeOK
  <2>2. Moved(r)
    BY <1>1, <1>2, <1>4, <2>1, EarlyQuiet DEF Moved, Abort
  <2>3. QED
    BY <2>1, <2>2, AbortKeeps
<1>5. QED
  BY <1>3, <1>4 DEF Snapshot

\* So does the end of the snapshot, which lists the refused steps.
LEMMA SnapshotDoneKeeps ==
  ASSUME RunTypeOK, NEW r \in Run, RunInv(r), SnapshotDone(r)
  PROVE  RunInv(r)'
<1>1. /\ coPc[r] = "snapshot" /\ coPos[r] > Len(Plan[r])
      /\ coPc'[r] = "preflight" /\ coPos'[r] = 1 /\ todo'[r] = refused \cap StepsOf(r)
      /\ result'[r] = IF refused \cap StepsOf(r) = {} THEN "ok" ELSE "error"
      /\ UNCHANGED <<status, execStatus, dispatchAt, refused, outcome, outputs, canTodo>>
  BY DEF SnapshotDone, CoGoto, RunTypeOK, dbVars, canVars
<1>2. /\ StepsOf(r)' = StepsOf(r) /\ Places(r)' = Places(r) /\ Len(Plan[r]) \in Nat
      /\ coPos[r] \in Nat
      /\ \A i \in Places(r) : Plan[r][i] \in StepsOf(r) /\ i \in Nat /\ i <= Len(Plan[r])
  BY PlanPlaces DEF StepsOf, Places, RunTypeOK
<1>3. Extent(r)'
  BY <1>1, <1>2 DEF RunInv, Extent, Loop
<1>4. Placed(r)' /\ Memory(r)'
  BY <1>1, <1>2 DEF RunInv, Placed, Memory, Marked, PredsDone, Loop
<1>5. InOrder(r)'
  BY <1>1, <1>2, EarlyQuiet DEF InOrder, Live, Marked, Loop
<1>6. Sound(r)' /\ Ending(r)'
  BY <1>1, <1>2 DEF RunInv, Extent, Sound, Ending, Loop
<1>7. QED
  BY <1>3, <1>4, <1>5, <1>6 DEF RunInv

\* So does the failure of a refused step.
LEMMA PreflightKeeps ==
  ASSUME RunTypeOK, NEW r \in Run, RunInv(r), Preflight(r)
  PROVE  RunInv(r)'
<1>1. /\ coPc[r] = "preflight" /\ UNCHANGED <<coPos, refused, outcome, outputs, result, canTodo>>
      /\ coPos[r] = 1
  BY DEF Preflight, canVars, RunInv, Extent
<1>2. /\ StepsOf(r)' = StepsOf(r) /\ Places(r)' = Places(r)
      /\ \A s \in StepsOf(r) : s \in Step
      /\ \A i \in Places(r) : Plan[r][i] \in StepsOf(r) /\ i \in Nat /\ i >= 1
  BY PlanPlaces DEF StepsOf, Places
<1>3. CASE todo[r] = {} /\ coPc' = [coPc EXCEPT ![r] = "next"] /\ UNCHANGED <<dbVars, todo>>
  <2>1. coPc'[r] = "next" /\ UNCHANGED <<status, execStatus, dispatchAt, todo>>
    BY <1>3 DEF RunTypeOK, dbVars
  <2>2. Extent(r)'
    BY <1>1, <1>2, <2>1 DEF RunInv, Extent, Loop
  <2>3. Placed(r)' /\ Memory(r)'
    BY <1>1, <1>2, <1>3, <2>1 DEF RunInv, Placed, Memory, Marked, PredsDone, Loop
  <2>4. InOrder(r)'
    <3>1. \A x \in StepsOf(r) : ~Live(x)'
      BY <1>1, <2>1, EarlyQuiet DEF Live, Marked
    <3>2. \A i \in Places(r) : ~(i < coPos'[r])
      BY <1>1, <1>2
    <3>3. QED
      BY <1>2, <2>1, <3>1, <3>2 DEF InOrder
  <2>5. Sound(r)' /\ Ending(r)'
    <3>1. \A i \in Places(r) : ~(i < coPos'[r])
      BY <1>1, <1>2
    <3>2. execStatus[r] \notin {"succeeded", "failed"}
      BY <1>1 DEF RunInv, Extent
    <3>3. QED
      BY <1>1, <1>2, <2>1, <3>1, <3>2 DEF RunInv, Sound, Ending, Loop
  <2>6. QED
    BY <2>2, <2>3, <2>4, <2>5 DEF RunInv
<1>4. ASSUME NEW e \in todo[r], SetChipFailed(e), todo' = [todo EXCEPT ![r] = @ \ {e}],
             UNCHANGED coPc
      PROVE  RunInv(r)'
  <2>1. /\ \A x \in StepsOf(r) :
             status'[x] = IF x = e /\ status[e] \in Active \cup {"failed"}
                          THEN "failed" ELSE status[x]
        /\ execStatus'[r] = execStatus[r] /\ dispatchAt' = dispatchAt
    BY <1>2, <1>4, WriteAt DEF SetChipFailed
  <2>2. todo'[r] = todo[r] \ {e}
    BY <1>4 DEF RunTypeOK
  <2>3. Extent(r)'
    BY <1>1, <1>2, <1>4, <2>1, <2>2 DEF RunInv, Extent, Loop, Active
  <2>4. Placed(r)'
    <3>1. \A x \in StepsOf(r) : PredsDone(x) => PredsDone(x)'
      BY <2>1, TruthKept DEF Active
    <3>2. QED
      BY <1>1, <1>2, <2>1, <3>1 DEF RunInv, Placed, Marked, Active
  <2>5. Memory(r)'
    BY <1>1, <1>2, <1>4, <2>1, <2>2 DEF RunInv, Memory, Loop, Active
  <2>6. InOrder(r)'
    <3>1. \A x \in StepsOf(r) : ~Live(x)'
      BY <1>1, <2>1, EarlyQuiet DEF Live, Marked
    <3>2. coPc'[r] = "preflight"
      BY <1>1, <1>4
    <3>3. QED
      BY <1>2, <3>1, <3>2 DEF InOrder, Loop
  <2>7. Sound(r)' /\ Ending(r)'
    BY <1>1, <1>2, <1>4, <2>1 DEF RunInv, Extent, Sound, Ending, Loop
  <2>8. QED
    BY <2>3, <2>4, <2>5, <2>6, <2>7 DEF RunInv
<1>5. todo[r] # {} => Earliest(todo[r]) \in todo[r]
  BY EarliestIn DEF RunTypeOK, TypeOK
<1>6. QED
  BY <1>3, <1>4, <1>5 DEF Preflight, CoGoto

\* A chip that is passed over in a run without an error so far is excused: what
\* came before it and did not succeed is remembered as such.
LEMMA PassedExcused ==
  ASSUME RunTypeOK, NEW r \in Run, RunInv(r), HasTurn(r), result[r] = "ok",
         Blocked(Current(r)) \/ Starved(Current(r))
  PROVE  \E e \in Edges :
           /\ e.to = Current(r) /\ e.from # Current(r)
           /\ e.kind = "on_error" \/ status[e.from] \in {"canceled", "absent"}
<1> DEFINE s == Current(r)
<1>1. /\ s \in StepsOf(r) /\ s = Plan[r][coPos[r]] /\ coPos[r] \in Places(r)
      /\ coPc[r] = "next"
  BY CurrentStep DEF HasTurn, AtStep, Current
<1>2. PICK e \in Edges :
        /\ e.to = s
        /\ \/ e.kind = "on_error"
           \/ e.kind = "on_success" /\ outcome[e.from] # "succeeded"
           \/ e.kind = "always" /\ outcome[e.from] = "none"
           \/ /\ e.kind = "data"
              /\ IF e.from \in Producer THEN e.from \notin outputs
                                        ELSE outcome[e.from] # "succeeded"
  BY DEF Blocked, Starved
<1> DEFINE x == e.from
<1>3. x \in StepsOf(r)
  BY <1>1, <1>2, EdgeEnds
<1>4. ASSUME status[x] # "absent"
      PROVE  /\ x # s
             /\ e.kind # "on_error" => status[x] = "canceled"
  <2>1. PICK i \in Places(r) : Plan[r][i] = x
    BY <1>3, <1>4 DEF RunInv, Placed
  <2>2. i < coPos[r]
    BY <1>1, <1>2, <2>1, CanvasAssumption DEF Places
  <2>3. /\ Excused(x)
        /\ status[x] = "succeeded" => outcome[x] = "succeeded" /\ (x \in Producer => x \in outputs)
    BY <1>1, <2>1, <2>2 DEF RunInv, Sound, Loop
  <2>4. x # s
    BY <1>1, <2>1, <2>2, PlanPlaces DEF Places
  <2>5. e.kind # "on_error" => status[x] # "succeeded"
    BY <1>2, <2>3
  <2>6. QED
    BY <2>3, <2>4, <2>5 DEF Excused
<1>5. status[s] # "absent"
  BY <1>1 DEF RunInv, Extent, Loop
<1>6. QED
  BY <1>2, <1>4, <1>5

\* What the coordinator lets through has what its connections ask for.
LEMMA BoundDone ==
  ASSUME NEW r \in Run, RunInv(r), HasTurn(r), ~Blocked(Current(r)), ~Starved(Current(r))
  PROVE  PredsDone(Current(r))
<1>1. Current(r) \in StepsOf(r)
  BY CurrentStep DEF HasTurn
<1>2. \A x \in StepsOf(r) :
        outcome[x] = "succeeded" \/ x \in outputs => status[x] = "succeeded"
  BY DEF RunInv, Memory
<1>3. \A e \in Edges : e.to = Current(r) => e.from \in StepsOf(r)
  BY <1>1, EdgeEnds
<1>4. QED
  BY <1>2, <1>3 DEF Blocked, Starved, PredsDone

\* A step of the plan that is there, and neither waits nor runs, has ended.
LEMMA NotLive ==
  ASSUME RunTypeOK, NEW r \in Run, RunInv(r), NEW i \in Places(r),
         coPc[r] \in Loop, status[Plan[r][i]] \notin Active
  PROVE  status[Plan[r][i]] \in Terminal
<1>1. status[Plan[r][i]] \in Statuses /\ status[Plan[r][i]] # "absent"
  BY PlanPlaces DEF RunTypeOK, TypeOK, StoreTypeOK, RunInv, Extent
<1>2. QED
  BY <1>1 DEF Statuses

\* The coordinator passes a refused step, which has ended.
LEMMA PassRefusedKeeps ==
  ASSUME RunTypeOK, NEW r \in Run, RunInv(r), PassRefused(r)
  PROVE  RunInv(r)'
<1>0. PICK s \in Step : s = Current(r)
  BY CurrentStep DEF PassRefused, ServeBegin, ServeEnd, PassOver, HasTurn
<1>1. /\ s = Current(r) /\ s \in StepsOf(r) /\ s = Plan[r][coPos[r]] /\ coPos[r] \in Places(r)
      /\ coPc[r] = "next" /\ s \in refused
  BY <1>0, CurrentStep DEF PassRefused, AtStep, Current
<1>2. status[s] \in Terminal /\ result[r] # "ok"
  BY <1>1, NotLive DEF RunInv, Memory, Sound, Loop
<1>3. /\ coPc'[r] = "next" /\ coPos'[r] = coPos[r] + 1 /\ outcome'[s] = "failed"
      /\ \A x \in StepsOf(r) : x # s => outcome'[x] = outcome[x]
      /\ UNCHANGED <<status, execStatus, dispatchAt, refused, outputs, result, todo, canTodo>>
  BY <1>1 DEF PassRefused, Advance, CoGoto, Record, dbVars, canVars, RunTypeOK, StepsOf
<1>4. s \in outputs => status[s] = "succeeded"
  BY <1>1 DEF RunInv, Memory
<1>5. Turned(r, s, "failed")
  BY <1>1, <1>2, <1>3, <1>4 DEF Turned, Loop, Marked
<1>6. QED
  BY <1>1, <1>5, TurnKeeps

\* Begin and end of a serve chip keep the invariant.
LEMMA ServeKeeps ==
  ASSUME RunTypeOK, NEW r \in Run, RunInv(r), ServeBegin(r) \/ ServeEnd(r)
  PROVE  RunInv(r)'
<1>0. PICK s \in Step : s = Current(r)
  BY CurrentStep DEF PassRefused, ServeBegin, ServeEnd, PassOver, HasTurn
<1>1. /\ s = Current(r) /\ s \in StepsOf(r) /\ s = Plan[r][coPos[r]] /\ coPos[r] \in Places(r)
      /\ \A x \in StepsOf(r) : x \in Step
      /\ UNCHANGED <<refused, todo, canTodo>>
  BY <1>0, CurrentStep DEF ServeBegin, ServeEnd, Current, StepsOf, canVars
<1>2. /\ StepsOf(r)' = StepsOf(r) /\ Places(r)' = Places(r)
      /\ \A i \in Places(r) : Plan[r][i] \in StepsOf(r) /\ (Plan[r][i] = s => i = coPos[r])
  BY <1>1, PlanPlaces DEF StepsOf, Places
<1>3. ASSUME coPc[r] \in {"next", "serving"}, Abort(r, "error"), UNCHANGED dbVars, ~Live(s)
      PROVE  RunInv(r)'
  <2>1. \A i \in Places(r) : ~Live(Plan[r][i])
    BY <1>1, <1>2, <1>3 DEF RunInv, InOrder
  <2>2. coPc'[r] = "verdict" /\ result'[r] = "error"
    BY <1>3 DEF Abort, CoGoto, RunTypeOK
  <2>3. QED
    BY <1>1, <1>3, <2>1, <2>2, AbortKeeps DEF Moved, Abort
<1>4. ASSUME coPc[r] = "next", s \notin refused, Kind[s] = "serve_chip", SetRunning(s),
             CoGoto(r, "serving"), UNCHANGED <<coPos, outcome, outputs, result>>
      PROVE  RunInv(r)'
  <2>1. /\ status[s] = "queued" /\ status'[s] = "running"
        /\ \A x \in StepsOf(r) : x # s => status'[x] = status[x]
        /\ execStatus'[r] = execStatus[r] /\ dispatchAt' = dispatchAt
    BY <1>1, <1>4, WriteAt DEF SetRunning
  <2>2. coPc'[r] = "serving"
    BY <1>4 DEF CoGoto, RunTypeOK
  <2>3. execStatus[r] \in {"running", "canceled"}
    BY <1>4 DEF RunInv, Extent
  <2>4. Extent(r)'
    BY <1>1, <1>2, <1>4, <2>1, <2>2 DEF RunInv, Extent, Loop
  <2>5. Placed(r)'
    <3>1. \A x \in StepsOf(r) : PredsDone(x) => PredsDone(x)'
      BY <2>1, TruthKept
    <3>2. QED
      BY <1>1, <1>2, <2>1, <3>1 DEF RunInv, Placed, Marked
  <2>6. InOrder(r)'
    <3>1. \A j \in Places(r) : j < coPos[r] => Over(Plan[r][j]) /\ Over(Plan[r][j])'
      BY <1>2, <1>4, <2>1 DEF RunInv, InOrder, Loop, Over, Terminal
    <3>2. \A x \in StepsOf(r) : Live(x)' => x = s
      BY <1>4, <2>1, EarlyQuiet DEF Live, Marked
    <3>3. Current(r)' = s
      BY <1>1, <1>4 DEF Current
    <3>4. QED
      BY <1>2, <1>4, <2>1, <2>2, <3>1, <3>2, <3>3 DEF InOrder
  <2>7. Memory(r)'
    BY <1>1, <1>2, <1>4, <2>1, <2>2 DEF RunInv, Memory, Loop
  <2>8. Sound(r)'
    <3>1. \A i \in Places(r) : i < coPos[r] => Plan[r][i] # s
      BY <1>1, <1>2, PlanPlaces DEF Places
    <3>2. \A x \in StepsOf(r) : Excused(x) => Excused(x)'
      BY <2>1, TruthKept
    <3>3. QED
      BY <1>1, <1>2, <1>4, <2>1, <2>2, <2>3, <3>1, <3>2 DEF RunInv, Sound, Loop
  <2>9. Ending(r)'
    BY <1>1, <1>4, <2>1, <2>2, <2>3 DEF RunInv, Ending
  <2>10. QED
    BY <2>4, <2>5, <2>6, <2>7, <2>8, <2>9 DEF RunInv
<1>5. ASSUME coPc[r] = "serving", SetSucceeded(s), Record(s, "succeeded"), Advance(r, "next"),
             UNCHANGED <<outputs, result>>
      PROVE  RunInv(r)'
  <2>1. /\ status[s] = "running" /\ status'[s] = "succeeded"
        /\ \A x \in StepsOf(r) : x # s => status'[x] = status[x]
        /\ execStatus'[r] = execStatus[r] /\ dispatchAt' = dispatchAt
    BY <1>1, <1>5, WriteAt DEF SetSucceeded
  <2>2. /\ coPc'[r] = "next" /\ coPos'[r] = coPos[r] + 1 /\ outcome'[s] = "succeeded"
        /\ \A x \in StepsOf(r) : x # s => outcome'[x] = outcome[x]
    BY <1>1, <1>5 DEF Advance, CoGoto, Record, RunTypeOK
  <2>3. s \notin Producer
    BY <1>1, <1>5, CanvasAssumption DEF RunInv, InOrder
  <2>4. Turned(r, s, "succeeded")
    BY <1>1, <1>5, <2>1, <2>2, <2>3 DEF Turned, Loop, Marked, Excused, Terminal
  <2>5. QED
    BY <1>1, <2>4, TurnKeeps
<1>6. CASE ServeBegin(r)
  BY <1>1, <1>3, <1>4, <1>6, EarlyQuiet DEF ServeBegin, AtStep
<1>7. CASE ServeEnd(r)
  <2>1. coPc[r] = "serving" /\ (status[s] # "running" => ~Live(s))
    BY <1>1, <1>7 DEF ServeEnd, AtStep, RunInv, InOrder, Live
  <2>2. QED
    BY <1>1, <1>3, <1>5, <1>7, <2>1 DEF ServeEnd
<1>8. QED
  BY <1>6, <1>7

\* A step that is passed over is excused, or the run has given up.
LEMMA PassOverKeeps ==
  ASSUME RunTypeOK, NEW r \in Run, RunInv(r), PassOver(r)
  PROVE  RunInv(r)'
<1>0. PICK s \in Step : s = Current(r)
  BY CurrentStep DEF PassRefused, ServeBegin, ServeEnd, PassOver, HasTurn
<1>1. /\ s = Current(r) /\ s \in StepsOf(r) /\ s = Plan[r][coPos[r]] /\ coPos[r] \in Places(r)
      /\ \A x \in StepsOf(r) : x \in Step
      /\ coPc[r] = "next" /\ UNCHANGED <<refused, todo, canTodo>>
  BY <1>0, CurrentStep DEF PassOver, HasTurn, AtStep, Current, StepsOf, canVars
<1>2. CASE Abort(r, "error") /\ UNCHANGED dbVars
  <2>1. coPc'[r] = "verdict" /\ result'[r] = "error"
    BY <1>2 DEF Abort, CoGoto, RunTypeOK
  <2>2. QED
    BY <1>1, <1>2, <2>1, EarlyQuiet, PlanPlaces, AbortKeeps DEF Moved, Abort
<1>3. CASE SkipStep(s) /\ Record(s, "skipped") /\ Advance(r, "next") /\ UNCHANGED <<outputs, result>>
  <2>1. /\ status[s] = "queued" /\ status'[s] = "canceled"
        /\ \A x \in StepsOf(r) : x # s => status'[x] = status[x]
        /\ execStatus'[r] = execStatus[r] /\ dispatchAt' = dispatchAt
    BY <1>1, <1>3, WriteAt DEF SkipStep, Waiting
  <2>2. /\ coPc'[r] = "next" /\ coPos'[r] = coPos[r] + 1 /\ outcome'[s] = "skipped"
        /\ \A x \in StepsOf(r) : x # s => outcome'[x] = outcome[x]
    BY <1>1, <1>3 DEF Advance, CoGoto, Record, RunTypeOK
  <2>3. s \notin outputs
    BY <1>1, <2>1 DEF RunInv, Memory
  <2>4. ASSUME result[r] = "ok"
        PROVE  Excused(s)'
    <3>1. PICK e \in Edges :
            /\ e.to = s /\ e.from # s
            /\ e.kind = "on_error" \/ status[e.from] \in {"canceled", "absent"}
      BY <1>1, <2>4, PassedExcused DEF PassOver
    <3>2. status'[e.from] = status[e.from]
      BY <1>1, <2>1, <3>1, EdgeEnds
    <3>3. \E f \in Edges :
            f.to = s /\ (f.kind = "on_error" \/ status'[f.from] \in {"canceled", "absent"})
      BY <3>1, <3>2
    <3>4. QED
      BY <2>1, <3>3 DEF Excused
  <2>5. Turned(r, s, "skipped")
    BY <1>1, <1>3, <2>1, <2>2, <2>3, <2>4 DEF Turned, Loop, Marked, Terminal
  <2>6. QED
    BY <1>1, <2>5, TurnKeeps
<1>4. QED
  BY <1>1, <1>2, <1>3 DEF PassOver

\* The coordinator gives up, or goes on, with nothing of the run under way.
LEMMA GiveUpKeeps ==
  ASSUME RunTypeOK, NEW r \in Run, RunInv(r), coPc[r] \in Loop,
         UNCHANGED <<dbVars, todo, canTodo, refused>>,
         \A i \in Places(r) : ~Live(Plan[r][i]), NEW kind \in {"error", "canceled"}, Abort(r, kind)
  PROVE  RunInv(r)'
<1>1. coPc'[r] = "verdict" /\ result'[r] = kind
  BY DEF Abort, CoGoto, RunTypeOK
<1>2. QED
  BY <1>1, AbortKeeps DEF Moved, Abort, Loop

\* A coordinator that only changes its pc within a turn keeps the invariant.
LEMMA GoOnKeeps ==
  ASSUME RunTypeOK, NEW r \in Run, RunInv(r), coPc[r] \in Loop, coPos[r] \in Places(r),
         UNCHANGED <<dbVars, coPos, todo, canTodo, refused, outcome, outputs, result>>,
         \A i \in Places(r) : ~Live(Plan[r][i]),
         NEW pc \in {"bound", "refused", "record"}, pc # coPc[r], CoGoto(r, pc),
         pc = "bound" => PredsDone(Current(r))
  PROVE  RunInv(r)'
<1>1. coPc'[r] = pc
  BY DEF CoGoto, RunTypeOK
<1>2. QED
  BY <1>1, MoveKeeps DEF Moved, Loop

\* A step is bound when its predecessors have succeeded.
LEMMA BindKeeps ==
  ASSUME RunTypeOK, NEW r \in Run, RunInv(r), Bind(r)
  PROVE  RunInv(r)'
<1>1. /\ coPc[r] = "next" /\ coPos[r] \in Places(r)
      /\ UNCHANGED <<dbVars, coPos, todo, canTodo, refused, outcome, outputs, result>>
      /\ CoGoto(r, "bound") \/ CoGoto(r, "refused")
  BY CurrentStep DEF Bind, HasTurn, AtStep, canVars
<1>2. PredsDone(Current(r))
  BY BoundDone DEF Bind
<1>3. \A i \in Places(r) : ~Live(Plan[r][i])
  BY <1>1, EarlyQuiet, PlanPlaces
<1>4. coPc[r] \in Loop
  BY <1>1 DEF Loop
<1>5. QED
  BY <1>1, <1>2, <1>3, <1>4, GoOnKeeps

\* The dispatcher sees a step when all before it in the plan are over.
LEMMA MarkKeeps ==
  ASSUME RunTypeOK, NEW r \in Run, RunInv(r), Mark(r)
  PROVE  RunInv(r)'
<1>0. PICK s \in Step : s = Current(r)
  BY CurrentStep DEF Mark
<1>1. /\ s = Current(r) /\ s \in StepsOf(r) /\ s = Plan[r][coPos[r]] /\ coPos[r] \in Places(r)
      /\ coPc[r] = "bound" /\ coPc[r] \in Loop
      /\ UNCHANGED <<refused, todo, canTodo, outcome, outputs, coPos, result>> \/ UNCHANGED dbVars
      /\ UNCHANGED <<refused, todo, canTodo>>
  BY <1>0, CurrentStep DEF Mark, AtStep, Current, canVars, Loop
<1>2. /\ StepsOf(r)' = StepsOf(r) /\ Places(r)' = Places(r)
      /\ \A i \in Places(r) : Plan[r][i] \in StepsOf(r) /\ (Plan[r][i] = s => i = coPos[r])
  BY <1>1, PlanPlaces DEF StepsOf, Places
<1>3. /\ \A x \in StepsOf(r) : ~Live(x)
      /\ \A i \in Places(r) : ~Live(Plan[r][i])
  BY <1>1, <1>2, EarlyQuiet
<1>4. CASE UNCHANGED dbVars /\ Abort(r, "canceled")
  BY <1>1, <1>3, <1>4, GiveUpKeeps
<1>5. CASE UNCHANGED <<dbVars, coPos, outcome, outputs, result>> /\ CoGoto(r, "refused")
  BY <1>1, <1>3, <1>5, GoOnKeeps
<1>6. CASE MarkDispatchable(s) /\ CoGoto(r, "waiting") /\ UNCHANGED <<coPos, outcome, outputs, result>>
  <2>1. /\ status' = status /\ execStatus' = execStatus /\ status[s] = "queued"
        /\ \A x : Marked(x)' <=> x = s \/ Marked(x)
    BY <1>6 DEF MarkDispatchable, Marked
  <2>2. coPc'[r] = "waiting"
    BY <1>6 DEF CoGoto, RunTypeOK
  <2>3. Extent(r)'
    BY <1>1, <1>2, <1>6, <2>1, <2>2 DEF RunInv, Extent, Loop
  <2>4. Placed(r)'
    <3>1. PredsDone(s)
      BY <1>1 DEF RunInv, InOrder
    <3>2. \A x \in StepsOf(r) : PredsDone(x) => PredsDone(x)'
      BY <2>1 DEF PredsDone
    <3>3. QED
      BY <1>2, <2>1, <3>1, <3>2 DEF RunInv, Placed
  <2>5. InOrder(r)'
    <3>1. \A j \in Places(r) : j < coPos[r] => Over(Plan[r][j]) /\ Over(Plan[r][j])'
      BY <1>1, <2>1 DEF RunInv, InOrder, Over
    <3>2. \A x \in StepsOf(r) : Live(x)' => x = s
      BY <1>3, <2>1 DEF Live
    <3>3. Current(r)' = s
      BY <1>1, <1>6 DEF Current
    <3>4. QED
      BY <1>2, <1>6, <2>1, <2>2, <3>1, <3>2, <3>3 DEF InOrder
  <2>6. Memory(r)'
    BY <1>1, <1>2, <1>6, <2>1, <2>2 DEF RunInv, Memory
  <2>7. Sound(r)'
    <3>1. \A x \in StepsOf(r) : Excused(x) => Excused(x)'
      BY <2>1 DEF Excused
    <3>2. execStatus[r] # "succeeded"
      BY <1>1 DEF RunInv, Extent
    <3>3. QED
      BY <1>1, <1>2, <1>6, <2>1, <2>2, <3>1, <3>2 DEF RunInv, Sound, Loop
  <2>8. Ending(r)'
    BY <1>1, <1>2, <1>6, <2>1, <2>2 DEF RunInv, Ending
  <2>9. QED
    BY <2>3, <2>4, <2>5, <2>6, <2>7, <2>8 DEF RunInv
<1>7. QED
  BY <1>1, <1>4, <1>5, <1>6 DEF Mark

\* What the poll remembers of a step is what the database says.
LEMMA WaitKeeps ==
  ASSUME RunTypeOK, NEW r \in Run, RunInv(r), Wait(r)
  PROVE  RunInv(r)'
<1>0. PICK s \in Step : s = Current(r)
  BY CurrentStep DEF Wait
<1>1. /\ s = Current(r) /\ s \in StepsOf(r) /\ s = Plan[r][coPos[r]] /\ coPos[r] \in Places(r)
      /\ coPc[r] = "waiting" /\ coPc[r] \in Loop
      /\ UNCHANGED <<dbVars, refused, todo, canTodo>>
  BY <1>0, CurrentStep DEF Wait, AtStep, Current, canVars, Loop
<1>2. status[s] \in Terminal => \A i \in Places(r) : ~Live(Plan[r][i])
  BY <1>1 DEF RunInv, InOrder, Live, Terminal
<1>3. CASE status[s] = "canceled" /\ Abort(r, "canceled")
  BY <1>1, <1>2, <1>3, GiveUpKeeps DEF Terminal
<1>4. CASE /\ status[s] = "failed" /\ CoGoto(r, "refused")
           /\ UNCHANGED <<coPos, outcome, outputs, result>>
  BY <1>1, <1>2, <1>4, GoOnKeeps DEF Terminal
<1>5. ASSUME status[s] = "succeeded", Advance(r, "next"), NEW value, Record(s, value),
             \/ /\ value = "succeeded" /\ UNCHANGED result
                /\ outputs' = IF s \in Producer THEN outputs \cup {s} ELSE outputs
             \/ /\ value = "failed" /\ UNCHANGED outputs
                /\ result' = [result EXCEPT ![r] = "error"]
      PROVE  RunInv(r)'
  <2>1. /\ coPc'[r] = "next" /\ coPos'[r] = coPos[r] + 1 /\ outcome'[s] = value
        /\ \A x \in StepsOf(r) : x # s => outcome'[x] = outcome[x] /\ (x \in outputs' <=> x \in outputs)
        /\ UNCHANGED <<status, execStatus, dispatchAt>>
    BY <1>1, <1>5 DEF Advance, CoGoto, Record, RunTypeOK, dbVars, StepsOf
  <2>2. \/ value = "succeeded" /\ result'[r] = result[r] /\ (s \in Producer => s \in outputs')
        \/ result'[r] = "error"
    BY <1>5 DEF RunTypeOK
  <2>3. Turned(r, s, value)
    BY <1>1, <1>5, <2>1, <2>2 DEF Turned, Marked, Excused, Terminal
  <2>4. QED
    BY <2>3, TurnKeeps
<1>6. QED
  BY <1>1, <1>3, <1>4, <1>5 DEF Wait

\* A failed chip is behind the coordinator.
LEMMA FailKeeps ==
  ASSUME RunTypeOK, NEW r \in Run, RunInv(r), ChipError(r) \/ RecordChipError(r)
  PROVE  RunInv(r)'
<1>0. PICK s \in Step : s = Current(r)
  BY CurrentStep DEF ChipError, RecordChipError
<1>1. /\ s = Current(r) /\ s \in StepsOf(r) /\ s = Plan[r][coPos[r]] /\ coPos[r] \in Places(r)
      /\ coPc[r] \in {"refused", "record"} /\ coPc[r] \in Loop
      /\ UNCHANGED <<refused, todo, canTodo>>
      /\ \A x \in StepsOf(r) : x \in Step
  BY <1>0, CurrentStep DEF ChipError, RecordChipError, AtStep, Current, canVars, Loop, StepsOf
<1>2. /\ \A i \in Places(r) : ~Live(Plan[r][i])
      /\ status[s] # "running" /\ status[s] \in Statuses /\ status[s] # "absent"
  BY <1>1, EarlyQuiet, PlanPlaces DEF Live, RunInv, Extent, RunTypeOK, TypeOK, StoreTypeOK
<1>3. CASE /\ UNCHANGED <<dbVars, coPos, outcome, outputs, result>>
           /\ coPc[r] = "refused" /\ CoGoto(r, "record")
  BY <1>1, <1>2, <1>3, GoOnKeeps
<1>4. ASSUME FailCurrent(r), \A x \in StepsOf(r) : x # s => status'[x] = status[x],
             status'[s] = "failed" \/ (status'[s] = status[s] /\ status[s] # "queued"),
             status[s] \in Terminal => status'[s] = status[s],
             execStatus'[r] = execStatus[r], dispatchAt' = dispatchAt
      PROVE  RunInv(r)'
  <2>1. /\ coPc'[r] = "next" /\ coPos'[r] = coPos[r] + 1 /\ outcome'[s] = "failed"
        /\ result'[r] = "error" /\ outputs' = outputs
        /\ \A x \in StepsOf(r) : x # s => outcome'[x] = outcome[x]
    BY <1>1, <1>4 DEF FailCurrent, Advance, CoGoto, Record, RunTypeOK, StepsOf
  <2>2. /\ status'[s] \in Terminal
        /\ status[s] \in Terminal => status'[s] = status[s]
    BY <1>1, <1>2, <1>4 DEF Statuses, Active, Terminal
  <2>3. s \in outputs => status'[s] = "succeeded"
    BY <1>1, <2>2 DEF RunInv, Memory, Terminal
  <2>4. Turned(r, s, "failed")
    BY <1>1, <1>4, <2>1, <2>2, <2>3 DEF Turned, Marked
  <2>5. QED
    BY <2>4, TurnKeeps
<1>5. CASE ChipError(r)
  <2>1. ASSUME status[s] # "queued", FailCurrent(r), UNCHANGED dbVars
        PROVE  RunInv(r)'
    BY <1>4, <2>1 DEF dbVars
  <2>2. QED
    BY <1>1, <1>3, <1>5, <2>1 DEF ChipError, AtStep
<1>6. CASE RecordChipError(r)
  <2>1. /\ \A x \in StepsOf(r) :
             status'[x] = IF x = s /\ status[s] \in Active \cup {"failed"}
                          THEN "failed" ELSE status[x]
        /\ execStatus'[r] = execStatus[r] /\ dispatchAt' = dispatchAt
    BY <1>1, <1>6, WriteAt DEF RecordChipError, SetChipFailed
  <2>2. QED
    BY <1>1, <1>4, <1>6, <2>1 DEF RecordChipError, Active, Terminal
<1>7. QED
  BY <1>5, <1>6

\* At the end of the plan every step of it is excused, or the result is an error.
LEMMA PlanDoneKeeps ==
  ASSUME RunTypeOK, NEW r \in Run, RunInv(r), PlanDone(r)
  PROVE  RunInv(r)'
<1>1. /\ coPc[r] = "next" /\ coPc'[r] = "verdict" /\ coPos[r] = Len(Plan[r]) + 1
      /\ UNCHANGED <<dbVars, coPos, refused, outcome, outputs, result, todo, canTodo>>
  BY PlanPlaces DEF PlanDone, CoGoto, RunTypeOK, canVars, RunInv, Extent
<1>2. \A i \in Places(r) : ~Live(Plan[r][i])
  BY <1>1, EarlyQuiet, PlanPlaces
<1>3. QED
  BY <1>1, <1>2, MoveKeeps DEF Moved, Loop

\* The verdict, and the end of the coordinator.
LEMMA VerdictKeeps ==
  ASSUME RunTypeOK, NEW r \in Run, RunInv(r), Verdict(r)
  PROVE  RunInv(r)'
<1>1. /\ coPc[r] = "verdict" /\ result[r] \in {"ok", "error", "canceled"}
      /\ execStatus[r] \in {"running", "canceled"}
      /\ UNCHANGED <<dbVars, status, execStatus, dispatchAt, coPos, refused, outcome, outputs, canTodo>>
  BY DEF Verdict, RunInv, Extent, Ending, canVars, dbVars
<1>2. /\ result'[r] \in Terminal
      /\ result'[r] = "succeeded" <=> result[r] = "ok" /\ execStatus[r] # "canceled"
  BY <1>1 DEF Verdict, RunTypeOK, Terminal
<1>3. /\ StepsOf(r)' = StepsOf(r) /\ Places(r)' = Places(r) /\ QueuedOf(r)' = QueuedOf(r)
      /\ QueuedOf(r) \subseteq StepsOf(r)
      /\ \A x \in StepsOf(r) : ~Live(x)'
      /\ \A i \in Places(r) : Plan[r][i] \in StepsOf(r)
  BY <1>1, EarlyQuiet, PlanPlaces DEF StepsOf, Places, QueuedOf, Live, Marked
<1>4. \/ coPc'[r] = "close" /\ result[r] = "ok" /\ todo'[r] = todo[r]
      \/ /\ coPc'[r] = "skip" /\ result[r] # "ok"
         /\ todo'[r] = QueuedOf(r)
  BY DEF Verdict, CoGoto, RunTypeOK
<1>5. Extent(r)'
  BY <1>1, <1>3, <1>4 DEF RunInv, Extent, Loop
<1>6. Placed(r)' /\ Memory(r)'
  BY <1>1, <1>3, <1>4 DEF RunInv, Placed, Memory, Marked, PredsDone, Loop
<1>7. InOrder(r)'
  BY <1>3, <1>4 DEF InOrder, Loop
<1>8. Sound(r)'
  BY <1>1, <1>2, <1>3, <1>4 DEF RunInv, Sound, Excused, Loop
<1>9. Ending(r)'
  <2>1. result[r] = "ok" => QueuedOf(r) = {}
    BY <1>1 DEF RunInv, Sound, Placed, Excused, QueuedOf
  <2>2. coPc'[r] = "skip" => result'[r] \in {"failed", "canceled"}
    BY <1>2, <1>4 DEF Terminal
  <2>3. QED
    BY <1>1, <1>2, <1>3, <1>4, <2>1, <2>2 DEF Ending
<1>10. QED
  BY <1>5, <1>6, <1>7, <1>8, <1>9 DEF RunInv

\* The coordinator skips one of the steps it has listed, or is through with them, or
\* gives up.
Skips(r) ==
  /\ \A x \in StepsOf(r) :
       \/ status'[x] = status[x]
       \/ status[x] = "queued" /\ status'[x] = "canceled"
  /\ execStatus'[r] = execStatus[r] /\ dispatchAt' = dispatchAt
  /\ todo'[r] \subseteq todo[r]
  /\ \/ coPc'[r] = "skip" /\ \A x \in todo[r] : status'[x] # "queued" \/ x \in todo'[r]
     \/ coPc'[r] = "close" /\ todo[r] = {}
     \/ coPc'[r] = "none"

\* The coordinator skips what is left, and nothing else is queued behind its list.
LEMMA SkipRestKeeps ==
  ASSUME RunTypeOK, NEW r \in Run, RunInv(r), SkipRest(r)
  PROVE  RunInv(r)'
<1>1. /\ coPc[r] = "skip" /\ result[r] \in {"failed", "canceled"}
      /\ execStatus[r] \in {"running", "canceled"}
      /\ UNCHANGED <<coPos, refused, outcome, outputs, result, canTodo>>
      /\ QueuedOf(r) \subseteq todo[r] /\ todo[r] \subseteq StepsOf(r)
  BY DEF SkipRest, RunInv, Extent, Ending, canVars
<1>2. /\ StepsOf(r)' = StepsOf(r) /\ Places(r)' = Places(r)
      /\ \A x \in StepsOf(r) : x \in Step
      /\ \A i \in Places(r) : Plan[r][i] \in StepsOf(r)
  BY PlanPlaces DEF StepsOf, Places
<1>3. ASSUME Skips(r)
      PROVE  RunInv(r)'
  <2>1. Extent(r)'
    BY <1>1, <1>2, <1>3 DEF RunInv, Extent, Loop, Skips
  <2>2. Placed(r)' /\ Memory(r)'
    <3>1. \A x \in StepsOf(r) : PredsDone(x) => PredsDone(x)'
      BY <1>3, TruthKept DEF Skips
    <3>2. QED
      BY <1>1, <1>2, <1>3, <3>1 DEF RunInv, Placed, Memory, Marked, Loop, Skips
  <2>3. InOrder(r)'
    <3>1. \A x \in StepsOf(r) : ~Live(x)'
      BY <1>1, <1>3, EarlyQuiet DEF Live, Marked, Skips
    <3>2. QED
      BY <1>2, <1>3, <3>1 DEF InOrder, Loop, Skips
  <2>4. Sound(r)'
    BY <1>1, <1>3 DEF Sound, Loop, Skips
  <2>5. Ending(r)'
    BY <1>1, <1>2, <1>3 DEF Ending, QueuedOf, Terminal, Skips
  <2>6. QED
    BY <2>1, <2>2, <2>3, <2>4, <2>5 DEF RunInv
<1>4. CASE UNCHANGED <<dbVars, todo>> /\ CoGoto(r, "close") /\ todo[r] = {}
  <2>1. UNCHANGED <<status, execStatus, dispatchAt, todo>> /\ coPc'[r] = "close"
    BY <1>4 DEF dbVars, CoGoto, RunTypeOK
  <2>2. QED
    BY <1>3, <1>4, <2>1 DEF Skips
<1>5. CASE UNCHANGED <<dbVars, todo>> /\ CoGoto(r, "none")
  <2>1. UNCHANGED <<status, execStatus, dispatchAt, todo>> /\ coPc'[r] = "none"
    BY <1>5 DEF dbVars, CoGoto, RunTypeOK
  <2>2. QED
    BY <1>3, <2>1 DEF Skips
<1>6. ASSUME NEW s \in todo[r], SkipStep(s), todo' = [todo EXCEPT ![r] = @ \ {s}], UNCHANGED coPc
      PROVE  RunInv(r)'
  <2>1. /\ \A x \in StepsOf(r) : status'[x] = IF x = s THEN "canceled" ELSE status[x]
        /\ execStatus'[r] = execStatus[r] /\ dispatchAt' = dispatchAt /\ status[s] = "queued"
    BY <1>2, <1>6, WriteAt DEF SkipStep, Waiting
  <2>2. todo'[r] = todo[r] \ {s}
    BY <1>6 DEF RunTypeOK
  <2>3. QED
    BY <1>1, <1>3, <1>6, <2>1, <2>2 DEF Skips
<1>7. todo[r] # {} => Earliest(todo[r]) \in todo[r]
  BY EarliestIn DEF RunTypeOK, TypeOK
<1>8. QED
  BY <1>4, <1>5, <1>6, <1>7 DEF SkipRest

\* A run is closed with nothing queued, and with success only if it is whole.
LEMMA CloseKeeps ==
  ASSUME RunTypeOK, NEW r \in Run, RunInv(r), Close(r)
  PROVE  RunInv(r)'
<1>1. /\ coPc[r] = "close" /\ result[r] \in Terminal /\ QueuedOf(r) = {}
      /\ execStatus[r] \in {"running", "canceled"}
      /\ UNCHANGED <<status, dispatchAt, coPos, refused, outcome, outputs, result, todo, canTodo>>
      /\ coPc'[r] = "none"
  BY DEF Close, CloseRun, RunInv, Extent, Ending, canVars, CoGoto, RunTypeOK
<1>2. execStatus'[r] = IF execStatus[r] \in Active THEN result[r] ELSE execStatus[r]
  BY DEF Close, CloseRun, RunTypeOK, TypeOK, StoreTypeOK, Exec
<1>3. /\ StepsOf(r)' = StepsOf(r) /\ Places(r)' = Places(r)
      /\ execStatus'[r] \in Terminal
      /\ execStatus'[r] = "succeeded" => result[r] = "succeeded"
      /\ \A x \in StepsOf(r) : status'[x] \notin Active
      /\ \A i \in Places(r) : Plan[r][i] \in StepsOf(r)
  BY <1>1, <1>2, EarlyQuiet, PlanPlaces DEF StepsOf, Places, Terminal, Active, QueuedOf, Live
<1>4. Extent(r)'
  BY <1>1, <1>3 DEF RunInv, Extent, Loop, Terminal
<1>5. Placed(r)' /\ Memory(r)'
  BY <1>1, <1>3 DEF RunInv, Placed, Memory, Marked, PredsDone, Loop
<1>6. InOrder(r)'
  BY <1>1, <1>3 DEF InOrder, Live, Loop, Active
<1>7. Sound(r)'
  BY <1>1, <1>3 DEF RunInv, Sound, Excused, Loop, Terminal
<1>8. Ending(r)'
  BY <1>1, <1>3 DEF Ending
<1>9. QED
  BY <1>4, <1>5, <1>6, <1>7, <1>8 DEF RunInv

\* Every action of a coordinator keeps the invariant of its run.
LEMMA CoKeeps ==
  ASSUME RunTypeOK, NEW r \in Run, RunInv(r), StartRun(r) \/ CoNext(r)
  PROVE  RunInv(r)'
BY StartKeeps, PrepareKeeps, SnapshotKeeps, SnapshotDoneKeeps, PreflightKeeps,
   PassRefusedKeeps, ServeKeeps, PassOverKeeps, BindKeeps, MarkKeeps, WaitKeeps,
   FailKeeps, PlanDoneKeeps, VerdictKeeps, SkipRestKeeps, CloseKeeps DEF CoNext
=============================================================================
