----------------------------- MODULE OrderedRun -----------------------------
(***************************************************************************)
(* What a full run of a workspace promises, without queue, dispatcher and  *)
(* coordinator: its chips are frozen in the order of the plan, start in    *)
(* that order, one at a time, each at most once, and the verdict of the    *)
(* run agrees with what its chips say.  WorkspaceRun implements it.        *)
(***************************************************************************)
EXTENDS Integers, Sequences

CONSTANTS
  Run,
  Chip,   \* chips, each within its run
  Plan    \* Plan[r]: the chips of run r in their order

\* Every chip of a plan has one place in one plan.
ProperPlans ==
  /\ Plan \in [Run -> Seq(Chip)]
  /\ \A r, q \in Run : \A i \in 1..Len(Plan[r]), j \in 1..Len(Plan[q]) :
       Plan[r][i] = Plan[q][j] => r = q /\ i = j

Places(r) == 1..Len(Plan[r])
Chips(r)  == {Plan[r][i] : i \in Places(r)}

VARIABLES
  chip,   \* the status of each chip within its run
  run     \* the status of each run

orderedVars == <<chip, run>>

Open   == {"queued", "running"}
Ends   == {"succeeded", "failed", "canceled"}

OrderedTypeOK ==
  /\ chip \in [Chip -> {"absent"} \cup Open \cup Ends]
  /\ run \in [Run -> {"absent", "running"} \cup Ends]

OrderedInit ==
  /\ chip = [c \in Chip |-> "absent"]
  /\ run = [r \in Run |-> "absent"]

Ended(c) == chip[c] \in Ends

Move(c, to) ==
  /\ chip' = [chip EXCEPT ![c] = to]
  /\ UNCHANGED run

\* One unfinished run at a time.
Begin(r) ==
  /\ run[r] = "absent"
  /\ \A q \in Run : run[q] # "running"
  /\ run' = [run EXCEPT ![r] = "running"]
  /\ UNCHANGED chip

Freeze(r, i) ==
  /\ run[r] = "running"
  /\ chip[Plan[r][i]] = "absent"
  /\ \A j \in 1..(i - 1) : chip[Plan[r][j]] # "absent"
  /\ Move(Plan[r][i], "queued")

\* A run may have been canceled when one of its chips starts: the code keeps no
\* more than this (see CancelStopsChip of WorkspaceRun).
Start(r, i) ==
  /\ run[r] \in {"running", "canceled"}
  /\ chip[Plan[r][i]] = "queued"
  /\ \A j \in 1..(i - 1) : Ended(Plan[r][j])
  /\ Move(Plan[r][i], "running")

End(r, i) ==
  /\ chip[Plan[r][i]] = "running"
  /\ \E to \in Ends : Move(Plan[r][i], to)

\* Passed over, refused or canceled before its turn.
Drop(r, i) ==
  /\ chip[Plan[r][i]] = "queued"
  /\ \E to \in {"failed", "canceled"} : Move(Plan[r][i], to)

Finish(r) ==
  /\ run[r] = "running"
  /\ \E to \in Ends :
       /\ to = "succeeded" => \A c \in Chips(r) : chip[c] \in {"succeeded", "canceled"}
       /\ to = "failed" => \A c \in Chips(r) : chip[c] \notin Open
       /\ run' = [run EXCEPT ![r] = to]
  /\ UNCHANGED chip

\* A restart fails every unfinished run with all that is left of it, and
\* whatever still runs.
Crash ==
  LET lost(r, c) == chip[c] = "running" \/ (chip[c] = "queued" /\ run[r] = "running") IN
  /\ chip' = [c \in Chip |->
       IF \E r \in Run : c \in Chips(r) /\ lost(r, c) THEN "failed" ELSE chip[c]]
  /\ run' = [r \in Run |-> IF run[r] = "running" THEN "failed" ELSE run[r]]

OrderedNext ==
  \/ \E r \in Run :
       \/ Begin(r)
       \/ Finish(r)
       \/ \E i \in Places(r) : Freeze(r, i) \/ Start(r, i) \/ End(r, i) \/ Drop(r, i)
  \/ Crash

OrderedSpec == OrderedInit /\ [][OrderedNext]_orderedVars
-----------------------------------------------------------------------------
(* Properties                                                              *)

\* What runs has only ended chips before it in the plan: the coordinator waits for
\* each chip before it marks the next one.
InTurn ==
  \A r \in Run : \A i \in Places(r) :
    chip[Plan[r][i]] = "running" => \A j \in 1..(i - 1) : Ended(Plan[r][j])

\* No two chips of a run are running, as the coordinator dispatches one at a time.
NeverTwo ==
  \A r \in Run : \A c, d \in Chips(r) :
    chip[c] = "running" /\ chip[d] = "running" => c = d

\* Nothing of a run that has succeeded or failed is queued or running, as the
\* coordinator skips what still waits before it closes the run.
NothingLeft ==
  \A r \in Run : run[r] \in {"succeeded", "failed"} =>
    \A c \in Chips(r) : chip[c] \notin Open
=============================================================================
