----------------------------- MODULE Scheduler ------------------------------
(***************************************************************************)
(* scheduler_loop (server/src/schedule.rs) on the table of schedules       *)
(* (storage/src/schedule_repo.rs): once a second it reads the rows that    *)
(* are due, and for each asks whether a full run of the workspace is       *)
(* active, advances the row and spawns a task that runs the workspace.     *)
(* Each of these is an await, and users change, delete and run meanwhile.  *)
(* The schedules here are all of one workspace.                            *)
(*                                                                         *)
(* rows   the table: [every, due, enabled, last], None for no such row     *)
(* loop   at "tick", at "check" (is a run active), or at "advance";        *)
(*        the now of the tick, the rows it has still to answer as they     *)
(*        were read, and whether a run was active                          *)
(* world  everything beside: the time; tasks, [id, row, at, result], which *)
(*        are at "start", "run" or "write"; the active full run, of a task *)
(*        or 0 of a user; the update request that knows its next time;    *)
(*        answered[r], the tick that last answered r, and passed[r], how   *)
(*        many listings left r out since it is due                         *)
(***************************************************************************)
EXTENDS Naturals, Sequences, FiniteSets

CONSTANTS
  Row,          \* ids of schedules
  Every,        \* intervals
  Limit,        \* the LIMIT of due_workspace_schedules (16)
  MaxTime,      \* bounds on the clock, and on the tasks there are when the loop ticks
  MaxTasks,
  MaxEvents,    \* bound on updates, deletions, runs and cancels by hand, restarts
                \* and storage calls that fail, taken together
  None

VARIABLES rows, loop, world
vars == <<rows, loop, world>>

\* next_run: Calendar has what it computes and that it is always later.
NextRun(every, after) == after + every

Idle == [at |-> "tick", now |-> 0, todo |-> <<>>, active |-> FALSE]

Init ==
  /\ \E every \in [Row -> Every] :
       rows = [r \in Row |-> [every |-> every[r], due |-> NextRun(every[r], 0),
                              enabled |-> TRUE, last |-> None]]
  /\ loop = Idle
  /\ world = [time |-> 0, tasks |-> {}, active |-> None, update |-> None,
              answered |-> [r \in Row |-> 0], passed |-> [r \in Row |-> 0],
              updates |-> 0, disturbed |-> FALSE, events |-> 0]

Live(r) == rows[r] # None
MayHappen == world.events < MaxEvents
Event(w) == [w EXCEPT !.events = @ + 1]
Fault(w) == [Event(w) EXCEPT !.disturbed = TRUE]

-----------------------------------------------------------------------------
(* The loop                                                                *)

IsDue(r, now) == Live(r) /\ rows[r].enabled /\ rows[r].due <= now
DueAt(now) == {r \in Row : IsDue(r, now)}

\* due_workspace_schedules: the rows that are due for longest, the oldest first.
Listings(now) ==
  LET due == DueAt(now)
      n == IF Cardinality(due) < Limit THEN Cardinality(due) ELSE Limit
  IN {list \in [1..n -> due] :
        /\ \A i, j \in 1..n : i < j => list[i] # list[j] /\ rows[list[i]].due <= rows[list[j]].due
        /\ \A r \in due, i \in 1..n :
             (\A j \in 1..n : list[j] # r) => rows[list[i]].due <= rows[r].due}

AtRow(l) == IF l.todo = <<>> THEN Idle ELSE [l EXCEPT !.at = "check"]
Rest(l) == AtRow([l EXCEPT !.todo = Tail(@)])

Tick ==
  /\ loop.at = "tick" /\ DueAt(world.time) # {} /\ UNCHANGED rows
  /\ Cardinality(world.tasks) < MaxTasks
  /\ \/ \E list \in Listings(world.time) :
          /\ loop' = AtRow([at |-> "check", now |-> world.time, active |-> FALSE,
                            todo |-> [i \in DOMAIN list |-> [id |-> list[i], every |-> rows[list[i]].every]]])
          /\ world' = [world EXCEPT !.passed = [r \in Row |->
               IF IsDue(r, world.time) /\ \A i \in DOMAIN list : list[i] # r THEN @[r] + 1 ELSE 0]]
     \/ MayHappen /\ world' = Fault(world) /\ UNCHANGED loop

\* workspace_has_active_execution; an error counts as an active run.
CheckActive ==
  /\ loop.at = "check" /\ UNCHANGED rows
  /\ \/ loop' = [loop EXCEPT !.at = "advance", !.active = world.active # None] /\ UNCHANGED world
     \/ MayHappen /\ loop' = [loop EXCEPT !.at = "advance", !.active = TRUE] /\ world' = Fault(world)

Unused == CHOOSE i \in 1..(MaxTasks + Limit) : \A t \in world.tasks : t.id # i

\* advance_workspace_schedule writes the row as it is by now, if it is still there, and
\* computes from the row as it was read; the task is spawned in either case.
Advance ==
  LET row == Head(loop.todo) IN
  /\ loop.at = "advance" /\ loop' = Rest(loop)
  /\ \/ /\ rows' = [rows EXCEPT ![row.id] =
               IF @ = None THEN None
               ELSE [@ EXCEPT !.due = NextRun(row.every, loop.now),
                              !.last = IF loop.active THEN "skipped" ELSE "running"]]
        /\ world' = [world EXCEPT
             !.answered[row.id] = loop.now,
             !.tasks = IF loop.active THEN @
                       ELSE @ \cup {[id |-> Unused, row |-> row.id, at |-> "start", result |-> None]}]
     \/ MayHappen /\ world' = Fault(world) /\ UNCHANGED rows

-----------------------------------------------------------------------------
(* The tasks                                                               *)

To(t, u) == [world EXCEPT !.tasks = (@ \ {t}) \cup {u}]
Ends(t, result) == To(t, [t EXCEPT !.at = "write", !.result = result])

\* Mutant: the owner is gone, and nobody says so.
StartForgets(t) ==
  /\ t.at = "start" /\ UNCHANGED <<rows, loop>>
  /\ \/ world.active = None
        /\ world' = [To(t, [t EXCEPT !.at = "run"]) EXCEPT !.active = t.id]
     \/ world' = [world EXCEPT !.tasks = @ \ {t}]

\* get_user and create_workspace_execution, which is refused while a run is active.
Start(t) ==
  /\ t.at = "start" /\ UNCHANGED <<rows, loop>>
  /\ \/ world.active = None
        /\ world' = [To(t, [t EXCEPT !.at = "run"]) EXCEPT !.active = t.id]
     \/ world' = Ends(t, "failed")

\* run_workspace_internal returns; a cancel may have closed the run before.
Finish(t, result) ==
  /\ t.at = "run" /\ UNCHANGED <<rows, loop>>
  /\ world.active # t.id => result = "failed"
  /\ world' = [Ends(t, result) EXCEPT !.active = IF @ = t.id THEN None ELSE @]

\* set_workspace_schedule_status, whose error is ignored.
Write(t) ==
  /\ t.at = "write" /\ UNCHANGED loop
  /\ \/ /\ rows' = [rows EXCEPT ![t.row] = IF @ = None THEN None ELSE [@ EXCEPT !.last = t.result]]
        /\ world' = [world EXCEPT !.tasks = @ \ {t}]
     \/ MayHappen /\ world' = [Fault(world) EXCEPT !.tasks = @ \ {t}] /\ UNCHANGED rows

-----------------------------------------------------------------------------
(* Users, the clock and restarts                                           *)

Pass == world.time < MaxTime /\ world' = [world EXCEPT !.time = @ + 1] /\ UNCHANGED <<rows, loop>>

\* update computes the next time, and writes it some awaits later.
Update(r, every, enabled) ==
  /\ Live(r) /\ world.update = None /\ MayHappen /\ UNCHANGED <<rows, loop>>
  /\ world' = [Event(world) EXCEPT !.updates = @ + 1,
       !.update = [id |-> r, every |-> every, enabled |-> enabled, due |-> NextRun(every, world.time)]]
UpdateWrites ==
  LET u == world.update IN
  /\ u # None /\ UNCHANGED loop
  /\ rows' = IF Live(u.id)
             THEN [rows EXCEPT ![u.id].every = u.every, ![u.id].enabled = u.enabled, ![u.id].due = u.due]
             ELSE rows
  /\ world' = [world EXCEPT !.update = None, !.answered[u.id] = 0, !.passed[u.id] = 0]

Delete(r) ==
  /\ Live(r) /\ MayHappen /\ rows' = [rows EXCEPT ![r] = None]
  /\ world' = [Event(world) EXCEPT !.passed[r] = 0] /\ UNCHANGED loop

\* A full run started by hand, and the cancel of any.
RunByHand ==
  /\ world.active = None /\ MayHappen /\ UNCHANGED <<rows, loop>>
  /\ world' = [Event(world) EXCEPT !.active = 0]
EndByHand ==
  /\ \/ world.active = 0 /\ world' = [world EXCEPT !.active = None]
     \/ world.active # None /\ MayHappen /\ world' = [Event(world) EXCEPT !.active = None]
  /\ UNCHANGED <<rows, loop>>

\* The loop, the tasks and the requests are gone; recovery has closed the active run.
Restart ==
  /\ MayHappen /\ loop' = Idle /\ UNCHANGED rows
  /\ world' = [Event(world) EXCEPT !.disturbed = TRUE, !.tasks = {}, !.active = None, !.update = None]

Next ==
  \/ Tick \/ CheckActive \/ Advance
  \/ \E t \in world.tasks :
       Start(t) \/ Write(t) \/ \E result \in {"succeeded", "failed"} : Finish(t, result)
  \/ Pass \/ UpdateWrites \/ RunByHand \/ EndByHand \/ Restart
  \/ \E r \in Row : Delete(r) \/ \E every \in Every, enabled \in BOOLEAN : Update(r, every, enabled)

Spec == Init /\ [][Next]_vars

-----------------------------------------------------------------------------
\* A schedule that says it is running has a task that will say how it ended, however
\* many tasks of it overlap.  (After a restart it may say so for ever.)
RunningHasTask ==
  ~world.disturbed => \A r \in Row : Live(r) /\ rows[r].last = "running" => \E t \in world.tasks : t.row = r

\* A row that is due is left out for no longer than the others need for one turn each,
\* however short their intervals are; an update may bring a row forward once more.
NoneStarves ==
  ~world.disturbed => \A r \in Row : world.passed[r] * Limit < Cardinality(Row) + world.updates

\* What was answered is not due again at the same tick, and after a halt of the loop a
\* schedule runs once, not once for each time it has missed.
AnsweredOnce ==
  \A r \in Row : Live(r) /\ world.answered[r] # 0 => rows[r].due > world.answered[r]

DueIsAnswered == RunningHasTask /\ NoneStarves /\ AnsweredOnce
=============================================================================
