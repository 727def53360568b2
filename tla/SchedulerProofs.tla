--------------------------- MODULE SchedulerProofs ---------------------------
(***************************************************************************)
(* Every schedule that is due is answered, and in its turn, for any number *)
(* of schedules, any intervals and any limit of the listing, and however   *)
(* often users change and delete schedules or run the workspace.           *)
(***************************************************************************)
EXTENDS Scheduler, FiniteSetTheorems, TLAPS

Results == {"succeeded", "failed"}

RowRecord ==
  [every : Every, due : Nat, enabled : BOOLEAN, last : {None, "skipped", "running"} \cup Results]

\* What the theorem asks of the constants: intervals are positive, and None is neither a
\* row nor the status of one that runs.
Quantities ==
  /\ IsFiniteSet(Row) /\ Limit \in Nat /\ Every \subseteq Nat \ {0}
  /\ None \notin RowRecord \cup {"running"}

-----------------------------------------------------------------------------
(* The invariant                                                           *)

Listed == [id : Row, every : Every]

TaskOK(t) ==
  /\ DOMAIN t = {"id", "row", "at", "result"}
  /\ t.row \in Row
  /\ t.at = "write" => t.result \in Results

WorldOK ==
  /\ DOMAIN world = {"time", "tasks", "active", "update", "answered", "passed", "updates",
                     "disturbed", "events"}
  /\ world.time \in Nat /\ world.updates \in Nat
  /\ world.answered \in [Row -> Nat] /\ world.passed \in [Row -> Nat]
  /\ world.update \in [id : Row, every : Every, enabled : BOOLEAN, due : Nat] \cup {None}
  /\ world.update # None => world.updates > 0
  /\ \A t \in world.tasks : TaskOK(t)

SchedulerTypeOK ==
  /\ rows \in [Row -> RowRecord \cup {None}]
  /\ loop \in [at : {"tick", "check", "advance"}, now : Nat, todo : Seq(Listed), active : BOOLEAN]
  /\ loop.at = "tick" <=> loop.todo = <<>>
  /\ WorldOK

\* The rows that the loop has listed and not yet answered, and those that may be listed
\* before r.
Todo == {loop.todo[i].id : i \in DOMAIN loop.todo}
Ahead(r) == {q \in Row \ {r} : Live(r) /\ Live(q) /\ rows[q].due <= rows[r].due}

\* An update that has still to be written may put one more row ahead of r.
Pending == IF world.update = None THEN 0 ELSE 1

\* Each listing that leaves r out takes Limit rows from those ahead of it, and they go
\* behind it when they are answered.
InTurn(r) ==
  /\ world.passed[r] * Limit + Cardinality(Ahead(r) \ Todo) + Pending
       < Cardinality(Row) + world.updates
  /\ world.passed[r] > 0 =>
       Live(r) /\ (loop.todo # <<>> => r \notin Todo /\ rows[r].due <= loop.now)

TurnInv == ~world.disturbed => \A r \in Row : InTurn(r)

SchedulerInv == SchedulerTypeOK /\ RunningHasTask /\ AnsweredOnce /\ TurnInv

-----------------------------------------------------------------------------
(* Types                                                                   *)

\* The fields of the world that a step replaces, and that all others stay.
LEMMA WorldFields ==
  ASSUME WorldOK
  PROVE  /\ DOMAIN Event(world) = DOMAIN world
         /\ DOMAIN Fault(world) = DOMAIN world
         /\ \A f \in DOMAIN world : f # "events" => Event(world)[f] = world[f]
         /\ \A f \in DOMAIN world : f \notin {"events", "disturbed"} => Fault(world)[f] = world[f]
         /\ Fault(world).disturbed = TRUE
BY DEF WorldOK, Event, Fault

\* A row that is answered, one whose task has ended, and one that a user changes.
LEMMA RowAnswered ==
  ASSUME NEW old \in RowRecord, NEW due \in Nat, NEW last \in {"skipped", "running"}
  PROVE  [old EXCEPT !.due = due, !.last = last] \in RowRecord
BY DEF RowRecord

LEMMA RowEnded ==
  ASSUME NEW old \in RowRecord, NEW last \in Results
  PROVE  [old EXCEPT !.last = last] \in RowRecord
BY DEF RowRecord

LEMMA RowUpdated ==
  ASSUME NEW old \in RowRecord, NEW every \in Every, NEW enabled \in BOOLEAN, NEW due \in Nat
  PROVE  [old EXCEPT !.every = every, !.enabled = enabled, !.due = due] \in RowRecord
BY DEF RowRecord

\* Listing: what is due, each once.
LEMMA ListingType ==
  ASSUME NEW now, NEW list \in Listings(now), IsFiniteSet(Row), Limit \in Nat
  PROVE  list \in Seq(DueAt(now)) /\ DueAt(now) \subseteq Row
<1> DEFINE due == DueAt(now)
           n == IF Cardinality(due) < Limit THEN Cardinality(due) ELSE Limit
<1>1. due \subseteq Row
  BY DEF DueAt
<1>2. n \in Nat
  BY <1>1, FS_Subset, FS_CardinalityType
<1>3. list \in [1..n -> due]
  BY DEF Listings
<1> HIDE DEF due, n
<1>4. QED
  BY <1>1, <1>2, <1>3 DEF due

LEMMA AtRowType ==
  ASSUME NEW l \in [at : {"tick", "check", "advance"}, now : Nat, todo : Seq(Listed), active : BOOLEAN]
  PROVE  /\ AtRow(l) \in [at : {"tick", "check", "advance"}, now : Nat, todo : Seq(Listed), active : BOOLEAN]
         /\ AtRow(l).todo = l.todo
         /\ l.at # "tick" => (AtRow(l).at = "tick" <=> l.todo = <<>>)
         /\ l.todo # <<>> => AtRow(l).now = l.now
BY DEF AtRow, Idle

LEMMA InitType ==
  ASSUME Quantities, Init
  PROVE  SchedulerTypeOK
<1>1. rows \in [Row -> RowRecord \cup {None}]
  BY DEF Init, Quantities, RowRecord, NextRun
<1>2. loop = Idle
  BY DEF Init
<1>3. WorldOK
  BY DEF Init, WorldOK
<1>4. QED
  BY <1>1, <1>2, <1>3 DEF SchedulerTypeOK, Idle

LEMMA TickType ==
  ASSUME Quantities, SchedulerTypeOK, Tick
  PROVE  SchedulerTypeOK'
<1>1. CASE UNCHANGED loop /\ world' = Fault(world)
  <2>1. WorldOK'
    BY <1>1 DEF SchedulerTypeOK, WorldOK, Fault, Event
  <2>2. QED
    BY <1>1, <2>1 DEF SchedulerTypeOK, Tick
<1>2. ASSUME NEW list \in Listings(world.time),
             loop' = AtRow([at |-> "check", now |-> world.time, active |-> FALSE,
                            todo |-> [i \in DOMAIN list |-> [id |-> list[i], every |-> rows[list[i]].every]]]),
             world' = [world EXCEPT !.passed = [r \in Row |->
               IF IsDue(r, world.time) /\ \A i \in DOMAIN list : list[i] # r THEN @[r] + 1 ELSE 0]]
      PROVE  SchedulerTypeOK'
  <2> DEFINE todo == [i \in DOMAIN list |-> [id |-> list[i], every |-> rows[list[i]].every]]
             l == [at |-> "check", now |-> world.time, active |-> FALSE, todo |-> todo]
  <2>1. list \in Seq(DueAt(world.time)) /\ DueAt(world.time) \subseteq Row
    BY ListingType DEF Quantities
  <2>2. \A r \in DueAt(world.time) : rows[r].every \in Every
    BY DEF DueAt, IsDue, Live, SchedulerTypeOK, RowRecord
  <2>3. todo \in Seq(Listed)
    <3>1. \A i \in DOMAIN list : [id |-> list[i], every |-> rows[list[i]].every] \in Listed
      BY <2>1, <2>2 DEF Listed
    <3>2. DOMAIN list = 1..Len(list) /\ Len(list) \in Nat
      BY <2>1
    <3> HIDE DEF todo
    <3>3. todo \in [1..Len(list) -> Listed]
      BY <3>1, <3>2 DEF todo
    <3>4. QED
      BY <3>2, <3>3
  <2>4. l \in [at : {"tick", "check", "advance"}, now : Nat, todo : Seq(Listed), active : BOOLEAN]
    BY <2>3 DEF SchedulerTypeOK, WorldOK
  <2>5. loop' = AtRow(l) /\ l.at # "tick"
    BY <1>2
  <2>6. loop' \in [at : {"tick", "check", "advance"}, now : Nat, todo : Seq(Listed), active : BOOLEAN]
        /\ (loop'.at = "tick" <=> loop'.todo = <<>>)
    <3> HIDE DEF l
    <3>1. QED
      BY <2>4, <2>5, AtRowType
  <2>7. WorldOK'
    BY <1>2 DEF SchedulerTypeOK, WorldOK
  <2>8. QED
    BY <2>6, <2>7 DEF SchedulerTypeOK, Tick
<1>3. QED
  BY <1>1, <1>2 DEF Tick

LEMMA CheckType ==
  ASSUME SchedulerTypeOK, CheckActive
  PROVE  SchedulerTypeOK'
<1>1. WorldOK'
  BY DEF SchedulerTypeOK, WorldOK, CheckActive, Fault, Event
<1>2. loop' = [loop EXCEPT !.at = "advance", !.active = loop'.active] /\ loop'.active \in BOOLEAN
  BY DEF SchedulerTypeOK, CheckActive
<1>3. QED
  BY <1>1, <1>2 DEF SchedulerTypeOK, CheckActive

\* What the loop is about to answer, and what is left of its list.
LEMMA RestOfList ==
  ASSUME SchedulerTypeOK, loop.at = "advance"
  PROVE  /\ Head(loop.todo) \in Listed
         /\ Rest(loop) \in [at : {"tick", "check", "advance"}, now : Nat, todo : Seq(Listed), active : BOOLEAN]
         /\ Rest(loop).at = "tick" <=> Rest(loop).todo = <<>>
         /\ Rest(loop).todo = Tail(loop.todo)
         /\ Rest(loop).todo # <<>> => Rest(loop).now = loop.now
<1> DEFINE l == [loop EXCEPT !.todo = Tail(@)]
<1>1. loop.todo \in Seq(Listed) /\ loop.todo # <<>>
  BY DEF SchedulerTypeOK
<1>2. Head(loop.todo) \in Listed /\ Tail(loop.todo) \in Seq(Listed)
  BY <1>1
<1>3. /\ l \in [at : {"tick", "check", "advance"}, now : Nat, todo : Seq(Listed), active : BOOLEAN]
      /\ l.todo = Tail(loop.todo) /\ l.at # "tick" /\ l.now = loop.now
  BY <1>2 DEF SchedulerTypeOK
<1>4. Rest(loop) = AtRow(l)
  BY DEF Rest
<1> HIDE DEF l
<1>5. QED
  BY <1>2, <1>3, <1>4, AtRowType

LEMMA AdvanceType ==
  ASSUME Quantities, SchedulerTypeOK, Advance
  PROVE  SchedulerTypeOK'
<1> DEFINE row == Head(loop.todo)
<1>1. /\ row \in Listed /\ loop' = Rest(loop)
      /\ loop' \in [at : {"tick", "check", "advance"}, now : Nat, todo : Seq(Listed), active : BOOLEAN]
      /\ loop'.at = "tick" <=> loop'.todo = <<>>
  BY RestOfList DEF Advance
<1>2. row.id \in Row /\ row.every \in Every /\ row.every \in Nat /\ loop.now \in Nat
  BY <1>1 DEF Listed, Quantities, SchedulerTypeOK
<1>3. CASE UNCHANGED rows /\ world' = Fault(world)
  <2>1. WorldOK'
    BY <1>3 DEF SchedulerTypeOK, WorldOK, Fault, Event
  <2>2. QED
    BY <1>1, <1>3, <2>1 DEF SchedulerTypeOK
<1>4. ASSUME rows' = [rows EXCEPT ![row.id] =
               IF @ = None THEN None
               ELSE [@ EXCEPT !.due = NextRun(row.every, loop.now),
                              !.last = IF loop.active THEN "skipped" ELSE "running"]],
             world' = [world EXCEPT
             !.answered[row.id] = loop.now,
             !.tasks = IF loop.active THEN @
                       ELSE @ \cup {[id |-> Unused, row |-> row.id, at |-> "start", result |-> None]}]
      PROVE  SchedulerTypeOK'
  <2> HIDE DEF row
  <2>1. rows' \in [Row -> RowRecord \cup {None}]
    <3> DEFINE new == [rows[row.id] EXCEPT !.due = NextRun(row.every, loop.now),
                                           !.last = IF loop.active THEN "skipped" ELSE "running"]
    <3>1. NextRun(row.every, loop.now) \in Nat
      BY <1>2 DEF NextRun
    <3>2. rows[row.id] # None => new \in RowRecord
      <4>1. rows[row.id] # None => rows[row.id] \in RowRecord
        BY <1>2 DEF SchedulerTypeOK
      <4>2. QED
        BY <3>1, <4>1, RowAnswered
    <3>3. rows' = [rows EXCEPT ![row.id] = IF rows[row.id] = None THEN None ELSE new]
      BY <1>4
    <3> HIDE DEF new
    <3>4. QED
      BY <1>2, <3>2, <3>3 DEF SchedulerTypeOK
  <2>2. \A t \in world'.tasks : TaskOK(t)
    BY <1>2, <1>4 DEF SchedulerTypeOK, WorldOK, TaskOK
  <2>3. WorldOK'
    BY <1>2, <1>4, <2>2 DEF SchedulerTypeOK, WorldOK
  <2>4. QED
    BY <1>1, <2>1, <2>3 DEF SchedulerTypeOK
<1>5. QED
  BY <1>3, <1>4 DEF Advance

\* A task that goes on stays a task of the same schedule.
LEMMA TaskGoesOn ==
  ASSUME SchedulerTypeOK, NEW t \in world.tasks, NEW at, NEW result, at = "write" => result \in Results
  PROVE  /\ TaskOK([t EXCEPT !.at = at, !.result = result])
         /\ [t EXCEPT !.at = at, !.result = result].row = t.row
         /\ at # "write" => TaskOK([t EXCEPT !.at = at]) /\ [t EXCEPT !.at = at].row = t.row
BY DEF SchedulerTypeOK, WorldOK, TaskOK

\* What the steps of tasks, users and the clock do to the world.
LEMMA StartType ==
  ASSUME SchedulerTypeOK, NEW t \in world.tasks, Start(t)
  PROVE  /\ SchedulerTypeOK'
         /\ \E u : u.row = t.row /\ world'.tasks = (world.tasks \ {t}) \cup {u}
         /\ UNCHANGED <<rows, loop, world.answered, world.passed, world.update, world.updates, world.disturbed>>
<1>1. PICK u : /\ TaskOK(u) /\ u.row = t.row
               /\ \/ world' = [To(t, u) EXCEPT !.active = t.id]
                  \/ world' = To(t, u)
  <2>1. TaskOK([t EXCEPT !.at = "run"]) /\ [t EXCEPT !.at = "run"].row = t.row
    BY TaskGoesOn
  <2>2. /\ TaskOK([t EXCEPT !.at = "write", !.result = "failed"])
        /\ [t EXCEPT !.at = "write", !.result = "failed"].row = t.row
    BY TaskGoesOn DEF Results
  <2>3. QED
    BY <2>1, <2>2 DEF Start, Ends
<1>2. /\ world'.tasks = (world.tasks \ {t}) \cup {u}
      /\ UNCHANGED <<world.answered, world.passed, world.update, world.updates, world.disturbed, world.time>>
      /\ DOMAIN world' = DOMAIN world
  BY <1>1 DEF To, SchedulerTypeOK, WorldOK
<1>3. WorldOK'
  BY <1>1, <1>2 DEF SchedulerTypeOK, WorldOK
<1>4. QED
  BY <1>1, <1>2, <1>3 DEF Start, SchedulerTypeOK

LEMMA FinishType ==
  ASSUME SchedulerTypeOK, NEW t \in world.tasks, NEW result \in Results, Finish(t, result)
  PROVE  /\ SchedulerTypeOK'
         /\ \E u : u.row = t.row /\ world'.tasks = (world.tasks \ {t}) \cup {u}
         /\ UNCHANGED <<rows, loop, world.answered, world.passed, world.update, world.updates, world.disturbed>>
<1> DEFINE u == [t EXCEPT !.at = "write", !.result = result]
<1>1. TaskOK(u) /\ u.row = t.row
  BY TaskGoesOn
<1>2. world' = [To(t, u) EXCEPT !.active = IF @ = t.id THEN None ELSE @]
  BY DEF Finish, Ends
<1> HIDE DEF u
<1>3. /\ world'.tasks = (world.tasks \ {t}) \cup {u}
      /\ UNCHANGED <<world.answered, world.passed, world.update, world.updates, world.disturbed, world.time>>
      /\ DOMAIN world' = DOMAIN world
  BY <1>2 DEF To, SchedulerTypeOK, WorldOK
<1>4. WorldOK'
  BY <1>1, <1>3 DEF SchedulerTypeOK, WorldOK
<1>5. QED
  BY <1>1, <1>3, <1>4 DEF Finish, SchedulerTypeOK

LEMMA WriteType ==
  ASSUME SchedulerTypeOK, NEW t \in world.tasks, Write(t)
  PROVE  SchedulerTypeOK'
<1>1. /\ world'.tasks = world.tasks \ {t} /\ DOMAIN world' = DOMAIN world
      /\ UNCHANGED <<world.answered, world.passed, world.update, world.updates, world.time>>
  <2>1. CASE world' = [world EXCEPT !.tasks = @ \ {t}]
    BY <2>1 DEF SchedulerTypeOK, WorldOK
  <2>2. CASE world' = [Fault(world) EXCEPT !.tasks = @ \ {t}]
    BY <2>2, WorldFields DEF SchedulerTypeOK, WorldOK
  <2>3. QED
    BY <2>1, <2>2 DEF Write
<1>2. ASSUME rows' = [rows EXCEPT ![t.row] = IF @ = None THEN None ELSE [@ EXCEPT !.last = t.result]],
             t.at = "write"
      PROVE  rows' \in [Row -> RowRecord \cup {None}]
  <2> DEFINE new == [rows[t.row] EXCEPT !.last = t.result]
  <2>1. t.row \in Row /\ t.result \in Results
    BY <1>2 DEF SchedulerTypeOK, WorldOK, TaskOK
  <2>2. rows[t.row] # None => new \in RowRecord
    <3>1. rows[t.row] # None => rows[t.row] \in RowRecord
      BY <2>1 DEF SchedulerTypeOK
    <3>2. QED
      BY <2>1, <3>1, RowEnded
  <2>3. rows' = [rows EXCEPT ![t.row] = IF rows[t.row] = None THEN None ELSE new]
    BY <1>2
  <2> HIDE DEF new
  <2>4. QED
    BY <2>1, <2>2, <2>3 DEF SchedulerTypeOK
<1>3. rows' \in [Row -> RowRecord \cup {None}]
  BY <1>2 DEF Write, SchedulerTypeOK
<1>4. WorldOK'
  BY <1>1 DEF SchedulerTypeOK, WorldOK
<1>5. QED
  BY <1>3, <1>4 DEF SchedulerTypeOK, Write

LEMMA UpdateType ==
  ASSUME Quantities, SchedulerTypeOK,
         NEW r \in Row, NEW every \in Every, NEW enabled \in BOOLEAN, Update(r, every, enabled)
  PROVE  SchedulerTypeOK'
<1>1. NextRun(every, world.time) \in Nat
  <2>1. every \in Nat /\ world.time \in Nat
    BY DEF Quantities, SchedulerTypeOK, WorldOK
  <2>2. QED
    BY <2>1 DEF NextRun
<1>2. WorldOK'
  BY <1>1 DEF SchedulerTypeOK, WorldOK, Update, Event
<1>3. QED
  BY <1>2 DEF SchedulerTypeOK, Update

LEMMA UpdateWritesType ==
  ASSUME SchedulerTypeOK, UpdateWrites
  PROVE  SchedulerTypeOK'
<1> DEFINE u == world.update
<1>1. u \in [id : Row, every : Every, enabled : BOOLEAN, due : Nat]
  BY DEF SchedulerTypeOK, WorldOK, UpdateWrites
<1>2. WorldOK'
  BY <1>1 DEF SchedulerTypeOK, WorldOK, UpdateWrites
<1>3. ASSUME Live(u.id),
             rows' = [rows EXCEPT ![u.id].every = u.every, ![u.id].enabled = u.enabled, ![u.id].due = u.due]
      PROVE  rows' \in [Row -> RowRecord \cup {None}]
  <2> DEFINE new == [rows[u.id] EXCEPT !.every = u.every, !.enabled = u.enabled, !.due = u.due]
  <2>1. new \in RowRecord
    <3>1. rows[u.id] \in RowRecord
      BY <1>1, <1>3 DEF SchedulerTypeOK, Live
    <3>2. u.every \in Every /\ u.enabled \in BOOLEAN /\ u.due \in Nat
      BY <1>1
    <3> DEFINE old == rows[u.id]
               every == u.every
               enabled == u.enabled
               due == u.due
    <3>3. old \in RowRecord /\ every \in Every /\ enabled \in BOOLEAN /\ due \in Nat
      BY <3>1, <3>2
    <3>4. new = [old EXCEPT !.every = every, !.enabled = enabled, !.due = due]
      OBVIOUS
    <3> HIDE DEF old, every, enabled, due
    <3>5. [old EXCEPT !.every = every, !.enabled = enabled, !.due = due] \in RowRecord
      BY <3>3, RowUpdated
    <3> HIDE DEF new
    <3>6. QED
      BY <3>4, <3>5
  <2>2. rows' = [rows EXCEPT ![u.id] = new]
    BY <1>1, <1>3 DEF SchedulerTypeOK
  <2> HIDE DEF new
  <2>3. QED
    BY <1>1, <2>1, <2>2 DEF SchedulerTypeOK
<1>4. rows' \in [Row -> RowRecord \cup {None}]
  BY <1>3 DEF UpdateWrites, SchedulerTypeOK
<1>5. QED
  BY <1>2, <1>4 DEF SchedulerTypeOK, UpdateWrites

LEMMA OtherType ==
  ASSUME SchedulerTypeOK,
         Pass \/ RunByHand \/ EndByHand \/ Restart \/ \E r \in Row : Delete(r)
  PROVE  SchedulerTypeOK'
<1>1. CASE Pass
  BY <1>1 DEF SchedulerTypeOK, WorldOK, Pass
<1>2. CASE RunByHand \/ EndByHand
  BY <1>2 DEF SchedulerTypeOK, WorldOK, RunByHand, EndByHand, Event
<1>3. CASE Restart
  <2>1. WorldOK'
    BY <1>3 DEF SchedulerTypeOK, WorldOK, Restart, Event
  <2>2. QED
    BY <1>3, <2>1 DEF SchedulerTypeOK, Restart, Idle
<1>4. ASSUME NEW r \in Row, Delete(r) PROVE SchedulerTypeOK'
  <2>1. WorldOK'
    BY <1>4 DEF SchedulerTypeOK, WorldOK, Delete, Event
  <2>2. QED
    BY <1>4, <2>1 DEF SchedulerTypeOK, Delete
<1>5. QED
  BY <1>1, <1>2, <1>3, <1>4

-----------------------------------------------------------------------------
(* What a step leaves alone                                                *)

\* The steps of tasks, users and the clock change neither when a schedule is due nor
\* what the loop has listed.
SameTurns ==
  /\ \A r \in Row : Live(r)' = Live(r) /\ (Live(r) => rows'[r].due = rows[r].due)
  /\ loop'.todo = loop.todo /\ loop'.now = loop.now
  /\ UNCHANGED <<world.answered, world.passed, world.update, world.updates>>
  /\ world.disturbed => world'.disturbed

\* A step that fails is no more than a step that changes nothing.
Failed == UNCHANGED rows /\ world'.answered = world.answered /\ world'.disturbed

LEMMA WriteLeaves ==
  ASSUME Quantities, SchedulerTypeOK, NEW t \in world.tasks, Write(t)
  PROVE  /\ world'.tasks = world.tasks \ {t}
         /\ \A r \in Row : /\ Live(r)' = Live(r)
                           /\ Live(r) => rows'[r].due = rows[r].due
                           /\ Live(r) /\ ~world'.disturbed => rows'[r].last = IF t.row = r THEN t.result ELSE rows[r].last
         /\ UNCHANGED <<loop, world.answered, world.passed, world.update, world.updates>>
         /\ world.disturbed => world'.disturbed
<1>1. t.row \in Row /\ t.result \in Results
  BY DEF SchedulerTypeOK, WorldOK, TaskOK, Write
<1>2. CASE /\ rows' = [rows EXCEPT ![t.row] = IF @ = None THEN None ELSE [@ EXCEPT !.last = t.result]]
           /\ world' = [world EXCEPT !.tasks = @ \ {t}]
  <2>1. /\ world'.tasks = world.tasks \ {t}
        /\ UNCHANGED <<world.answered, world.passed, world.update, world.updates, world.disturbed>>
    BY <1>2 DEF SchedulerTypeOK, WorldOK
  <2>2. ASSUME NEW r \in Row, r # t.row \/ rows[r] = None
        PROVE  rows'[r] = rows[r]
    BY <1>2, <2>2 DEF SchedulerTypeOK
  <2>3. ASSUME rows[t.row] # None
        PROVE  /\ rows'[t.row] = [rows[t.row] EXCEPT !.last = t.result]
               /\ rows'[t.row] \in RowRecord
               /\ rows'[t.row].due = rows[t.row].due /\ rows'[t.row].last = t.result
    BY <1>1, <1>2, <2>3 DEF SchedulerTypeOK, RowRecord
  <2>4. ASSUME rows[t.row] # None PROVE rows'[t.row] # None
    BY <2>3, <2>4 DEF Quantities
  <2>5. QED
    BY <1>1, <2>1, <2>2, <2>3, <2>4 DEF Live, Write
<1>3. CASE world' = [Fault(world) EXCEPT !.tasks = @ \ {t}] /\ UNCHANGED rows
  <2>1. /\ world'.tasks = world.tasks \ {t}
        /\ UNCHANGED <<world.answered, world.passed, world.update, world.updates>>
        /\ world'.disturbed = TRUE
    BY <1>3, WorldFields DEF SchedulerTypeOK, WorldOK
  <2>2. QED
    BY <1>3, <2>1 DEF Live, Write
<1>4. QED
  BY <1>2, <1>3 DEF Write

LEMMA AdvanceDoes ==
  ASSUME Quantities, SchedulerTypeOK, Advance
  PROVE  LET row == Head(loop.todo) IN
         \/ Failed
         \/ /\ \A r \in Row : Live(r)' = Live(r) /\ (r # row.id => rows'[r] = rows[r])
            /\ Live(row.id) => /\ rows'[row.id].due > loop.now
                               /\ rows'[row.id].last = IF loop.active THEN "skipped" ELSE "running"
            /\ world'.answered = [world.answered EXCEPT ![row.id] = loop.now]
            /\ UNCHANGED <<world.passed, world.update, world.updates, world.disturbed>>
            /\ world.tasks \subseteq world'.tasks
            /\ ~loop.active => \E t \in world'.tasks : t.row = row.id
<1> DEFINE row == Head(loop.todo)
<1>1. row.id \in Row /\ row.every \in Nat \ {0} /\ loop.now \in Nat
  BY RestOfList DEF Advance, Listed, Quantities, SchedulerTypeOK
<1>2. CASE UNCHANGED rows /\ world' = Fault(world)
  BY <1>2, WorldFields DEF SchedulerTypeOK, WorldOK, Failed
<1>3. CASE /\ rows' = [rows EXCEPT ![row.id] =
                IF @ = None THEN None
                ELSE [@ EXCEPT !.due = NextRun(row.every, loop.now),
                               !.last = IF loop.active THEN "skipped" ELSE "running"]]
           /\ world' = [world EXCEPT
                !.answered[row.id] = loop.now,
                !.tasks = IF loop.active THEN @
                          ELSE @ \cup {[id |-> Unused, row |-> row.id, at |-> "start", result |-> None]}]
  <2> HIDE DEF row
  <2>1. /\ world'.answered = [world.answered EXCEPT ![row.id] = loop.now]
        /\ UNCHANGED <<world.passed, world.update, world.updates, world.disturbed>>
        /\ world'.tasks = IF loop.active THEN world.tasks
             ELSE world.tasks \cup {[id |-> Unused, row |-> row.id, at |-> "start", result |-> None]}
    BY <1>3 DEF SchedulerTypeOK, WorldOK
  <2>2. NextRun(row.every, loop.now) \in Nat /\ NextRun(row.every, loop.now) > loop.now
    BY <1>1 DEF NextRun
  <2>3. ASSUME NEW r \in Row, r # row.id \/ rows[r] = None
        PROVE  rows'[r] = rows[r]
    BY <1>3, <2>3 DEF SchedulerTypeOK
  <2>4. ASSUME rows[row.id] # None
        PROVE  /\ rows'[row.id].due = NextRun(row.every, loop.now)
               /\ rows'[row.id].last = IF loop.active THEN "skipped" ELSE "running"
               /\ rows'[row.id] # None
    <3> DEFINE new == [rows[row.id] EXCEPT !.due = NextRun(row.every, loop.now),
                                           !.last = IF loop.active THEN "skipped" ELSE "running"]
    <3>1. /\ new \in RowRecord /\ new.due = NextRun(row.every, loop.now)
          /\ new.last = IF loop.active THEN "skipped" ELSE "running"
      <4>1. rows[row.id] \in RowRecord
        BY <1>1, <2>4 DEF SchedulerTypeOK, row
      <4> DEFINE due == NextRun(row.every, loop.now)
                 last == IF loop.active THEN "skipped" ELSE "running"
                 old == rows[row.id]
      <4>2. due \in Nat /\ last \in {"skipped", "running"} /\ old \in RowRecord
        BY <2>2, <4>1
      <4>3. new = [old EXCEPT !.due = due, !.last = last]
        OBVIOUS
      <4> HIDE DEF due, last, old
      <4>4. [old EXCEPT !.due = due, !.last = last] \in RowRecord
        BY <4>2, RowAnswered
      <4>5. [old EXCEPT !.due = due, !.last = last].due = due
        BY <4>2 DEF RowRecord
      <4>6. [old EXCEPT !.due = due, !.last = last].last = last
        BY <4>2 DEF RowRecord
      <4> HIDE DEF new
      <4>7. QED
        BY <4>3, <4>4, <4>5, <4>6 DEF due, last
    <3>2. rows'[row.id] = new
      BY <1>1, <1>3, <2>4 DEF SchedulerTypeOK
    <3> HIDE DEF new
    <3>3. QED
      BY <3>1, <3>2 DEF Quantities
  <2>5. \A r \in Row : Live(r)' = Live(r)
    BY <2>3, <2>4 DEF Live
  <2>6. ~loop.active => \E t \in world'.tasks : t.row = row.id
    <3> DEFINE t == [id |-> Unused, row |-> row.id, at |-> "start", result |-> None]
    <3>1. t.row = row.id /\ (~loop.active => t \in world'.tasks)
      BY <2>1
    <3> HIDE DEF t
    <3>2. QED
      BY <3>1
  <2>7. QED
    BY <2>1, <2>2, <2>3, <2>4, <2>5, <2>6 DEF Live, row
<1>4. QED
  BY <1>2, <1>3 DEF Advance

LEMMA UpdateWritesDoes ==
  ASSUME Quantities, SchedulerTypeOK, UpdateWrites
  PROVE  LET u == world.update IN
         /\ u.id \in Row /\ u # None
         /\ \A r \in Row : /\ Live(r)' = Live(r)
                           /\ r # u.id => rows'[r] = rows[r]
                           /\ Live(r) => rows'[r].last = rows[r].last
         /\ world'.answered = [world.answered EXCEPT ![u.id] = 0]
         /\ world'.passed = [world.passed EXCEPT ![u.id] = 0]
         /\ world'.update = None
         /\ UNCHANGED <<loop, world.tasks, world.updates, world.disturbed>>
<1> DEFINE u == world.update
<1>1. u \in [id : Row, every : Every, enabled : BOOLEAN, due : Nat] /\ u # None
  BY DEF SchedulerTypeOK, WorldOK, UpdateWrites
<1>2. /\ world'.answered = [world.answered EXCEPT ![u.id] = 0]
      /\ world'.passed = [world.passed EXCEPT ![u.id] = 0]
      /\ world'.update = None
      /\ UNCHANGED <<loop, world.tasks, world.updates, world.disturbed>>
  BY <1>1 DEF SchedulerTypeOK, WorldOK, UpdateWrites
<1>3. CASE Live(u.id)
  <2> DEFINE new == [rows[u.id] EXCEPT !.every = u.every, !.enabled = u.enabled, !.due = u.due]
  <2>1. new \in RowRecord /\ new.last = rows[u.id].last
    <3>1. rows[u.id] \in RowRecord
      BY <1>1, <1>3 DEF SchedulerTypeOK, Live
    <3>2. u.every \in Every /\ u.enabled \in BOOLEAN /\ u.due \in Nat
      BY <1>1
    <3> DEFINE old == rows[u.id]
               every == u.every
               enabled == u.enabled
               due == u.due
    <3>3. old \in RowRecord /\ every \in Every /\ enabled \in BOOLEAN /\ due \in Nat
      BY <3>1, <3>2
    <3>4. new = [old EXCEPT !.every = every, !.enabled = enabled, !.due = due]
      OBVIOUS
    <3> HIDE DEF old, every, enabled, due
    <3>5. [old EXCEPT !.every = every, !.enabled = enabled, !.due = due] \in RowRecord
      BY <3>3, RowUpdated
    <3>6. [old EXCEPT !.every = every, !.enabled = enabled, !.due = due].last = old.last
      BY <3>3 DEF RowRecord
    <3> HIDE DEF new
    <3>7. QED
      BY <3>4, <3>5, <3>6 DEF old
  <2>2. rows' = [rows EXCEPT ![u.id] = new]
    BY <1>1, <1>3 DEF SchedulerTypeOK, UpdateWrites
  <2> HIDE DEF new
  <2>3. rows'[u.id] = new /\ \A r \in Row : r # u.id => rows'[r] = rows[r]
    BY <1>1, <2>2 DEF SchedulerTypeOK
  <2>4. QED
    BY <1>1, <1>2, <1>3, <2>1, <2>3 DEF Live, Quantities
<1>4. CASE ~Live(u.id)
  BY <1>1, <1>2, <1>4 DEF UpdateWrites, Live
<1>5. QED
  BY <1>3, <1>4

LEMMA DeleteDoes ==
  ASSUME SchedulerTypeOK, NEW r \in Row, Delete(r)
  PROVE  /\ rows'[r] = None /\ \A q \in Row : q # r => rows'[q] = rows[q]
         /\ world'.passed = [world.passed EXCEPT ![r] = 0]
         /\ UNCHANGED <<loop, world.tasks, world.answered, world.update, world.updates, world.disturbed>>
BY DEF SchedulerTypeOK, WorldOK, Delete, Event

LEMMA UpdateDoes ==
  ASSUME SchedulerTypeOK, NEW r \in Row, NEW every \in Every, NEW enabled \in BOOLEAN,
         Update(r, every, enabled)
  PROVE  /\ UNCHANGED <<rows, loop, world.tasks, world.answered, world.passed, world.disturbed>>
         /\ world'.updates = world.updates + 1 /\ world.update = None
BY DEF SchedulerTypeOK, WorldOK, Update, Event

LEMMA CheckDoes ==
  ASSUME SchedulerTypeOK, CheckActive
  PROVE  /\ loop'.todo = loop.todo /\ loop'.now = loop.now
         /\ UNCHANGED <<rows, world.tasks, world.answered, world.passed, world.update, world.updates>>
         /\ world.disturbed => world'.disturbed
BY WorldFields DEF SchedulerTypeOK, WorldOK, CheckActive

LEMMA OthersDo ==
  ASSUME SchedulerTypeOK
  PROVE  /\ Pass \/ RunByHand \/ EndByHand =>
              UNCHANGED <<rows, loop, world.tasks, world.answered, world.passed, world.update,
                          world.updates, world.disturbed>>
         /\ Restart => Failed
BY DEF SchedulerTypeOK, WorldOK, Pass, RunByHand, EndByHand, Restart, Event, Failed

-----------------------------------------------------------------------------
(* Two parts of the invariant                                              *)

\* The loop answers a row with a time after the tick it read.
LEMMA AnsweredStep ==
  ASSUME Quantities, SchedulerTypeOK, SchedulerTypeOK', AnsweredOnce, Next
  PROVE  AnsweredOnce'
<1>1. ASSUME UNCHANGED world.answered,
             \A r \in Row : Live(r)' => Live(r) /\ rows'[r].due = rows[r].due
      PROVE  AnsweredOnce'
  BY <1>1 DEF AnsweredOnce
<1>2. CASE Tick
  <2>1. UNCHANGED <<rows, world.answered>>
    BY <1>2, WorldFields DEF Tick, SchedulerTypeOK, WorldOK
  <2>2. QED
    BY <1>1, <2>1 DEF Live
<1>3. CASE CheckActive
  BY <1>1, <1>3, CheckDoes DEF Live
<1>4. CASE Advance
  <2>1. Head(loop.todo).id \in Row
    BY <1>4, RestOfList DEF Advance, Listed
  <2>2. QED
    BY <1>1, <1>4, <2>1, AdvanceDoes DEF Failed, Live, AnsweredOnce, SchedulerTypeOK, WorldOK
<1>5. CASE \E t \in world.tasks : Start(t) \/ \E result \in {"succeeded", "failed"} : Finish(t, result)
  BY <1>1, <1>5, StartType, FinishType DEF Results, Live
<1>6. CASE \E t \in world.tasks : Write(t)
  BY <1>1, <1>6, WriteLeaves
<1>7. CASE Pass \/ RunByHand \/ EndByHand \/ Restart
  BY <1>1, <1>7, OthersDo DEF Failed, Live
<1>8. CASE UpdateWrites
  BY <1>8, UpdateWritesDoes DEF AnsweredOnce, SchedulerTypeOK, WorldOK, Live
<1>9. CASE \E r \in Row : Delete(r)
  BY <1>1, <1>9, DeleteDoes DEF Live
<1>10. CASE \E r \in Row, every \in Every, enabled \in BOOLEAN : Update(r, every, enabled)
  BY <1>1, <1>10, UpdateDoes DEF Live
<1>11. QED
  BY <1>2, <1>3, <1>4, <1>5, <1>6, <1>7, <1>8, <1>9, <1>10 DEF Next

\* A task leaves the set only when it writes how it ended, over every task of the row.
LEMMA RunningStep ==
  ASSUME Quantities, SchedulerTypeOK, RunningHasTask, Next
  PROVE  RunningHasTask'
<1>1. ASSUME world.disturbed => world'.disturbed,
             \A r \in Row : Live(r)' /\ rows'[r].last = "running" => Live(r) /\ rows[r].last = "running",
             \A t \in world.tasks : \E u \in world'.tasks : u.row = t.row
      PROVE  RunningHasTask'
  BY <1>1 DEF RunningHasTask
<1>2. CASE Tick
  <2>1. UNCHANGED <<rows, world.tasks>> /\ (world.disturbed => world'.disturbed)
    BY <1>2, WorldFields DEF Tick, SchedulerTypeOK, WorldOK
  <2>2. QED
    BY <1>1, <2>1 DEF Live
<1>3. CASE CheckActive
  BY <1>1, <1>3, CheckDoes DEF Live
<1>4. CASE Advance
  <2>1. Head(loop.todo).id \in Row
    BY <1>4, RestOfList DEF Advance, Listed
  <2>2. QED
    BY <1>4, <2>1, AdvanceDoes DEF Failed, Live, RunningHasTask
<1>5. CASE \E t \in world.tasks : Start(t) \/ \E result \in {"succeeded", "failed"} : Finish(t, result)
  BY <1>1, <1>5, StartType, FinishType DEF Results, Live
<1>6. ASSUME NEW t \in world.tasks, Write(t)
      PROVE  RunningHasTask'
  <2>1. t.result # "running"
    BY <1>6 DEF Write, SchedulerTypeOK, WorldOK, TaskOK, Results
  <2>2. QED
    BY <1>6, <2>1, WriteLeaves DEF RunningHasTask
<1>7. CASE Pass \/ RunByHand \/ EndByHand \/ Restart
  BY <1>1, <1>7, OthersDo DEF Failed, Live, RunningHasTask
<1>8. CASE UpdateWrites
  BY <1>1, <1>8, UpdateWritesDoes
<1>9. CASE \E r \in Row : Delete(r)
  BY <1>1, <1>9, DeleteDoes DEF Live
<1>10. CASE \E r \in Row, every \in Every, enabled \in BOOLEAN : Update(r, every, enabled)
  BY <1>1, <1>10, UpdateDoes DEF Live
<1>11. QED
  BY <1>2, <1>3, <1>4, <1>5, <1>6, <1>7, <1>8, <1>9, <1>10 DEF Next

-----------------------------------------------------------------------------
(* Turns                                                                   *)

\* A row that is due and not listed has Limit rows listed in front of it.
LEMMA ListedAhead ==
  ASSUME Quantities, NEW now, NEW list \in Listings(now),
         NEW r \in DueAt(now), \A i \in DOMAIN list : list[i] # r
  PROVE  /\ {list[i] : i \in DOMAIN list} \subseteq Ahead(r)
         /\ Cardinality({list[i] : i \in DOMAIN list}) = Limit
<1> DEFINE due == DueAt(now)
           n == IF Cardinality(due) < Limit THEN Cardinality(due) ELSE Limit
           S == {list[i] : i \in DOMAIN list}
<1>1. due \subseteq Row /\ IsFiniteSet(due) /\ Cardinality(due) \in Nat /\ Limit \in Nat
  <2>1. due \subseteq Row
    BY DEF DueAt
  <2>2. QED
    BY <2>1, FS_Subset, FS_CardinalityType DEF Quantities
<1>2. n \in Nat /\ list \in [1..n -> due]
  BY <1>1 DEF Listings
<1>3. /\ \A i, j \in 1..n : i < j => list[i] # list[j]
      /\ \A q \in due, i \in 1..n : (\A j \in 1..n : list[j] # q) => rows[list[i]].due <= rows[q].due
  BY DEF Listings
<1>4. S \subseteq due \ {r} /\ DOMAIN list = 1..n
  <2> HIDE DEF n, due
  <2>1. QED
    BY <1>2
<1>5. S \subseteq Ahead(r)
  <2>1. ASSUME NEW i \in DOMAIN list
        PROVE  list[i] \in Ahead(r)
    <3>1. rows[list[i]].due <= rows[r].due
      <4> HIDE DEF n
      <4>1. QED
        BY <1>3, <1>4
    <3>2. list[i] \in due \ {r}
      BY <1>4
    <3>3. QED
      BY <1>1, <3>1, <3>2 DEF Ahead, DueAt, IsDue
  <2>2. QED
    BY <2>1
<1>6. Cardinality(S) = n /\ IsFiniteSet(S)
  <2> HIDE DEF n
  <2>1. list \in [1..n -> S]
    BY <1>2
  <2>2. list \in Surjection(1..n, S)
    <3>1. \A q \in S : \E i \in 1..n : list[i] = q
      BY <1>4
    <3>2. QED
      BY <2>1, <3>1 DEF Surjection
  <2>3. \A i, j \in 1..n : list[i] = list[j] => i = j
    <3>1. \A i, j \in 1..n : i # j => i < j \/ j < i
      BY <1>2
    <3>2. QED
      BY <1>3, <3>1
  <2>4. list \in Injection(1..n, S)
    BY <2>1, <2>3 DEF Injection, IsInjective
  <2>5. IsFiniteSet(1..n) /\ Cardinality(1..n) = n
    BY <1>2, FS_Interval
  <2> HIDE DEF S
  <2>6. QED
    BY <2>2, <2>4, <2>5, FS_Surjection
<1>7. n = Limit
  <2>1. Cardinality(S) <= Cardinality(due) /\ (Cardinality(S) = Cardinality(due) => S = due)
    <3> HIDE DEF S, due
    <3>1. S \in SUBSET due
      BY <1>4
    <3>2. QED
      BY <1>1, <3>1, FS_Subset
  <2>2. S # due
    BY <1>4
  <2> HIDE DEF S, due
  <2>3. QED
    BY <1>1, <1>6, <2>1, <2>2
<1>8. QED
  BY <1>5, <1>6, <1>7

LEMMA AheadCount ==
  ASSUME Quantities, NEW r \in Row
  PROVE  /\ IsFiniteSet(Ahead(r)) /\ IsFiniteSet(Ahead(r) \ Todo)
         /\ Cardinality(Ahead(r)) \in Nat /\ Cardinality(Ahead(r) \ Todo) \in Nat
         /\ Cardinality(Row) \in Nat
         /\ Cardinality(Ahead(r) \ Todo) < Cardinality(Row)
<1>1. Ahead(r) \ Todo \subseteq Row \ {r} /\ Ahead(r) \subseteq Row
  BY DEF Ahead
<1>2. /\ IsFiniteSet(Row) /\ IsFiniteSet(Row \ {r}) /\ Cardinality(Row \ {r}) = Cardinality(Row) - 1
      /\ Cardinality(Row) \in Nat
  BY FS_RemoveElement, FS_CardinalityType DEF Quantities
<1>3. IsFiniteSet(Ahead(r)) /\ IsFiniteSet(Ahead(r) \ Todo)
  BY <1>1, <1>2, FS_Subset
<1>4. Cardinality(Ahead(r) \ Todo) <= Cardinality(Row \ {r})
  BY <1>1, <1>2, FS_Subset
<1>5. Cardinality(Ahead(r)) \in Nat /\ Cardinality(Ahead(r) \ Todo) \in Nat
  BY <1>3, FS_CardinalityType
<1>6. QED
  BY <1>2, <1>3, <1>4, <1>5

\* A row that no listing has left out is in its turn, whatever the others do.
LEMMA FreshInTurn ==
  ASSUME Quantities, SchedulerTypeOK, NEW r \in Row, world.passed[r] = 0
  PROVE  InTurn(r)
<1>1. world.passed[r] * Limit = 0
  BY DEF Quantities
<1>2. Pending \in Nat /\ world.updates \in Nat /\ Pending <= world.updates
  BY DEF Pending, SchedulerTypeOK, WorldOK
<1>3. QED
  BY <1>1, <1>2, AheadCount DEF InTurn

\* A row stays in its turn as long as no more may come in front of it than there were.
LEMMA StaysInTurn ==
  ASSUME Quantities, SchedulerTypeOK, NEW r \in Row, InTurn(r),
         NEW A \in SUBSET (Ahead(r) \ Todo), NEW p \in {0, 1}, NEW u \in Nat,
         p + world.updates <= Pending + u
  PROVE  world.passed[r] * Limit + Cardinality(A) + p < Cardinality(Row) + u
<1>1. Cardinality(A) \in Nat /\ Cardinality(A) <= Cardinality(Ahead(r) \ Todo)
  BY AheadCount, FS_Subset, FS_CardinalityType
<1> DEFINE before == world.passed[r] * Limit
           ahead == Cardinality(Ahead(r) \ Todo)
<1>2. before \in Nat /\ ahead \in Nat /\ Cardinality(Row) \in Nat
  <2>1. world.passed[r] \in Nat /\ Limit \in Nat
    BY DEF SchedulerTypeOK, WorldOK, Quantities
  <2>2. before \in Nat
    BY <2>1
  <2>3. QED
    BY <2>2, AheadCount
<1>3. before + ahead + Pending < Cardinality(Row) + world.updates
  BY DEF InTurn
<1>4. Pending \in {0, 1} /\ world.updates \in Nat
  BY DEF Pending, SchedulerTypeOK, WorldOK
<1>5. Cardinality(A) <= ahead
  BY <1>1
<1> HIDE DEF before, ahead
<1>6. before + Cardinality(A) + p < Cardinality(Row) + u
  BY <1>1, <1>2, <1>3, <1>4, <1>5
<1>7. QED
  BY <1>6 DEF before

LEMMA TickKeepsTurns ==
  ASSUME Quantities, SchedulerTypeOK, SchedulerTypeOK', NEW r \in Row, InTurn(r),
         Tick, ~world'.disturbed, world'.passed[r] # 0
  PROVE  InTurn(r)'
<1> DEFINE now == world.time
<1>1. PICK list \in Listings(now) :
        /\ loop' = AtRow([at |-> "check", now |-> now, active |-> FALSE,
                          todo |-> [i \in DOMAIN list |-> [id |-> list[i], every |-> rows[list[i]].every]]])
        /\ world' = [world EXCEPT !.passed = [q \in Row |->
             IF IsDue(q, now) /\ \A i \in DOMAIN list : list[i] # q THEN @[q] + 1 ELSE 0]]
  BY WorldFields DEF Tick, SchedulerTypeOK, WorldOK
<1> DEFINE S == {list[i] : i \in DOMAIN list}
           todo == [i \in DOMAIN list |-> [id |-> list[i], every |-> rows[list[i]].every]]
<1>2. /\ UNCHANGED <<rows, world.update, world.updates>>
      /\ world'.passed[r] = IF IsDue(r, now) /\ \A i \in DOMAIN list : list[i] # r
                            THEN world.passed[r] + 1 ELSE 0
  BY <1>1 DEF Tick, SchedulerTypeOK, WorldOK
<1>3. r \in DueAt(now) /\ world'.passed[r] = world.passed[r] + 1 /\ r \notin S
  BY <1>2 DEF DueAt
<1>4. S \subseteq Ahead(r) /\ Cardinality(S) = Limit
  BY <1>3, ListedAhead
<1>5. Todo = {} /\ Ahead(r)' = Ahead(r) /\ Pending' = Pending
  BY <1>2 DEF Tick, SchedulerTypeOK, Todo, Ahead, Live, Pending
<1>6. loop'.todo = todo /\ (loop'.todo # <<>> => loop'.now = now)
  BY <1>1 DEF AtRow, Idle
<1>7. Todo' = S
  <2>1. DOMAIN todo = DOMAIN list /\ \A i \in DOMAIN list : todo[i].id = list[i]
    OBVIOUS
  <2>2. Todo' = {todo[i].id : i \in DOMAIN todo}
    BY <1>6 DEF Todo
  <2> HIDE DEF todo
  <2>3. QED
    BY <2>1, <2>2
<1> DEFINE before == world.passed[r] * Limit
           ahead == Cardinality(Ahead(r))
           left == Cardinality(Ahead(r) \ S)
<1>8. left = ahead - Limit /\ left \in Nat /\ ahead \in Nat /\ Limit \in Nat
  <2>1. IsFiniteSet(Ahead(r)) /\ ahead \in Nat
    BY AheadCount
  <2>2. Ahead(r) \cap S = S
    BY <1>4
  <2> HIDE DEF S
  <2>3. left = ahead - Limit /\ IsFiniteSet(Ahead(r) \ S)
    BY <1>4, <2>1, <2>2, FS_Difference
  <2>4. QED
    BY <2>1, <2>3, FS_CardinalityType DEF Quantities
<1>9. world'.passed[r] * Limit = before + Limit /\ before \in Nat
  <2>1. world.passed[r] \in Nat /\ Limit \in Nat
    BY DEF SchedulerTypeOK, WorldOK, Quantities
  <2>2. QED
    BY <1>3, <2>1
<1>10. Ahead(r) \ Todo = Ahead(r)
  BY <1>5
<1>11. before + ahead + Pending < Cardinality(Row) + world.updates
  BY <1>10 DEF InTurn
<1>12. /\ Pending \in {0, 1} /\ world.updates \in Nat /\ Cardinality(Row) \in Nat
  BY AheadCount DEF Pending, SchedulerTypeOK, WorldOK
<1>13. world'.passed[r] * Limit + left + Pending < Cardinality(Row) + world.updates
  <2> HIDE DEF before, ahead, left
  <2>1. QED
    BY <1>8, <1>9, <1>11, <1>12
<1>14. (Ahead(r) \ Todo)' = Ahead(r) \ S
  BY <1>5, <1>7
<1>15. world'.passed[r] * Limit + Cardinality((Ahead(r) \ Todo)') + Pending' < Cardinality(Row) + world'.updates
  BY <1>2, <1>5, <1>13, <1>14
<1>16. Live(r)' /\ rows'[r].due <= now
  BY <1>2, <1>3 DEF Live, DueAt, IsDue
<1>17. loop'.todo # <<>> => r \notin Todo' /\ rows'[r].due <= loop'.now
  BY <1>3, <1>6, <1>7, <1>16
<1>18. QED
  BY <1>15, <1>16, <1>17 DEF InTurn

LEMMA AdvanceKeepsTurns ==
  ASSUME Quantities, SchedulerTypeOK, SchedulerTypeOK', NEW r \in Row, InTurn(r),
         Advance, ~world'.disturbed, world'.passed[r] # 0
  PROVE  InTurn(r)'
<1> DEFINE row == Head(loop.todo)
<1>1. /\ row.id \in Row /\ loop.todo # <<>> /\ loop.todo \in Seq(Listed)
      /\ loop'.todo = Tail(loop.todo)
      /\ loop'.todo # <<>> => loop'.now = loop.now
  BY RestOfList DEF Advance, Listed, SchedulerTypeOK
<1>2. /\ \A q \in Row : Live(q)' = Live(q) /\ (q # row.id => rows'[q] = rows[q])
      /\ Live(row.id) => rows'[row.id].due > loop.now
      /\ UNCHANGED <<world.passed, world.update, world.updates>>
  BY AdvanceDoes DEF Failed
<1>3. Todo = Todo' \cup {row.id}
  <2>1. /\ DOMAIN loop.todo = 1..Len(loop.todo) /\ Len(loop.todo) \in Nat \ {0}
        /\ DOMAIN Tail(loop.todo) = 1..(Len(loop.todo) - 1)
        /\ \A i \in 1..(Len(loop.todo) - 1) : Tail(loop.todo)[i] = loop.todo[i + 1]
        /\ row = loop.todo[1]
    BY <1>1
  <2>2. ASSUME NEW i \in DOMAIN loop.todo
        PROVE  loop.todo[i].id \in Todo' \cup {row.id}
    <3>1. CASE i = 1
      BY <2>1, <3>1
    <3>2. CASE i # 1
      <4>1. i - 1 \in 1..(Len(loop.todo) - 1) /\ Tail(loop.todo)[i - 1] = loop.todo[i]
        BY <2>1, <2>2, <3>2
      <4>2. QED
        BY <1>1, <2>1, <4>1 DEF Todo
    <3>3. QED
      BY <3>1, <3>2
  <2>3. ASSUME NEW i \in DOMAIN loop'.todo
        PROVE  loop'.todo[i].id \in Todo
    <3>1. i + 1 \in DOMAIN loop.todo /\ loop'.todo[i] = loop.todo[i + 1]
      BY <1>1, <2>1, <2>3
    <3>2. QED
      BY <3>1 DEF Todo
  <2>4. row.id \in Todo
    BY <2>1 DEF Todo
  <2> HIDE DEF row
  <2>5. QED
    BY <2>2, <2>3, <2>4 DEF Todo
<1>4. /\ Live(r) /\ r \notin Todo /\ rows[r].due <= loop.now
      /\ rows[r].due \in Nat /\ loop.now \in Nat
  BY <1>1, <1>2 DEF InTurn, SchedulerTypeOK, WorldOK, RowRecord, Live
<1>5. r # row.id /\ rows'[r] = rows[r] /\ Live(r)'
  BY <1>2, <1>3, <1>4
<1> HIDE DEF row
<1>6. (Ahead(r) \ Todo)' \subseteq Ahead(r) \ Todo
  <2>1. ASSUME NEW q \in Row \ {r}, Live(q)', rows'[q].due <= rows'[r].due, q \notin Todo'
        PROVE  q # row.id
    <3>1. SUFFICES ASSUME q = row.id PROVE FALSE
      OBVIOUS
    <3>2. rows'[q].due > loop.now /\ rows'[q].due \in Nat
      BY <1>2, <2>1, <3>1 DEF SchedulerTypeOK, RowRecord, Live
    <3>3. QED
      BY <1>4, <1>5, <2>1, <3>2
  <2>2. QED
    BY <1>2, <1>3, <1>4, <1>5, <2>1 DEF Ahead
<1>7. Pending' = Pending
  BY <1>2 DEF Pending
<1>8. Pending \in {0, 1} /\ world.updates \in Nat
  BY DEF Pending, SchedulerTypeOK, WorldOK
<1>9. world.passed[r] * Limit + Cardinality((Ahead(r) \ Todo)') + Pending < Cardinality(Row) + world.updates
  <2>1. Pending + world.updates <= Pending + world.updates
    BY <1>8
  <2>2. (Ahead(r) \ Todo)' \in SUBSET (Ahead(r) \ Todo)
    BY <1>6
  <2>3. QED
    BY <1>8, <2>1, <2>2, StaysInTurn
<1>10. loop'.todo # <<>> => r \notin Todo' /\ rows'[r].due <= loop'.now
  BY <1>1, <1>3, <1>4, <1>5
<1>11. QED
  BY <1>2, <1>5, <1>7, <1>9, <1>10 DEF InTurn

\* Steps that change nothing of it keep the turns, and so do changes and deletions.
LEMMA QuietKeepsTurns ==
  ASSUME Quantities, SchedulerTypeOK, NEW r \in Row, InTurn(r), SameTurns
  PROVE  InTurn(r)'
<1>1. Ahead(r)' = Ahead(r)
  BY DEF Ahead, SameTurns
<1>2. Todo' = Todo /\ Pending' = Pending
  BY DEF Todo, Pending, SameTurns
<1>3. (Ahead(r) \ Todo)' = Ahead(r) \ Todo
  BY <1>1, <1>2
<1>4. QED
  BY <1>2, <1>3 DEF InTurn, SameTurns

LEMMA UpdateKeepsTurns ==
  ASSUME Quantities, SchedulerTypeOK, NEW r \in Row, InTurn(r),
         NEW q \in Row, NEW every \in Every, NEW enabled \in BOOLEAN, Update(q, every, enabled)
  PROVE  InTurn(r)'
<1>1. /\ UNCHANGED <<rows, loop, world.passed>>
      /\ world'.updates = world.updates + 1 /\ world.update = None
  BY UpdateDoes
<1>2. Ahead(r)' = Ahead(r) /\ Todo' = Todo
  BY <1>1 DEF Ahead, Todo, Live
<1>3. /\ Pending' \in {0, 1} /\ Pending = 0 /\ world.updates \in Nat
      /\ Pending' + world.updates <= Pending + world'.updates
  BY <1>1 DEF Pending, SchedulerTypeOK, WorldOK
<1>4. world'.passed[r] * Limit + Cardinality((Ahead(r) \ Todo)') + Pending' < Cardinality(Row) + world'.updates
  <2>1. (Ahead(r) \ Todo)' \in SUBSET (Ahead(r) \ Todo) /\ world'.updates \in Nat
    BY <1>1, <1>2, <1>3
  <2>2. QED
    BY <1>1, <1>3, <2>1, StaysInTurn
<1>5. QED
  BY <1>1, <1>2, <1>4 DEF InTurn, Live

LEMMA UpdateWritesKeepsTurns ==
  ASSUME Quantities, SchedulerTypeOK, NEW r \in Row, InTurn(r), UpdateWrites, world'.passed[r] # 0
  PROVE  InTurn(r)'
<1> DEFINE u == world.update
           A == (Ahead(r) \ Todo)'
<1>1. /\ u.id \in Row /\ u # None
      /\ \A q \in Row : Live(q)' = Live(q) /\ (q # u.id => rows'[q] = rows[q])
      /\ world'.passed = [world.passed EXCEPT ![u.id] = 0]
      /\ UNCHANGED <<loop, world.updates>> /\ world'.update = None
  BY UpdateWritesDoes
<1>2. r # u.id /\ world'.passed[r] = world.passed[r] /\ rows'[r] = rows[r] /\ Live(r)' = Live(r)
  BY <1>1 DEF SchedulerTypeOK, WorldOK
<1>3. Todo' = Todo /\ Pending = 1 /\ Pending' = 0 /\ world.updates \in Nat
  BY <1>1 DEF Todo, Pending, SchedulerTypeOK, WorldOK
<1> HIDE DEF u
<1>4. A \ {u.id} \in SUBSET (Ahead(r) \ Todo)
  BY <1>1, <1>2, <1>3 DEF Ahead
<1>5. world.passed[r] * Limit + Cardinality(A \ {u.id}) + 1 < Cardinality(Row) + world.updates
  <2>1. 1 + world.updates <= Pending + world.updates /\ 1 \in {0, 1}
    BY <1>3
  <2> HIDE DEF A
  <2>2. QED
    BY <1>3, <1>4, <2>1, StaysInTurn
<1>6. /\ Cardinality(A) <= Cardinality(A \ {u.id}) + 1
      /\ Cardinality(A) \in Nat /\ Cardinality(A \ {u.id}) \in Nat /\ Cardinality(Row) \in Nat
  <2>1. IsFiniteSet(Row) /\ A \in SUBSET Row
    BY DEF Quantities, Ahead
  <2> HIDE DEF A
  <2>2. IsFiniteSet(A) /\ IsFiniteSet(A \ {u.id})
    BY <2>1, FS_Subset, FS_RemoveElement
  <2>3. /\ Cardinality(A) \in Nat /\ Cardinality(Row) \in Nat
        /\ Cardinality(A \ {u.id}) \in Nat
    BY <2>1, <2>2, FS_CardinalityType
  <2>4. Cardinality(A \ {u.id}) = IF u.id \in A THEN Cardinality(A) - 1 ELSE Cardinality(A)
    BY <2>2, FS_RemoveElement
  <2>5. QED
    BY <2>3, <2>4
<1> DEFINE before == world.passed[r] * Limit
<1>7. before \in Nat
  <2>1. world.passed[r] \in Nat /\ Limit \in Nat
    BY DEF SchedulerTypeOK, WorldOK, Quantities
  <2>2. QED
    BY <2>1
<1>8. before + Cardinality(A \ {u.id}) + 1 < Cardinality(Row) + world.updates
  BY <1>5
<1>9. before + Cardinality(A) + 0 < Cardinality(Row) + world.updates
  <2> HIDE DEF before, A
  <2>1. QED
    BY <1>3, <1>6, <1>7, <1>8
<1>10. world'.passed[r] * Limit + Cardinality(A) + Pending' < Cardinality(Row) + world'.updates
  BY <1>1, <1>2, <1>3, <1>9
<1>11. QED
  BY <1>1, <1>2, <1>3, <1>10 DEF InTurn

LEMMA DeleteKeepsTurns ==
  ASSUME Quantities, SchedulerTypeOK, NEW r \in Row, InTurn(r),
         NEW q \in Row, Delete(q), world'.passed[r] # 0
  PROVE  InTurn(r)'
<1>1. /\ rows'[q] = None /\ \A p \in Row : p # q => rows'[p] = rows[p]
      /\ world'.passed = [world.passed EXCEPT ![q] = 0]
      /\ UNCHANGED <<loop, world.update, world.updates>>
  BY DeleteDoes
<1>2. r # q /\ world'.passed[r] = world.passed[r] /\ rows'[r] = rows[r] /\ Live(r)' = Live(r)
  BY <1>1 DEF SchedulerTypeOK, WorldOK, Live
<1>3. Todo' = Todo /\ Pending' = Pending /\ Pending \in {0, 1} /\ world.updates \in Nat
  BY <1>1 DEF Todo, Pending, SchedulerTypeOK, WorldOK
<1>4. (Ahead(r) \ Todo)' \in SUBSET (Ahead(r) \ Todo)
  BY <1>1, <1>2, <1>3 DEF Ahead, Live
<1>5. world.passed[r] * Limit + Cardinality((Ahead(r) \ Todo)') + Pending < Cardinality(Row) + world.updates
  <2>1. Pending + world.updates <= Pending + world.updates
    BY <1>3
  <2>2. QED
    BY <1>3, <1>4, <2>1, StaysInTurn
<1>6. QED
  BY <1>1, <1>2, <1>3, <1>5 DEF InTurn

LEMMA FreshState == Quantities /\ SchedulerTypeOK => \A r \in Row : world.passed[r] = 0 => InTurn(r)
BY FreshInTurn

\* The same after a step.
LEMMA FreshAfterwards ==
  (Quantities /\ SchedulerTypeOK => \A r \in Row : world.passed[r] = 0 => InTurn(r))'
BY FreshState, PTL

LEMMA TurnStep ==
  ASSUME Quantities, SchedulerTypeOK, SchedulerTypeOK', TurnInv, Next
  PROVE  TurnInv'
<1> SUFFICES ASSUME ~world'.disturbed, NEW r \in Row, world'.passed[r] # 0
             PROVE  InTurn(r)'
  BY FreshAfterwards DEF TurnInv
<1>1. ASSUME SameTurns PROVE InTurn(r)'
  BY <1>1, QuietKeepsTurns DEF TurnInv, SameTurns
<1>2. ASSUME ~world.disturbed PROVE InTurn(r)
  BY <1>2 DEF TurnInv
<1>3. CASE Tick
  <2>1. ~world.disturbed
    BY <1>3, WorldFields DEF Tick, SchedulerTypeOK, WorldOK
  <2>2. QED
    BY <1>2, <1>3, <2>1, TickKeepsTurns
<1>4. CASE CheckActive
  BY <1>1, <1>4, CheckDoes DEF SameTurns, Live
<1>5. CASE Advance
  <2>1. ~world.disturbed
    BY <1>5, AdvanceDoes DEF Failed
  <2>2. QED
    BY <1>2, <1>5, <2>1, AdvanceKeepsTurns
<1>6. CASE \E t \in world.tasks : Start(t) \/ \E result \in {"succeeded", "failed"} : Finish(t, result)
  BY <1>1, <1>6, StartType, FinishType DEF Results, Live, SameTurns
<1>7. CASE \E t \in world.tasks : Write(t)
  BY <1>1, <1>7, WriteLeaves DEF SameTurns
<1>8. CASE Pass \/ RunByHand \/ EndByHand \/ Restart
  BY <1>1, <1>8, OthersDo DEF Failed, Live, SameTurns
<1>9. CASE UpdateWrites
  BY <1>2, <1>9, UpdateWritesDoes, UpdateWritesKeepsTurns
<1>10. ASSUME NEW q \in Row, Delete(q) PROVE InTurn(r)'
  BY <1>2, <1>10, DeleteDoes, DeleteKeepsTurns
<1>11. ASSUME NEW q \in Row, NEW every \in Every, NEW enabled \in BOOLEAN, Update(q, every, enabled)
       PROVE  InTurn(r)'
  BY <1>2, <1>11, UpdateDoes, UpdateKeepsTurns
<1>12. QED
  BY <1>3, <1>4, <1>5, <1>6, <1>7, <1>8, <1>9, <1>10, <1>11 DEF Next

-----------------------------------------------------------------------------
(* The theorem                                                             *)

LEMMA TypeStep ==
  ASSUME Quantities, SchedulerTypeOK, Next
  PROVE  SchedulerTypeOK'
<1>1. CASE Tick \/ CheckActive \/ Advance
  BY <1>1, TickType, CheckType, AdvanceType
<1>2. CASE \E t \in world.tasks :
             Start(t) \/ Write(t) \/ \E result \in {"succeeded", "failed"} : Finish(t, result)
  BY <1>2, StartType, WriteType, FinishType DEF Results
<1>3. CASE Pass \/ RunByHand \/ EndByHand \/ Restart \/ \E r \in Row : Delete(r)
  BY <1>3, OtherType
<1>4. CASE UpdateWrites \/ \E r \in Row, every \in Every, enabled \in BOOLEAN : Update(r, every, enabled)
  BY <1>4, UpdateWritesType, UpdateType
<1>5. QED
  BY <1>1, <1>2, <1>3, <1>4 DEF Next

LEMMA SchedulerInitially ==
  ASSUME Quantities, Init
  PROVE  SchedulerInv
<1>1. SchedulerTypeOK
  BY InitType
<1>2. \A r \in Row : world.passed[r] = 0 /\ world.answered[r] = 0
  BY DEF Init
<1>3. TurnInv
  BY <1>1, <1>2, FreshInTurn DEF TurnInv
<1>4. AnsweredOnce
  BY <1>2 DEF AnsweredOnce
<1>5. RunningHasTask
  BY DEF RunningHasTask, Init, Quantities
<1>6. QED
  BY <1>1, <1>3, <1>4, <1>5 DEF SchedulerInv

LEMMA SchedulerStep ==
  ASSUME Quantities, SchedulerInv, [Next]_vars
  PROVE  SchedulerInv'
<1>1. CASE Next
  <2>1. SchedulerTypeOK'
    BY <1>1, TypeStep DEF SchedulerInv
  <2>2. QED
    BY <1>1, <2>1, RunningStep, AnsweredStep, TurnStep DEF SchedulerInv
<1>2. CASE UNCHANGED vars
  <2>1. UNCHANGED <<rows, loop, world>>
    BY <1>2 DEF vars
  <2>2. SchedulerTypeOK' /\ RunningHasTask' /\ AnsweredOnce'
    BY <2>1 DEF SchedulerInv, SchedulerTypeOK, WorldOK, RunningHasTask, AnsweredOnce, Live
  <2>3. SameTurns
    BY <2>1 DEF SameTurns, Live
  <2>4. TurnInv'
    BY <2>1, <2>3, QuietKeepsTurns DEF SchedulerInv, TurnInv
  <2>5. QED
    BY <2>2, <2>4 DEF SchedulerInv
<1>3. QED
  BY <1>1, <1>2

\* Schedules that say running have a task that will say how it ended; a row that is due is
\* passed over by the listing (due_workspace_schedules) for no longer than the others need
\* for one turn each; what scheduler_loop has answered is not due again at that time.
THEOREM SchedulesAreAnswered ==
  ASSUME Quantities
  PROVE  Spec => []DueIsAnswered
<1>1. Init => SchedulerInv
  BY SchedulerInitially
<1>2. SchedulerInv /\ [Next]_vars => SchedulerInv'
  BY SchedulerStep
<1>3. SchedulerInv => DueIsAnswered
  <2>1. ASSUME SchedulerInv, ~world.disturbed, NEW r \in Row
        PROVE  world.passed[r] * Limit < Cardinality(Row) + world.updates
    <3>1. InTurn(r) /\ SchedulerTypeOK
      BY <2>1 DEF SchedulerInv, TurnInv
    <3> DEFINE before == world.passed[r] * Limit
               ahead == Cardinality(Ahead(r) \ Todo)
    <3>2. before + ahead + Pending < Cardinality(Row) + world.updates
      BY <3>1 DEF InTurn
    <3>3. ahead \in Nat /\ Cardinality(Row) \in Nat
      BY AheadCount
    <3>4. Pending \in {0, 1} /\ world.updates \in Nat
      BY <3>1 DEF Pending, SchedulerTypeOK, WorldOK
    <3>5. before \in Nat
      <4>1. world.passed[r] \in Nat /\ Limit \in Nat
        BY <3>1 DEF SchedulerTypeOK, WorldOK, Quantities
      <4>2. QED
        BY <4>1
    <3>6. before < Cardinality(Row) + world.updates
      <4> HIDE DEF before, ahead
      <4>1. QED
        BY <3>2, <3>3, <3>4, <3>5
    <3>7. QED
      BY <3>6
  <2>2. QED
    BY <2>1 DEF SchedulerInv, DueIsAnswered, NoneStarves
<1>4. QED
  BY <1>1, <1>2, <1>3, PTL DEF Spec
=============================================================================
