-------------------------- MODULE OrderedRunProofs --------------------------
(* What follows from the promise of a full run, for any plans of any length. *)
EXTENDS OrderedRun, TLAPS

\* What every action keeps.
OrderedInv == OrderedTypeOK /\ InTurn /\ NothingLeft

\* The places of a plan hold chips of its run.
LEMMA PlacesAreChips ==
  ASSUME ProperPlans, NEW r \in Run
  PROVE  \A i \in Places(r) : Plan[r][i] \in Chip /\ Plan[r][i] \in Chips(r)
BY DEF ProperPlans, Places, Chips

\* A chip has one place in one plan.
LEMMA OnePlace ==
  ASSUME ProperPlans, NEW r \in Run, NEW q \in Run,
         NEW i \in Places(r), NEW j \in Places(q), Plan[r][i] = Plan[q][j]
  PROVE  r = q /\ i = j
BY DEF ProperPlans, Places

\* A step of one chip from one open status to another, or to an end, keeps the
\* invariant, if a chip that starts to run is in turn and its run has not closed.
LEMMA MoveKeeps ==
  ASSUME ProperPlans, OrderedInv,
         NEW r \in Run, NEW i \in Places(r), NEW to \in Open \cup Ends,
         ~Ended(Plan[r][i]),
         to = "running" => \A j \in 1..(i - 1) : Ended(Plan[r][j]),
         to \in Open => run[r] \notin {"succeeded", "failed"},
         Move(Plan[r][i], to)
  PROVE  OrderedInv'
<1> DEFINE x == Plan[r][i]
<1>1. x \in Chip
  BY PlacesAreChips
<1>2. /\ run' = run
      /\ chip' = [chip EXCEPT ![x] = to]
      /\ chip'[x] = to
      /\ \A c \in Chip : c # x => chip'[c] = chip[c]
  BY <1>1 DEF Move, OrderedInv, OrderedTypeOK
<1>3. OrderedTypeOK'
  BY <1>1, <1>2 DEF OrderedInv, OrderedTypeOK, Open, Ends
<1>4. \A c \in Chip : Ended(c) => chip'[c] = chip[c] /\ Ended(c)'
  BY <1>2 DEF Ended
<1>5. InTurn'
  <2> SUFFICES ASSUME NEW q \in Run, NEW j \in Places(q),
                      chip'[Plan[q][j]] = "running",
                      NEW k \in 1..(j - 1)
               PROVE  Ended(Plan[q][k])'
    BY DEF InTurn, Places
  <2>1. k \in Places(q) /\ Plan[q][k] \in Chip /\ Plan[q][j] \in Chip
    <3>1. k \in Places(q)
      BY DEF Places, ProperPlans
    <3> QED
      BY <3>1, PlacesAreChips
  <2>2. Ended(Plan[q][k])
    <3>1. CASE Plan[q][j] = x
      <4>1. q = r /\ j = i
        BY <3>1, OnePlace
      <4>2. to = "running"
        BY <1>2, <3>1
      <4> QED
        BY <4>1, <4>2
    <3>2. CASE Plan[q][j] # x
      BY <1>2, <2>1, <3>2 DEF OrderedInv, InTurn
    <3> QED
      BY <3>1, <3>2
  <2> QED
    BY <1>4, <2>1, <2>2
<1>6. NothingLeft'
  <2> SUFFICES ASSUME NEW q \in Run, run'[q] \in {"succeeded", "failed"},
                      NEW j \in Places(q)
               PROVE  chip'[Plan[q][j]] \notin Open
    BY DEF NothingLeft, Chips, Open
  <2>1. Plan[q][j] \in Chip /\ Plan[q][j] \in Chips(q)
    BY PlacesAreChips
  <2>2. CASE Plan[q][j] = x
    <3>1. q = r
      BY <2>2, OnePlace
    <3> QED
      BY <1>2, <2>2, <3>1
  <2>3. CASE Plan[q][j] # x
    BY <1>2, <2>1, <2>3 DEF OrderedInv, NothingLeft
  <2> QED
    BY <2>2, <2>3
<1> QED
  BY <1>3, <1>5, <1>6 DEF OrderedInv

\* Begin and end of a run keep the order.
LEMMA RunStepKeeps ==
  ASSUME ProperPlans, OrderedInv, NEW r \in Run, Begin(r) \/ Finish(r)
  PROVE  OrderedInv'
<1>1. chip' = chip
  BY DEF Begin, Finish
<1>2. OrderedTypeOK'
  <2>1. CASE Begin(r)
    BY <1>1, <2>1 DEF Begin, OrderedInv, OrderedTypeOK
  <2>2. CASE Finish(r)
    BY <1>1, <2>2 DEF Finish, OrderedInv, OrderedTypeOK
  <2> QED
    BY <2>1, <2>2
<1>3. InTurn'
  BY <1>1 DEF OrderedInv, InTurn, Ended
<1>4. NothingLeft'
  <2> SUFFICES ASSUME NEW q \in Run, run'[q] \in {"succeeded", "failed"},
                      NEW c \in Chips(q)
               PROVE  chip[c] \notin Open
    BY <1>1 DEF NothingLeft, Chips, Open, Places
  <2>1. CASE run'[q] = run[q]
    BY <2>1 DEF OrderedInv, NothingLeft
  <2>2. CASE run'[q] # run[q]
    <3>1. q = r /\ Finish(r)
      BY <2>2 DEF Begin, Finish, OrderedInv, OrderedTypeOK
    <3>2. CASE run'[q] = "succeeded"
      BY <3>1, <3>2 DEF Finish, Open, OrderedInv, OrderedTypeOK
    <3>3. CASE run'[q] = "failed"
      BY <3>1, <3>3 DEF Finish, Open, OrderedInv, OrderedTypeOK
    <3> QED
      BY <3>2, <3>3
  <2> QED
    BY <2>1, <2>2
<1> QED
  BY <1>2, <1>3, <1>4 DEF OrderedInv

\* A crash keeps the order.
LEMMA CrashKeeps ==
  ASSUME ProperPlans, OrderedInv, Crash
  PROVE  OrderedInv'
<1> DEFINE lost(r, c) == chip[c] = "running" \/ (chip[c] = "queued" /\ run[r] = "running")
<1>1. /\ chip' = [c \in Chip |->
           IF \E r \in Run : c \in Chips(r) /\ lost(r, c) THEN "failed" ELSE chip[c]]
      /\ run' = [r \in Run |-> IF run[r] = "running" THEN "failed" ELSE run[r]]
  BY DEF Crash
<1>2. OrderedTypeOK'
  BY <1>1 DEF OrderedInv, OrderedTypeOK, Ends
<1>3. \A r \in Run : \A c \in Chips(r) :
        /\ chip'[c] # "running"
        /\ Ended(c) => Ended(c)'
        /\ chip'[c] = "queued" => run[r] # "running" /\ chip[c] = "queued"
  <2> SUFFICES ASSUME NEW r \in Run, NEW c \in Chips(r)
               PROVE  /\ chip'[c] # "running"
                      /\ Ended(c) => Ended(c)'
                      /\ chip'[c] = "queued" => run[r] # "running" /\ chip[c] = "queued"
    OBVIOUS
  <2>1. c \in Chip
    BY PlacesAreChips DEF Chips
  <2>2. chip'[c] = IF \E q \in Run : c \in Chips(q) /\ lost(q, c)
                   THEN "failed" ELSE chip[c]
    BY <1>1, <2>1
  <2> QED
    BY <2>2 DEF Ended, Ends
<1>4. InTurn'
  BY <1>3, PlacesAreChips DEF InTurn
<1>5. NothingLeft'
  <2> SUFFICES ASSUME NEW q \in Run, run'[q] \in {"succeeded", "failed"},
                      NEW c \in Chips(q)
               PROVE  chip'[c] \notin Open
    BY DEF NothingLeft, Chips, Open, Places
  <2>1. run[q] \in {"running", "succeeded", "failed"}
    BY <1>1
  <2> QED
    BY <1>3, <2>1 DEF OrderedInv, NothingLeft, Open
<1> QED
  BY <1>2, <1>4, <1>5 DEF OrderedInv

\* Every step keeps the order.
LEMMA OrderedStep ==
  ASSUME ProperPlans
  PROVE  OrderedInv /\ [OrderedNext]_orderedVars => OrderedInv'
<1> SUFFICES ASSUME OrderedInv, [OrderedNext]_orderedVars
             PROVE  OrderedInv'
  OBVIOUS
<1>1. ASSUME NEW r \in Run, NEW i \in Places(r), Freeze(r, i)
      PROVE  OrderedInv'
  BY <1>1, MoveKeeps DEF Freeze, Ended, Open, Ends
<1>2. ASSUME NEW r \in Run, NEW i \in Places(r), Start(r, i)
      PROVE  OrderedInv'
  BY <1>2, MoveKeeps DEF Start, Ended, Open, Ends
<1>3. ASSUME NEW r \in Run, NEW i \in Places(r), End(r, i)
      PROVE  OrderedInv'
  BY <1>3, MoveKeeps DEF End, Ended, Open, Ends
<1>4. ASSUME NEW r \in Run, NEW i \in Places(r), Drop(r, i)
      PROVE  OrderedInv'
  BY <1>4, MoveKeeps DEF Drop, Ended, Open, Ends
<1>5. CASE UNCHANGED orderedVars
  BY <1>5 DEF orderedVars, OrderedInv, OrderedTypeOK, InTurn, NothingLeft, Ended
<1> QED
  BY <1>1, <1>2, <1>3, <1>4, <1>5, RunStepKeeps, CrashKeeps DEF OrderedNext

\* The order holds in every reachable state.
LEMMA OrderedInvariant ==
  ASSUME ProperPlans
  PROVE  OrderedSpec => []OrderedInv
<1>1. OrderedInit => OrderedInv
  <2> SUFFICES ASSUME OrderedInit PROVE OrderedInv
    OBVIOUS
  <2>1. OrderedTypeOK
    BY DEF OrderedInit, OrderedTypeOK
  <2>2. \A r \in Run : \A c \in Chips(r) : chip[c] = "absent"
    BY PlacesAreChips DEF OrderedInit, Chips
  <2>3. InTurn /\ NothingLeft
    BY <2>2, PlacesAreChips DEF InTurn, NothingLeft, Open
  <2> QED
    BY <2>1, <2>3 DEF OrderedInv
<1>2. OrderedInv /\ [OrderedNext]_orderedVars => OrderedInv'
  BY OrderedStep
<1> QED
  BY <1>1, <1>2, PTL DEF OrderedSpec

\* No two chips of one run are ever running, whatever the plans.
THEOREM OneChipAtATime ==
  ASSUME ProperPlans
  PROVE  OrderedSpec => []NeverTwo
<1>1. OrderedInv => NeverTwo
  <2> SUFFICES ASSUME OrderedInv, NEW r \in Run,
                      NEW i \in Places(r), NEW j \in Places(r),
                      chip[Plan[r][i]] = "running", chip[Plan[r][j]] = "running"
               PROVE  Plan[r][i] = Plan[r][j]
    BY DEF NeverTwo, Chips
  <2>1. i \in Int /\ j \in Int /\ 1 <= i /\ 1 <= j
    BY DEF Places
  <2>2. ~(i < j)
    BY <2>1 DEF OrderedInv, InTurn, Ended, Ends
  <2>3. ~(j < i)
    BY <2>1 DEF OrderedInv, InTurn, Ended, Ends
  <2> QED
    BY <2>1, <2>2, <2>3
<1> QED
  BY <1>1, OrderedInvariant, PTL

\* A run that has succeeded or failed leaves none of its chips queued or running.
THEOREM ClosedIsQuiet ==
  ASSUME ProperPlans
  PROVE  OrderedSpec => []NothingLeft
<1>1. OrderedInv => NothingLeft
  BY DEF OrderedInv
<1> QED
  BY <1>1, OrderedInvariant, PTL
=============================================================================
