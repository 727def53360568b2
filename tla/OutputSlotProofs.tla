--------------------------- MODULE OutputSlotProofs ---------------------------
(* The output slot is sound for any number of runs, deletions, restarts and *)
(* failing calls.                                                           *)
EXTENDS OutputSlot, TLAPS

Statuses == {"queued", "running", "succeeded", "failed", "canceled"}
Places == {"start", "work", "publish", "commit", "record"}
Threads == {"open", "write", "unlinked", "done"}

\* Runs are numbered from 1, and None is no run, no file and no status.
Names ==
  /\ Run \subseteq Nat \ {0}
  /\ MaxDeletes \in Nat /\ MaxRestarts \in Nat /\ MaxFaults \in Nat
  /\ None \notin Run \cup {Partial} \cup Statuses \cup Places \cup Threads

SlotRecord ==
  [row : Run \cup {None}, removing : BOOLEAN, deletes : Nat, restarts : Nat, faults : Nat]
RunRecord == [status : Statuses \cup {None}, at : Places \cup {None}, thread : Threads \cup {None}]

SlotTypeOK ==
  /\ disk \in [file : Run \cup {Partial, None}, tmp : [Run -> Run \cup {Partial, None}]]
  /\ slot \in SlotRecord
  /\ runs \in [Run -> RunRecord]

\* Where the task of a run is, its status and its thread tell of each other: in
\* particular a run that publishes has a thread that has ended.
TaskInv ==
  \A r \in Run :
    /\ runs[r].at \in {"work", "publish", "commit", "record"} => runs[r].status \in {"running", "canceled"}
    /\ runs[r].at \in {"publish", "commit"} => runs[r].thread = "done"
    /\ runs[r].at = "start" \/ runs[r].status = None => disk.tmp[r] = None /\ runs[r].thread = None
    /\ runs[r].status = None => runs[r].at = None

\* A tmp file holds what its run has written, and is not whole only while it is being
\* written.
TmpInv ==
  \A r \in Run :
    /\ disk.tmp[r] \in {None, Partial, r}
    /\ disk.tmp[r] = Partial => runs[r].thread = "write"

\* A run is queued only when no other is active.
OneActive ==
  \A q, r \in Run : runs[q].status \in Active /\ runs[r].status \in Active => q = r

\* The file of a success is no longer in the slot when the next run is about to commit.
CommitInv ==
  \A r \in Run : runs[r].at = "commit" =>
    /\ runs[r].status = "running" /\ disk.file \in Run => runs[disk.file].status # "succeeded"
    /\ slot.deletes = 0 => disk.file # None

SlotInv ==
  /\ SlotTypeOK /\ TaskInv /\ TmpInv /\ OneActive /\ CommitInv
  /\ slot.removing => slot.deletes > 0
  /\ SlotIsSound

USE DEF Active, Partial, SlotRecord, RunRecord

\* The invariant of the slots holds at the start.
LEMMA InitSlot ==
  ASSUME Names, Init
  PROVE  SlotInv
BY DEF Names, Init, SlotInv, SlotTypeOK, TaskInv, TmpInv, OneActive, CommitInv,
       SlotIsSound, SlotIsWhole, NoOldSuccess, RowHasFile, NoTmpLeft,
       Statuses, Places, Threads
-----------------------------------------------------------------------------
(* Every step keeps the invariant                                          *)

\* A step of one run: it becomes n, its tmp file t, and the slot holds f, which is what
\* it held or the output of a run that has not succeeded.  A run succeeds only from its
\* commit, and then the row is its own.
OwnStep(r, n, t, f) ==
  /\ runs' = [runs EXCEPT ![r] = n]
  /\ disk' = [file |-> f, tmp |-> [disk.tmp EXCEPT ![r] = t]]
  /\ slot' \in [row : {slot.row, r}, removing : {slot.removing}, deletes : {slot.deletes},
                restarts : Nat, faults : Nat]
  /\ n.at \in {"work", "publish", "commit", "record"} => n.status \in {"running", "canceled"}
  /\ n.at \in {"publish", "commit"} => n.thread = "done"
  /\ n.at = "start" => t = None /\ n.thread = None
  /\ n.status # None
  /\ t = Partial => n.thread = "write"
  /\ t # None => n.at \in {"work", "publish"} \/ n.thread # None
  /\ n.status \in Active => runs[r].status \in Active \/ \A q \in Run : runs[q].status \notin Active
  /\ n.at = "commit" =>
       f = r \/ (runs[r].at = "commit" /\ (n.status = "running" => runs[r].status = "running"))
  /\ n.status = "succeeded" =>
       \/ runs[r].status = "succeeded" /\ slot'.row = slot.row
       \/ runs[r].status = "running" /\ runs[r].at = "commit" /\ slot'.row = r
  /\ n.status # "succeeded" => slot'.row = slot.row
  /\ f = disk.file \/ (f = r /\ n.status # "succeeded")

\* A step of a run keeps the invariant of the slots.
LEMMA RunStep ==
  ASSUME Names, SlotInv, NEW r \in Run, NEW n \in RunRecord,
         NEW t \in {None, Partial, r}, NEW f \in Run \cup {None}, OwnStep(r, n, t, f)
  PROVE  SlotInv'
<1>1. /\ runs'[r] = n
      /\ \A q \in Run : q # r => runs'[q] = runs[q]
      /\ runs' \in [Run -> RunRecord]
  BY DEF OwnStep, SlotInv, SlotTypeOK
<1>2. /\ disk'.file = f
      /\ disk'.tmp[r] = t
      /\ \A q \in Run : q # r => disk'.tmp[q] = disk.tmp[q]
      /\ disk'.tmp \in [Run -> Run \cup {Partial, None}]
  BY DEF OwnStep, SlotInv, SlotTypeOK
<1>3. /\ slot'.row \in {slot.row, r} /\ slot'.removing = slot.removing /\ slot'.deletes = slot.deletes
      /\ slot.row \in Run \cup {None} /\ slot.removing \in BOOLEAN /\ slot.deletes \in Nat
  BY DEF OwnStep, SlotInv, SlotTypeOK
<1>4. SlotTypeOK'
  <2>1. disk' \in [file : Run \cup {Partial, None}, tmp : [Run -> Run \cup {Partial, None}]]
    BY <1>2 DEF OwnStep
  <2>2. slot' \in SlotRecord
    BY <1>3 DEF OwnStep
  <2>3. QED
    BY <1>1, <2>1, <2>2 DEF SlotTypeOK
<1>5. TaskInv'
  BY <1>1, <1>2 DEF OwnStep, SlotInv, TaskInv
<1>6. TmpInv'
  BY <1>1, <1>2 DEF OwnStep, SlotInv, TmpInv
<1>7. OneActive'
  BY <1>1 DEF OwnStep, SlotInv, OneActive
<1>8. CommitInv'
  <2> SUFFICES ASSUME NEW q \in Run, runs'[q].at = "commit"
               PROVE  /\ runs'[q].status = "running" /\ disk'.file \in Run
                           => runs'[disk'.file].status # "succeeded"
                      /\ slot'.deletes = 0 => disk'.file # None
    BY DEF CommitInv
  <2>1. r # None
    BY DEF Names
  <2>2. CASE q = r
    BY <1>1, <1>2, <1>3, <2>1, <2>2 DEF OwnStep, SlotInv, CommitInv, TaskInv
  <2>3. CASE q # r
    <3>1. runs[q] = runs'[q] /\ runs[q].at = "commit"
      BY <1>1, <2>3
    <3>2. runs[q].status = "running" => runs[r].status # "running"
      BY <2>3 DEF SlotInv, OneActive
    <3>3. QED
      BY <1>1, <1>2, <1>3, <2>1, <3>1, <3>2 DEF OwnStep, SlotInv, CommitInv
  <2> QED
    BY <2>2, <2>3
<1>9. SlotIsSound'
  <2>1. SlotIsWhole'
    BY <1>2 DEF Names, SlotIsWhole
  <2>2. NoOldSuccess'
    BY <1>1, <1>2, <1>3 DEF OwnStep, SlotInv, SlotIsSound, NoOldSuccess, CommitInv
  <2>3. RowHasFile'
    BY <1>1, <1>2, <1>3 DEF OwnStep, Names, SlotInv, SlotIsSound, RowHasFile, CommitInv
  <2>4. NoTmpLeft'
    BY <1>1, <1>2 DEF OwnStep, SlotInv, SlotIsSound, NoTmpLeft
  <2> QED
    BY <2>1, <2>2, <2>3, <2>4 DEF SlotIsSound
<1> QED
  BY <1>3, <1>4, <1>5, <1>6, <1>7, <1>8, <1>9 DEF SlotInv
\* What is known of a run before its step.
LEMMA RunFacts ==
  ASSUME Names, SlotInv, NEW r \in Run
  PROVE  /\ runs[r] \in RunRecord
         /\ runs[r] = [status |-> runs[r].status, at |-> runs[r].at, thread |-> runs[r].thread]
         /\ disk = [file |-> disk.file, tmp |-> [disk.tmp EXCEPT ![r] = disk.tmp[r]]]
         /\ disk.file \in Run \cup {None}
         /\ disk.tmp[r] \in {None, Partial, r}
         /\ slot \in [row : {slot.row, r}, removing : {slot.removing}, deletes : {slot.deletes},
                      restarts : Nat, faults : Nat]
BY DEF SlotInv, SlotTypeOK, TmpInv, SlotIsSound, SlotIsWhole

\* Steps that leave disk and slot alone, and do not end in a success.
QuietOwnStep(r, n) ==
  /\ runs' = [runs EXCEPT ![r] = n] /\ UNCHANGED <<disk, slot>>
  /\ n.at \in {"work", "publish", "commit", "record"} => n.status \in {"running", "canceled"}
  /\ n.at \in {"publish", "commit"} => n.thread = "done"
  /\ n.at = "start" => disk.tmp[r] = None /\ n.thread = None
  /\ n.status # None
  /\ n.thread = runs[r].thread \/ runs[r].thread = None
  /\ runs[r].at \in {"work", "publish"} => n.at \in {"work", "publish"} \/ n.thread # None
  /\ n.status \in Active => runs[r].status \in Active \/ \A q \in Run : runs[q].status \notin Active
  /\ n.at = "commit" => runs[r].at = "commit" /\ (n.status = "running" => runs[r].status = "running")
  /\ n.status = "succeeded" => runs[r].status = "succeeded"

\* So does a step of a run that touches none of its files.
LEMMA QuietStep ==
  ASSUME Names, SlotInv, NEW r \in Run, NEW n \in RunRecord, QuietOwnStep(r, n)
  PROVE  SlotInv'
<1>1. disk.tmp[r] = Partial => n.thread = "write"
  BY DEF QuietOwnStep, Names, SlotInv, TmpInv, Threads
<1>2. disk.tmp[r] # None => n.at \in {"work", "publish"} \/ n.thread # None
  BY DEF QuietOwnStep, Names, SlotInv, SlotIsSound, NoTmpLeft
<1>3. disk.tmp[r] \in {None, Partial, r} /\ disk.file \in Run \cup {None}
  BY RunFacts
<1>4. OwnStep(r, n, disk.tmp[r], disk.file)
  BY <1>1, <1>2, RunFacts DEF QuietOwnStep, OwnStep
<1> QED
  BY <1>3, <1>4, RunStep

\* Submitting, cancelling and starting a run keep the invariant of the slots.
LEMMA QueueKeeps ==
  ASSUME Names, SlotInv, NEW r \in Run, Submit(r) \/ Cancel(r) \/ Start(r)
  PROVE  SlotInv'
<1>1. CASE Submit(r)
  <2> DEFINE n == [runs[r] EXCEPT !.status = "queued", !.at = "start"]
  <2>1. runs' = [runs EXCEPT ![r] = n]
    BY <1>1 DEF Submit, SlotInv, SlotTypeOK
  <2>2. /\ n \in RunRecord /\ n.status = "queued" /\ n.at = "start" /\ n.thread = runs[r].thread
    BY RunFacts DEF Statuses, Places
  <2>3. runs[r].at = None /\ disk.tmp[r] = None /\ runs[r].thread = None
    BY <1>1 DEF Submit, SlotInv, TaskInv
  <2> HIDE DEF n
  <2>4. QuietOwnStep(r, n)
    BY <1>1, <2>1, <2>2, <2>3 DEF QuietOwnStep, Submit, Names, Statuses, Places
  <2> QED
    BY <2>2, <2>4, QuietStep
<1>2. CASE Cancel(r)
  <2> DEFINE n == [runs[r] EXCEPT !.status = "canceled"]
  <2>1. runs' = [runs EXCEPT ![r] = n]
    BY <1>2 DEF Cancel, SlotInv, SlotTypeOK
  <2>2. n \in RunRecord /\ n.status = "canceled" /\ n.at = runs[r].at /\ n.thread = runs[r].thread
    BY RunFacts DEF Statuses
  <2> HIDE DEF n
  <2>3. QuietOwnStep(r, n)
    BY <1>2, <2>1, <2>2 DEF QuietOwnStep, Cancel, SlotInv, TaskInv, Names, Statuses
  <2> QED
    BY <2>2, <2>3, QuietStep
<1>3. CASE Start(r)
  <2>1. runs[r].at = "start" /\ disk.tmp[r] = None /\ runs[r].thread = None /\ runs[r].status # None
    BY <1>3 DEF Start, SlotInv, TaskInv, Names, Places
  <2>2. CASE runs[r].status = "queued"
    <3> DEFINE n == [status |-> "running", at |-> "work", thread |-> "open"]
    <3>1. runs' = [runs EXCEPT ![r] = n] /\ UNCHANGED <<disk, slot>>
      BY <1>3, <2>2 DEF Start
    <3>2. n \in RunRecord /\ n.status = "running" /\ n.at = "work" /\ n.thread = "open"
      BY DEF Statuses, Places, Threads
    <3> HIDE DEF n
    <3>3. QuietOwnStep(r, n)
      BY <2>1, <2>2, <3>1, <3>2 DEF QuietOwnStep, Names, Statuses
    <3> QED
      BY <3>2, <3>3, QuietStep
  <2>3. CASE runs[r].status # "queued"
    <3> DEFINE n == [runs[r] EXCEPT !.at = None]
    <3>1. runs' = [runs EXCEPT ![r] = n] /\ UNCHANGED <<disk, slot>>
      BY <1>3, <2>3 DEF Start, SlotInv, SlotTypeOK
    <3>2. n \in RunRecord /\ n.status = runs[r].status /\ n.at = None /\ n.thread = runs[r].thread
      BY RunFacts
    <3> HIDE DEF n
    <3>3. QuietOwnStep(r, n)
      BY <2>1, <3>1, <3>2 DEF QuietOwnStep, Names, Places
    <3> QED
      BY <3>2, <3>3, QuietStep
  <2> QED
    BY <2>2, <2>3
<1> QED
  BY <1>1, <1>2, <1>3

\* The thread writes only the tmp file of its run.
LEMMA ThreadKeeps ==
  ASSUME Names, SlotInv, NEW r \in Run, Create(r) \/ Written(r)
  PROVE  SlotInv'
<1>1. runs[r].thread # None /\ runs[r].at # "start" /\ runs[r].status # None
  BY DEF Create, Written, SlotInv, TaskInv, Names, Threads
<1>2. /\ disk.tmp[r] = Partial => runs[r].thread = "write"
      /\ runs[r].at \in {"publish", "commit"} => runs[r].thread = "done"
      /\ runs[r].at \in {"work", "publish", "commit", "record"} => runs[r].status \in {"running", "canceled"}
  BY DEF SlotInv, TaskInv, TmpInv
<1>3. CASE Create(r)
  <2> DEFINE n == [runs[r] EXCEPT !.thread = "write"]
  <2>1. /\ runs' = [runs EXCEPT ![r] = n]
        /\ disk' = [file |-> disk.file, tmp |-> [disk.tmp EXCEPT ![r] = Partial]]
    BY <1>3 DEF Create, Staging, SlotInv, SlotTypeOK
  <2>2. n \in RunRecord /\ n.status = runs[r].status /\ n.at = runs[r].at /\ n.thread = "write"
    BY RunFacts DEF Threads
  <2> HIDE DEF n
  <2>3. OwnStep(r, n, Partial, disk.file)
    BY <1>1, <1>2, <1>3, <2>1, <2>2, RunFacts DEF OwnStep, Create, Names, Threads
  <2> QED
    BY <2>2, <2>3, RunFacts, RunStep
<1>4. CASE Written(r)
  <2> DEFINE n == [runs[r] EXCEPT !.thread = "done"]
             t == IF runs[r].thread = "write" THEN r ELSE disk.tmp[r]
  <2>1. /\ runs' = [runs EXCEPT ![r] = n]
        /\ disk' = [file |-> disk.file, tmp |-> [disk.tmp EXCEPT ![r] = t]]
    BY <1>4 DEF Written, Staging, SlotInv, SlotTypeOK
  <2>2. n \in RunRecord /\ n.status = runs[r].status /\ n.at = runs[r].at /\ n.thread = "done"
    BY RunFacts DEF Threads
  <2>3. t \in {None, Partial, r} /\ t # Partial
    BY <1>2, RunFacts DEF Names
  <2> HIDE DEF n, t
  <2>4. OwnStep(r, n, t, disk.file)
    BY <1>1, <1>2, <1>4, <2>1, <2>2, <2>3, RunFacts DEF OwnStep, Written, Names, Threads
  <2>5. disk.file \in Run \cup {None}
    BY RunFacts
  <2> QED
    BY <2>2, <2>3, <2>4, <2>5, RunStep
<1> QED
  BY <1>3, <1>4

\* A task that leaves takes its tmp file with it, unless it has published it.
LEMMA LeaveKeeps ==
  ASSUME Names, SlotInv, NEW r \in Run,
         NEW at \in {None, "record"}, Leave(r, at),
         slot' \in {slot, [slot EXCEPT !.faults = @ + 1]},
         runs[r].at \in {"work", "publish", "commit"}
  PROVE  SlotInv'
<1> DEFINE n == [runs[r] EXCEPT !.at = at, !.thread = Unlinked(r)]
           t == IF runs[r].at = "commit" THEN disk.tmp[r] ELSE None
<1>1. runs' = [runs EXCEPT ![r] = n]
  BY DEF Leave, SlotInv, SlotTypeOK
<1>2. disk' = [file |-> disk.file, tmp |-> [disk.tmp EXCEPT ![r] = t]]
  BY DEF Leave, Dropped, Staging, SlotInv, SlotTypeOK
<1>3. /\ n \in RunRecord /\ n.status = runs[r].status /\ n.at = at
      /\ n.thread = Unlinked(r)
  BY <1>1, RunFacts DEF Unlinked, Places, Threads
<1>4. /\ t \in {None, Partial, r}
      /\ runs[r].at = "commit" => runs[r].thread = "done" /\ t # Partial
      /\ runs[r].status \in {"running", "canceled"}
  BY RunFacts DEF Names, SlotInv, TaskInv, TmpInv
<1>5. /\ slot' \in [row : {slot.row, r}, removing : {slot.removing}, deletes : {slot.deletes},
                    restarts : Nat, faults : Nat]
      /\ slot'.row = slot.row
  BY RunFacts DEF SlotInv, SlotTypeOK
<1>6. t # None => n.thread # None
  BY <1>3, <1>4 DEF Unlinked, Names, Threads
<1>7. t # Partial
  BY <1>4 DEF Names
<1> HIDE DEF n, t
<1>8. OwnStep(r, n, t, disk.file)
  BY <1>1, <1>2, <1>3, <1>4, <1>5, <1>6, <1>7 DEF OwnStep, Names, Places, Statuses
<1>9. disk.file \in Run \cup {None}
  BY RunFacts
<1> QED
  BY <1>3, <1>4, <1>8, <1>9, RunStep

\* A task ends its run, or publishes and commits the output.
LEMMA EndKeeps ==
  ASSUME Names, SlotInv, NEW r \in Run,
         CancelSeen(r) \/ Fails(r) \/ Record(r) \/ Worked(r) \/ Publish(r) \/ Commit(r)
  PROVE  SlotInv'
<1>1. /\ runs[r].at \in {"work", "publish", "commit", "record"} => runs[r].status \in {"running", "canceled"}
      /\ runs[r].at \in {"publish", "commit"} => runs[r].thread = "done"
      /\ disk.tmp[r] = Partial => runs[r].thread = "write"
  BY DEF SlotInv, TaskInv, TmpInv
<1>2. CASE CancelSeen(r)
  BY <1>2, LeaveKeeps DEF CancelSeen
<1>3. CASE Fails(r)
  BY <1>3, LeaveKeeps DEF Fails
<1>4. CASE Record(r)
  <2> DEFINE n == [runs[r] EXCEPT !.at = None,
                     !.status = IF runs[r].status = "running" THEN "failed" ELSE runs[r].status]
  <2>1. runs' = [runs EXCEPT ![r] = n] /\ UNCHANGED <<disk, slot>>
    BY <1>4 DEF Record, SlotInv, SlotTypeOK
  <2>2. n \in RunRecord /\ n.status \in {"failed", "canceled"} /\ n.at = None /\ n.thread = runs[r].thread
    BY <1>1, <1>4, RunFacts DEF Record, Statuses
  <2> HIDE DEF n
  <2>3. QuietOwnStep(r, n)
    BY <1>4, <2>1, <2>2 DEF QuietOwnStep, Record, Names, Places, Statuses
  <2> QED
    BY <2>2, <2>3, QuietStep
<1>5. CASE Worked(r)
  <2> DEFINE n == [runs[r] EXCEPT !.at = "publish"]
  <2>1. runs' = [runs EXCEPT ![r] = n] /\ UNCHANGED <<disk, slot>>
    BY <1>5 DEF Worked, SlotInv, SlotTypeOK
  <2>2. n \in RunRecord /\ n.status = runs[r].status /\ n.at = "publish" /\ n.thread = runs[r].thread
    BY RunFacts DEF Places
  <2> HIDE DEF n
  <2>3. QuietOwnStep(r, n)
    BY <1>1, <1>5, <2>1, <2>2 DEF QuietOwnStep, Worked, Names, Statuses
  <2> QED
    BY <2>2, <2>3, QuietStep
<1>6. CASE Publish(r)
  <2>1. CASE disk.tmp[r] = None
    BY <1>6, <2>1, LeaveKeeps DEF Publish, Staging
  <2>2. CASE disk.tmp[r] # None
    <3> DEFINE n == [runs[r] EXCEPT !.at = "commit"]
    <3>1. disk.tmp[r] = r
      BY <1>1, <1>6, <2>2, RunFacts DEF Publish
    <3>2. /\ runs' = [runs EXCEPT ![r] = n]
          /\ disk' = [file |-> r, tmp |-> [disk.tmp EXCEPT ![r] = None]]
      BY <1>6, <2>2, <3>1 DEF Publish, Staging, SlotInv, SlotTypeOK
    <3>3. n \in RunRecord /\ n.status = runs[r].status /\ n.at = "commit" /\ n.thread = runs[r].thread
      BY RunFacts DEF Places
    <3> HIDE DEF n
    <3>4. OwnStep(r, n, None, r)
      BY <1>1, <1>6, <3>2, <3>3, RunFacts DEF OwnStep, Publish, Names, Statuses
    <3> QED
      BY <3>3, <3>4, RunStep
  <2> QED
    BY <2>1, <2>2
<1>7. CASE Commit(r)
  <2>1. CASE runs[r].status = "running"
    <3> DEFINE n == [runs[r] EXCEPT !.at = None, !.status = "succeeded"]
    <3>1. runs' = [runs EXCEPT ![r] = n] /\ slot' = [slot EXCEPT !.row = r] /\ UNCHANGED disk
      BY <1>7, <2>1 DEF Commit, SlotInv, SlotTypeOK
    <3>2. n \in RunRecord /\ n.status = "succeeded" /\ n.at = None /\ n.thread = "done"
      BY <1>1, <1>7, RunFacts DEF Commit, Statuses
    <3>3. /\ slot' \in [row : {slot.row, r}, removing : {slot.removing}, deletes : {slot.deletes},
                        restarts : Nat, faults : Nat]
          /\ slot'.row = r
      BY <3>1 DEF SlotInv, SlotTypeOK
    <3> HIDE DEF n
    <3>4. OwnStep(r, n, disk.tmp[r], disk.file)
      BY <1>1, <1>7, <2>1, <3>1, <3>2, <3>3, RunFacts DEF OwnStep, Commit, Names, Statuses, Places, Threads
    <3>5. disk.file \in Run \cup {None} /\ disk.tmp[r] \in {None, Partial, r}
      BY RunFacts
    <3> QED
      BY <3>2, <3>4, <3>5, RunStep
  <2>2. CASE runs[r].status # "running"
    <3> DEFINE n == [runs[r] EXCEPT !.at = "record"]
    <3>1. runs' = [runs EXCEPT ![r] = n] /\ UNCHANGED <<disk, slot>>
      BY <1>7, <2>2 DEF Commit, SlotInv, SlotTypeOK
    <3>2. n \in RunRecord /\ n.status = "canceled" /\ n.at = "record" /\ n.thread = runs[r].thread
      BY <1>1, <1>7, <2>2, RunFacts DEF Commit, Places
    <3> HIDE DEF n
    <3>3. QuietOwnStep(r, n)
      BY <1>1, <1>7, <3>1, <3>2 DEF QuietOwnStep, Commit, Names, Statuses
    <3> QED
      BY <3>2, <3>3, QuietStep
  <2> QED
    BY <2>1, <2>2
<1> QED
  BY <1>2, <1>3, <1>4, <1>5, <1>6, <1>7

-----------------------------------------------------------------------------
(* Deletions and restarts                                                  *)

\* A deletion keeps the invariant of the slots.
LEMMA DeleteKeeps ==
  ASSUME Names, SlotInv, Delete \/ Remove
  PROVE  SlotInv'
<1>1. CASE Delete
  <2>1. /\ UNCHANGED <<disk, runs>>
        /\ slot' \in SlotRecord
        /\ slot'.row = None /\ slot'.deletes = slot.deletes + 1 /\ slot'.deletes > 0
    <3>1. slot \in SlotRecord
      BY DEF SlotInv, SlotTypeOK
    <3>2. slot' = [row |-> None, removing |-> TRUE, deletes |-> slot.deletes + 1,
                   restarts |-> slot.restarts, faults |-> slot.faults]
      BY <1>1, <3>1 DEF Delete
    <3>3. slot.deletes \in Nat /\ slot.restarts \in Nat /\ slot.faults \in Nat
      BY <3>1
    <3>4. /\ slot' \in SlotRecord
          /\ slot'.row = None /\ slot'.deletes = slot.deletes + 1 /\ slot'.deletes > 0
      BY <3>2, <3>3
    <3>5. UNCHANGED <<disk, runs>>
      BY <1>1 DEF Delete
    <3>6. QED
      BY <3>4, <3>5
  <2>2. SlotTypeOK'
    BY <2>1 DEF SlotInv, SlotTypeOK
  <2>3. TaskInv' /\ TmpInv' /\ OneActive'
    BY <2>1 DEF SlotInv, TaskInv, TmpInv, OneActive
  <2>4. CommitInv'
    BY <2>1 DEF SlotInv, CommitInv
  <2>5. SlotIsSound'
    BY <2>1 DEF SlotInv, SlotIsSound, SlotIsWhole, NoOldSuccess, RowHasFile, NoTmpLeft
  <2> QED
    BY <2>1, <2>2, <2>3, <2>4, <2>5 DEF SlotInv
<1>2. CASE Remove
  <2>1. /\ disk'.file = None /\ \A r \in Run : disk'.tmp[r] = None
        /\ disk' \in [file : Run \cup {Partial, None}, tmp : [Run -> Run \cup {Partial, None}]]
    BY <1>2 DEF Remove
  <2>2. /\ slot' \in SlotRecord
        /\ slot'.row = slot.row /\ slot'.removing = FALSE /\ slot'.deletes = slot.deletes /\ slot.deletes > 0
    BY <1>2 DEF Remove, SlotInv, SlotTypeOK
  <2>3. \A r \in Run :
          /\ runs'[r] \in RunRecord
          /\ runs'[r].status = runs[r].status /\ runs'[r].at = runs[r].at
          /\ runs[r].thread \in {"done", None} => runs'[r].thread = runs[r].thread
    BY <1>2, RunFacts DEF Remove, Unlinked, Threads, Names
  <2>4. SlotTypeOK'
    BY <1>2, <2>1, <2>2, <2>3 DEF Remove, SlotTypeOK
  <2>5. TaskInv' /\ TmpInv' /\ OneActive'
    <3>1. TaskInv'
      BY <2>1, <2>3 DEF SlotInv, TaskInv
    <3>2. TmpInv'
      BY <2>1 DEF Names, TmpInv
    <3>3. OneActive'
      BY <2>3 DEF SlotInv, OneActive
    <3>4. QED
      BY <3>1, <3>2, <3>3
  <2>6. CommitInv'
    BY <2>1, <2>2, <2>3 DEF Names, SlotInv, CommitInv
  <2>7. SlotIsSound'
    BY <2>1, <2>2 DEF Names, SlotInv, SlotIsSound, SlotIsWhole, NoOldSuccess, RowHasFile, NoTmpLeft
  <2> QED
    BY <2>2, <2>4, <2>5, <2>6, <2>7 DEF SlotInv
<1> QED
  BY <1>1, <1>2

\* A restart keeps the invariant of the slots.
LEMMA RestartKeeps ==
  ASSUME Names, SlotInv, Restart
  PROVE  SlotInv'
<1>1. /\ disk'.file = disk.file /\ \A r \in Run : disk'.tmp[r] = None
      /\ disk' \in [file : Run \cup {Partial, None}, tmp : [Run -> Run \cup {Partial, None}]]
  BY DEF Restart, SlotInv, SlotTypeOK
<1>2. /\ slot' \in SlotRecord
      /\ slot'.row = slot.row /\ slot'.removing = FALSE /\ slot'.deletes = slot.deletes
  <2>1. slot \in SlotRecord
    BY DEF SlotInv, SlotTypeOK
  <2>2. slot' = [row |-> slot.row, removing |-> FALSE, deletes |-> slot.deletes,
                 restarts |-> slot.restarts + 1, faults |-> slot.faults]
    BY <2>1 DEF Restart
  <2>3. /\ slot.row \in Run \cup {None}
        /\ slot.deletes \in Nat /\ slot.restarts \in Nat /\ slot.faults \in Nat
    BY <2>1
  <2>4. QED
    BY <2>2, <2>3
<1>3. \A r \in Run :
        /\ runs'[r] \in RunRecord
        /\ runs'[r].status = IF runs[r].status = "running" THEN "failed" ELSE runs[r].status
        /\ runs'[r].at = IF runs[r].status = "queued" THEN "start" ELSE None
        /\ runs'[r].thread = None
  BY RunFacts DEF Restart, Statuses, Places
<1>4. SlotTypeOK'
  BY <1>1, <1>2, <1>3 DEF Restart, SlotTypeOK
<1>5. TaskInv' /\ TmpInv' /\ OneActive' /\ CommitInv'
  BY <1>1, <1>3 DEF Names, Statuses, Places, SlotInv, TaskInv, TmpInv, OneActive, CommitInv
<1>6. SlotIsWhole' /\ NoOldSuccess' /\ RowHasFile' /\ NoTmpLeft'
  BY <1>1, <1>2, <1>3 DEF SlotInv, SlotIsSound, SlotIsWhole, NoOldSuccess, RowHasFile, NoTmpLeft
<1> QED
  BY <1>2, <1>4, <1>5, <1>6 DEF SlotInv, SlotIsSound

-----------------------------------------------------------------------------

\* Every step keeps the invariant of the slots.
LEMMA NextKeeps ==
  ASSUME Names, SlotInv, [Next]_vars
  PROVE  SlotInv'
<1>1. CASE UNCHANGED vars
  BY <1>1 DEF vars, SlotInv, SlotTypeOK, TaskInv, TmpInv, OneActive, CommitInv,
       SlotIsSound, SlotIsWhole, NoOldSuccess, RowHasFile, NoTmpLeft
<1>2. CASE Next
  BY <1>2, QueueKeeps, ThreadKeeps, EndKeeps, DeleteKeeps, RestartKeeps DEF Next
<1> QED
  BY <1>1, <1>2

\* Whatever is canceled, deleted, cut off by a restart or refused by the storage, and
\* however many runs a chip has had: what readers find in the slot is a whole file, it
\* is not the output of an older success, a row that was never deleted has its file, and
\* every tmp file belongs to a run at work or a thread that still goes on.
THEOREM SlotStaysSound ==
  ASSUME Names
  PROVE  Spec => []SlotIsSound
<1>1. Init => SlotInv
  BY InitSlot
<1>2. SlotInv /\ [Next]_vars => SlotInv'
  BY NextKeeps
<1>3. SlotInv => SlotIsSound
  BY DEF SlotInv
<1> QED
  BY <1>1, <1>2, <1>3, PTL DEF Spec
=============================================================================
