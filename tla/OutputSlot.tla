----------------------------- MODULE OutputSlot -----------------------------
(***************************************************************************)
(* The output slot of a chip: the file chip_outputs/<workspace>/<chip>/    *)
(* current.*, the tmp files beside it and the row of data_files for it     *)
(* (storage/src/chip_slot.rs, and the runs of extract, transform and       *)
(* script chips that write it: server/src/extract.rs, jobs/src/lib.rs,     *)
(* server/src/script.rs).  A run writes its tmp file in a blocking thread, *)
(* renames it over the slot, and then commits its success with the row.    *)
(*                                                                         *)
(* disk   file: whose output the slot holds, Partial if it is not whole,   *)
(*        None if there is none; tmp[r]: the same of the staging file of r *)
(* slot   row: the run whose success the row describes, None while there   *)
(*        is no row or it is deleted; removing: a deletion has committed   *)
(*        and has still to remove the file                                 *)
(* runs   of each run its status, its task - at "start", "work", "publish",*)
(*        "commit", "record" or gone - and its thread: "open" before the   *)
(*        file is created, "write", "unlinked" when the file it writes has *)
(*        been removed, "done" or gone                                     *)
(***************************************************************************)
EXTENDS Naturals, FiniteSets

CONSTANTS
  Run,           \* runs of the chip: 1, 2 and on, in the order they are queued
  MaxDeletes,    \* bounds on deletions of the file, on restarts and on calls
  MaxRestarts,   \* that fail
  MaxFaults,
  None

VARIABLES disk, slot, runs
vars == <<disk, slot, runs>>

Active == {"queued", "running"}
Partial == 0

Init ==
  /\ disk = [file |-> None, tmp |-> [r \in Run |-> None]]
  /\ slot = [row |-> None, removing |-> FALSE, deletes |-> 0, restarts |-> 0, faults |-> 0]
  /\ runs = [r \in Run |-> [status |-> None, at |-> None, thread |-> None]]

\* Mutant: one name for all runs of a chip.
StagingShared(r) == CHOOSE q \in Run : TRUE

\* staging_rel: a sibling of the slot, named after the run.
Staging(r) == r

-----------------------------------------------------------------------------
(* A run: its row                                                          *)

\* A run is queued only while none of the chip is active.
Submit(r) ==
  /\ runs[r].status = None /\ \A q \in Run : q < r => runs[q].status # None
  /\ \A q \in Run : runs[q].status \notin Active
  /\ runs' = [runs EXCEPT ![r].status = "queued", ![r].at = "start"]
  /\ UNCHANGED <<disk, slot>>

Cancel(r) ==
  /\ runs[r].status \in Active
  /\ runs' = [runs EXCEPT ![r].status = "canceled"]
  /\ UNCHANGED <<disk, slot>>

\* The running mark, and the thread that writes.
Start(r) ==
  /\ runs[r].at = "start" /\ UNCHANGED <<disk, slot>>
  /\ runs' = IF runs[r].status = "queued"
             THEN [runs EXCEPT ![r] = [status |-> "running", at |-> "work", thread |-> "open"]]
             ELSE [runs EXCEPT ![r].at = None]

-----------------------------------------------------------------------------
(* The thread, which goes on when its task is gone                         *)

Create(r) ==
  /\ runs[r].thread = "open"
  /\ runs' = [runs EXCEPT ![r].thread = "write"]
  /\ disk' = [disk EXCEPT !.tmp[Staging(r)] = Partial]
  /\ UNCHANGED slot

Written(r) ==
  /\ runs[r].thread \in {"write", "unlinked"} /\ UNCHANGED slot
  /\ runs' = [runs EXCEPT ![r].thread = "done"]
  /\ disk' = IF runs[r].thread = "write" THEN [disk EXCEPT !.tmp[Staging(r)] = r] ELSE disk

-----------------------------------------------------------------------------
(* The task                                                                *)

\* The drop of the StagingFile, unless it has been kept: the tmp file is removed, and a
\* thread that writes it goes on writing a file without a name.
Dropped(r) == [disk EXCEPT !.tmp[Staging(r)] = None]
Unlinked(r) == IF runs[r].thread = "write" THEN "unlinked" ELSE runs[r].thread

\* The future is dropped at its cancel poll, or returns an error: of the work, of a time
\* limit while the thread goes on, or of a storage call.  An error is recorded by the
\* task, and only while the run is still running.
Leave(r, at) ==
  /\ runs' = [runs EXCEPT ![r].at = at, ![r].thread = Unlinked(r)]
  /\ disk' = IF runs[r].at = "commit" THEN disk ELSE Dropped(r)
CancelSeen(r) ==
  /\ runs[r].at \in {"work", "publish", "commit"} /\ runs[r].status = "canceled"
  /\ Leave(r, None) /\ UNCHANGED slot
Fails(r) ==
  /\ runs[r].at \in {"work", "publish", "commit"} /\ slot.faults < MaxFaults
  /\ Leave(r, "record") /\ slot' = [slot EXCEPT !.faults = @ + 1]
Record(r) ==
  /\ runs[r].at = "record" /\ UNCHANGED <<disk, slot>>
  /\ runs' = [runs EXCEPT ![r].at = None, ![r].status = IF @ = "running" THEN "failed" ELSE @]

\* The thread has ended; transform jobs look once more whether they are canceled.
Worked(r) ==
  /\ runs[r].at = "work" /\ runs[r].thread = "done"
  /\ runs' = [runs EXCEPT ![r].at = "publish"] /\ UNCHANGED <<disk, slot>>

\* rename replaces the slot, or fails when the tmp file is gone.
Publish(r) ==
  /\ runs[r].at = "publish" /\ UNCHANGED slot
  /\ IF disk.tmp[Staging(r)] = None
     THEN Leave(r, "record")
     ELSE /\ disk' = [disk EXCEPT !.file = disk.tmp[Staging(r)], !.tmp[Staging(r)] = None]
          /\ runs' = [runs EXCEPT ![r].at = "commit"]

\* One transaction writes the row and the success, and is refused if the run has ended.
Commit(r) ==
  /\ runs[r].at = "commit" /\ UNCHANGED disk
  /\ IF runs[r].status = "running"
     THEN /\ runs' = [runs EXCEPT ![r].at = None, ![r].status = "succeeded"]
          /\ slot' = [slot EXCEPT !.row = r]
     ELSE runs' = [runs EXCEPT ![r].at = "record"] /\ UNCHANGED slot

-----------------------------------------------------------------------------
(* Deletion of the file and restarts                                       *)

\* delete_extract: the row in a transaction, then the folder with all that is in it.
Delete ==
  /\ slot.row # None /\ ~slot.removing /\ slot.deletes < MaxDeletes
  /\ slot' = [slot EXCEPT !.row = None, !.removing = TRUE, !.deletes = @ + 1]
  /\ UNCHANGED <<disk, runs>>
Remove ==
  /\ slot.removing /\ slot' = [slot EXCEPT !.removing = FALSE]
  /\ disk' = [file |-> None, tmp |-> [r \in Run |-> None]]
  /\ runs' = [r \in Run |-> [runs[r] EXCEPT !.thread = Unlinked(r)]]

\* Tasks and threads are gone; recovery fails what was running and sweeps the tmp files.
Restart ==
  /\ slot.restarts < MaxRestarts
  /\ slot' = [slot EXCEPT !.restarts = @ + 1, !.removing = FALSE]
  /\ disk' = [disk EXCEPT !.tmp = [r \in Run |-> None]]
  /\ runs' = [r \in Run |->
       IF runs[r].status = "running" THEN [status |-> "failed", at |-> None, thread |-> None]
       ELSE [runs[r] EXCEPT !.thread = None, !.at = IF runs[r].status = "queued" THEN "start" ELSE None]]

Next ==
  \/ Delete \/ Remove \/ Restart
  \/ \E r \in Run :
       \/ Submit(r) \/ Cancel(r) \/ Start(r) \/ Create(r) \/ Written(r)
       \/ CancelSeen(r) \/ Fails(r) \/ Record(r) \/ Worked(r) \/ Publish(r) \/ Commit(r)

Spec == Init /\ [][Next]_vars

-----------------------------------------------------------------------------
\* Whatever threads of canceled, failed or timed-out runs still write, a reader never
\* finds half a file in the slot.
SlotIsWhole == disk.file # Partial

\* The output of an older success does not come back: what the slot holds is of the run
\* the row describes, or of one that has not succeeded.
NoOldSuccess ==
  slot.row # None /\ disk.file \in Run /\ runs[disk.file].status = "succeeded" => disk.file = slot.row

\* A row has its file.  (Unless a run committed between the two halves of a deletion:
\* then it is the new file that is removed.)
RowHasFile == slot.row # None /\ slot.deletes = 0 => disk.file # None

\* A tmp file is of a run that is at work, or of a thread that nobody waits for.
NoTmpLeft ==
  \A r \in Run : disk.tmp[r] # None => runs[r].at \in {"work", "publish"} \/ runs[r].thread # None

SlotIsSound == SlotIsWhole /\ NoOldSuccess /\ RowHasFile /\ NoTmpLeft

\* docs/workspace.md, on the current output: only a successful rerun overwrites the slot,
\* and a failed, canceled or interrupted one leaves current.* as the last success was.
OnlySuccessReplaces ==
  slot.row # None /\ ~slot.removing /\ (\A r \in Run : runs[r].status \notin Active /\ runs[r].at = None) =>
    disk.file = slot.row
=============================================================================
