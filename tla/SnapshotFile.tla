------------------------------ MODULE SnapshotFile ------------------------------
(***************************************************************************)
(* The snapshot of the node rows on disk (snapshot.rs) and the end of the  *)
(* server (drain_server_shutdown of startup.rs): a task writes the rows    *)
(* every 15 seconds if their revision has moved, and once more when the    *)
(* server stops.  Both write the same temporary file and rename it.        *)
(*                                                                         *)
(* The rows are the number `version`, which is nodes_revision as well:     *)
(* rows and revision change in one step (NodeViews).  Contents of files    *)
(* are kept by inode, because a writer goes on with the file it opened.    *)
(*                                                                         *)
(* Definitions whose comment says "faulty" are variants that no action     *)
(* uses (README).                                                          *)
(***************************************************************************)
EXTENDS Naturals

CONSTANTS
  MaxVersion,     \* bound of the model: versions of the rows
  MaxInodes,      \* bound of the model: files created
  DiskMayStall    \* a write may take longer than the 5 seconds that shutdown
                  \* waits for the task

ASSUME SnapshotAssumption ==
  /\ {MaxVersion, MaxInodes} \subseteq Nat \ {0}
  /\ DiskMayStall \in BOOLEAN

VARIABLES
  version,
  phase,          \* of the server
  saver,          \* where the task and the final flush are
  noted,          \* the revision the task read first
  listed,         \* the rows that each of them writes
  checkpoint,     \* SnapshotPersistCheckpoint, 0 for None
  tmp, target,    \* the inodes behind the two paths, 0 if there is none
  opened,         \* the inode that each of them writes to
  content         \* content of the inodes

snapshotVars == <<version, phase, saver, noted, listed, checkpoint, tmp, target,
                  opened, content>>

Savers == {"task", "final"}
Partial == 0   \* a file that is empty or incomplete

SnapshotTypeOK ==
  /\ version \in 1..MaxVersion
  /\ phase \in {"running", "cancelled", "flushing", "exited"}
  /\ saver \in [Savers -> {"idle", "noted", "listed", "opened", "written", "renamed", "ended"}]
  /\ {noted, checkpoint} \subseteq 0..MaxVersion
  /\ listed \in [Savers -> 0..MaxVersion]
  /\ {tmp, target} \subseteq 0..MaxInodes /\ opened \in [Savers -> 0..MaxInodes]
  /\ content \in [1..MaxInodes -> Partial..MaxVersion]

\* restore_snapshot_if_available: the rows are those of the file if there is one, but
\* the checkpoint is not.  An earlier process may have left a temporary file.
SnapshotInit ==
  /\ version = 1 /\ phase = "running" /\ checkpoint = 0 /\ noted = 0
  /\ saver = [s \in Savers |-> "idle"] /\ listed = [s \in Savers |-> 0]
  /\ target \in 0..1 /\ tmp \in {0, 2} \cap 0..MaxInodes
  /\ opened = [s \in Savers |-> 0]
  /\ content = [i \in 1..MaxInodes |-> IF i = target THEN 1 ELSE Partial]

Go(s, step) == saver' = [saver EXCEPT ![s] = step]

\* Agents go on reporting until the process ends: shutdown tells their sessions to
\* close, but does not wait for them.
RowsChange ==
  /\ version < MaxVersion
  /\ version' = version + 1
  /\ UNCHANGED <<phase, saver, noted, listed, checkpoint, tmp, target, opened, content>>

\* A tick of the task; the checkpoint says that nothing has changed, or the task
\* notes the revision and goes on.
SaverTick ==
  /\ phase = "running" /\ saver["task"] = "idle" /\ checkpoint # version
  /\ Go("task", "noted") /\ noted' = version
  /\ UNCHANGED <<version, phase, listed, checkpoint, tmp, target, opened, content>>

\* Faulty: the revision is read after the rows.
ListThenNote(s) ==
  /\ saver[s] = IF s = "task" THEN "noted" ELSE "idle"
  /\ s = "final" => phase = "flushing"
  /\ Go(s, "listed") /\ listed' = [listed EXCEPT ![s] = IF s = "task" THEN noted ELSE version]
  /\ noted' = IF s = "task" THEN version ELSE noted
  /\ UNCHANGED <<version, phase, checkpoint, tmp, target, opened, content>>

\* list_statuses, by the task and by the final flush.
List(s) ==
  /\ saver[s] = IF s = "task" THEN "noted" ELSE "idle"
  /\ s = "final" => phase = "flushing"
  /\ Go(s, "listed") /\ listed' = [listed EXCEPT ![s] = version]
  /\ UNCHANGED <<version, phase, noted, checkpoint, tmp, target, opened, content>>

\* write_snapshot_payload opens the temporary file, creating or truncating it, and
\* then writes and syncs it.
OpenTmp(s) ==
  /\ saver[s] = "listed"
  /\ \E i \in 1..MaxInodes :
       /\ IF tmp # 0 THEN i = tmp
          ELSE i # target /\ \A other \in Savers : saver[other] = "opened" => i # opened[other]
       /\ tmp' = i /\ opened' = [opened EXCEPT ![s] = i]
       /\ content' = [content EXCEPT ![i] = Partial]
  /\ Go(s, "opened")
  /\ UNCHANGED <<version, phase, noted, listed, checkpoint, target>>

\* Two writers of one file leave the content of one of them or a mixture.
WriteTmp(s) ==
  /\ saver[s] = "opened"
  /\ \E c \in {listed[s]} \cup (IF content[opened[s]] = Partial THEN {} ELSE {Partial}) :
       content' = [content EXCEPT ![opened[s]] = c]
  /\ Go(s, "written")
  /\ UNCHANGED <<version, phase, noted, listed, checkpoint, tmp, target, opened>>

\* Faulty: the rename does not wait for the write.
RenameUnwritten(s) ==
  /\ saver[s] \in {"opened", "written"} /\ tmp # 0
  /\ target' = tmp /\ tmp' = 0
  /\ Go(s, "renamed")
  /\ UNCHANGED <<version, phase, noted, listed, checkpoint, opened, content>>

RenameTmp(s) ==
  /\ saver[s] = "written" /\ tmp # 0
  /\ target' = tmp /\ tmp' = 0
  /\ Go(s, "renamed")
  /\ UNCHANGED <<version, phase, noted, listed, checkpoint, opened, content>>

After(s) == IF s = "task" THEN "idle" ELSE "ended"

\* The permissions are set, and the task takes the revision it noted as checkpoint.
SaveSucceeds(s) ==
  /\ saver[s] = "renamed"
  /\ Go(s, After(s))
  /\ checkpoint' = IF s = "task" THEN noted ELSE checkpoint
  /\ UNCHANGED <<version, phase, noted, listed, tmp, target, opened, content>>

\* An error of any step is logged, and the rows are not taken as saved.
SaveFails(s) ==
  /\ saver[s] \in {"listed", "opened", "written", "renamed"}
  /\ Go(s, After(s)) /\ listed' = [listed EXCEPT ![s] = 0]
  /\ UNCHANGED <<version, phase, noted, checkpoint, tmp, target, opened, content>>

\* The HTTP server has stopped, and the tasks are told to end.
CancelTasks ==
  /\ phase = "running"
  /\ phase' = "cancelled"
  /\ UNCHANGED <<version, saver, noted, listed, checkpoint, tmp, target, opened, content>>

TaskEnds ==
  /\ phase # "running" /\ saver["task"] = "idle"
  /\ Go("task", "ended")
  /\ UNCHANGED <<version, phase, noted, listed, checkpoint, tmp, target, opened, content>>

\* The wait for the task ends with it or after 5 seconds, which leaves it running.
JoinEnds ==
  /\ phase = "cancelled"
  /\ \/ saver["task"] = "ended"
     \/ DiskMayStall /\ saver["task"] \in {"opened", "written", "renamed"}
  /\ phase' = "flushing"
  /\ UNCHANGED <<version, saver, noted, listed, checkpoint, tmp, target, opened, content>>

\* The process ends after the final flush, or crashes.
Exit ==
  /\ phase = "flushing" /\ saver["final"] = "ended"
  /\ saver["task"] # "opened"   \* the runtime waits for blocking writes
  /\ phase' = "exited"
  /\ UNCHANGED <<version, saver, noted, listed, checkpoint, tmp, target, opened, content>>

SnapshotNext ==
  /\ phase # "exited"
  /\ \/ RowsChange \/ SaverTick \/ CancelTasks \/ TaskEnds \/ JoinEnds \/ Exit
     \/ \E s \in Savers : \/ List(s) \/ OpenTmp(s) \/ WriteTmp(s) \/ RenameTmp(s)
                          \/ SaveSucceeds(s) \/ SaveFails(s)

SnapshotSpec == SnapshotInit /\ [][SnapshotNext]_snapshotVars

--------------------------------------------------------------------------------
\* When the task goes by its checkpoint, the file on disk is at least as new as the
\* revision of that checkpoint: no change is skipped because it arrived while an
\* older state was being written (persist_snapshot_if_changed).
CheckpointOnDisk ==
  checkpoint > 0 /\ saver["task"] \in {"idle", "noted"} /\ phase = "running" =>
    target # 0 /\ content[target] >= checkpoint

\* Whenever the process crashes, a restart finds no file or a complete one
\* (persist_snapshot, load_snapshot).
SnapshotIsWhole == target # 0 => content[target] # Partial

\* After a shutdown whose final flush succeeded, the file shows the rows that the
\* flush has listed (the comments of drain_server_shutdown).
FinalSnapshotStays ==
  phase = "exited" /\ listed["final"] > 0 =>
    target # 0 /\ content[target] >= listed["final"]
================================================================================
