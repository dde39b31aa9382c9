---------------------------- MODULE BackupEpoch ----------------------------
(***************************************************************************)
(* `backup_epoch` beside the running server, and `restore_epoch` into a    *)
(* data directory that was lost.  A backup copies the database in one      *)
(* consistent step and the blob files of its rows after it, one by one,    *)
(* while uploads go on; a restore publishes the database first and writes  *)
(* the blobs after it.  Either can fail, and its process can die, between  *)
(* any two steps.  Of the database this module keeps the rows of `blobs`,  *)
(* as SQLite reads them: from the database file and, on top of it, from a  *)
(* write-ahead log that a killed server has left beside it.                *)
(***************************************************************************)
EXTENDS BlobStore

CONSTANTS
    Name,   \* destination directories of backups
    Absent

VARIABLES
    database,  \* whether the database file exists
    log,       \* the log left behind or Absent
    serving,   \* whether the server runs
    backup,    \* the running backup
    epochs,    \* destination -> epoch or Absent
    restore,   \* the running restore
    tainted    \* history: the present data came from a restore that died or
               \* that met a log

vars == <<storeVars, database, log, serving, backup, epochs, restore, tainted>>

\* An epoch: the rows in its database, its inventory.json and its files; `damaged`
\* only observes which files it has lost since it was published.
Epoch ==
    [rows : SUBSET Blob, inventory : SUBSET Blob, files : SUBSET Blob,
     damaged : SUBSET Blob]

\* A log with pages of the table.
Log == [rows : SUBSET Blob]

ASSUME AbsentEpochAssumption == Absent \notin Epoch \cup Log

NoEpoch == [rows |-> {}, inventory |-> {}, files |-> {}, damaged |-> {}]

BackupStage == {"idle", "copied", "listed"}

RestoreStage == {"idle", "verified", "published", "done"}

Init ==
    /\ StoreInit
    /\ database = FALSE
    /\ log = Absent
    /\ serving = FALSE
    /\ backup \in [stage : {"idle"}, name : Name, epoch : {NoEpoch}]
    /\ epochs = [n \in Name |-> Absent]
    /\ restore = [stage |-> "idle", epoch |-> NoEpoch]
    /\ tainted = FALSE

----------------------------------------------------------------------------
(* The server *)

Serve ==
    /\ serving
    /\ StoreNext
    /\ UNCHANGED <<database, log, serving, backup, epochs, restore, tainted>>

\* `_migrate` creates what is missing.  README: nothing runs during a restore.
\* A log is written back, or deleted where the database is new.
Start ==
    /\ ~serving
    /\ restore.stage = "idle"
    /\ database' = TRUE
    /\ log' = Absent
    /\ serving' = TRUE
    /\ UNCHANGED <<storeVars, backup, epochs, restore, tainted>>

\* Between requests no connection is open and there is no log; a server killed
\* within one may leave it.
Stop ==
    /\ serving
    /\ serving' = FALSE
    /\ upload' = [upload EXCEPT !.stage = "idle"]
    /\ log' \in {Absent, [rows |-> blobs]}
    /\ UNCHANGED <<blobs, files, directory, database, backup, epochs, restore, tainted>>

\* Outside the program: the database is removed, with or without the log and
\* with or without the blobs.
Lose ==
    /\ ~serving
    /\ backup.stage = "idle"
    /\ restore.stage = "idle"
    /\ database' = FALSE
    /\ log' \in {Absent, log}
    /\ blobs' = {}
    /\ \/ UNCHANGED <<files, directory>>
       \/ files' = {} /\ directory' = FALSE
    /\ tainted' = FALSE
    /\ UNCHANGED <<upload, serving, backup, epochs, restore>>

----------------------------------------------------------------------------
(* backup_epoch *)

\* SQLite's online backup: one state of the database, committed rows only.
\* The command opens the store first, which writes a log back if there is one and
\* creates the database if there is none.
BeginBackup(n) ==
    /\ restore.stage = "idle"
    /\ backup.stage = "idle"
    /\ epochs[n] = Absent
    /\ backup' = [stage |-> "copied", name |-> n,
                  epoch |-> [NoEpoch EXCEPT !.rows = blobs]]
    /\ database' = TRUE
    /\ log' = Absent
    /\ UNCHANGED <<storeVars, serving, epochs, restore, tainted>>

\* SELECT ... FROM blobs in the copy.
List ==
    /\ backup.stage = "copied"
    /\ backup' = [backup EXCEPT !.stage = "listed",
                                !.epoch.inventory = backup.epoch.rows]
    /\ UNCHANGED <<storeVars, database, log, serving, epochs, restore, tainted>>

\* Fault: a row whose file is missing is skipped.
ToCopySkipping == (backup.epoch.inventory \cap files) \ backup.epoch.files

ToCopy == backup.epoch.inventory \ backup.epoch.files

CopyBlob(b) ==
    /\ backup.stage = "listed"
    /\ b \in ToCopy \cap files
    /\ backup' = [backup EXCEPT !.epoch.files = @ \cup {b}]
    /\ UNCHANGED <<storeVars, database, log, serving, epochs, restore, tainted>>

\* os.replace
PublishEpoch ==
    /\ backup.stage = "listed"
    /\ ToCopy = {}
    /\ epochs' = [epochs EXCEPT ![backup.name] = backup.epoch]
    /\ backup' = [backup EXCEPT !.stage = "idle", !.epoch = NoEpoch]
    /\ UNCHANGED <<storeVars, database, log, serving, restore, tainted>>

\* An error, a missing file among them, or the end of the process: the
\* destination is not there.
AbandonBackup ==
    /\ backup.stage # "idle"
    /\ backup' = [backup EXCEPT !.stage = "idle", !.epoch = NoEpoch]
    /\ UNCHANGED <<storeVars, database, log, serving, epochs, restore, tainted>>

\* Outside the program: a file of an epoch is lost.
Damage(n, b) ==
    /\ epochs[n] # Absent
    /\ b \in epochs[n].files
    /\ epochs' = [epochs EXCEPT ![n].files = @ \ {b}, ![n].damaged = @ \cup {b}]
    /\ UNCHANGED <<storeVars, database, log, serving, backup, restore, tainted>>

----------------------------------------------------------------------------
(* restore_epoch *)

\* Fault: only the database is looked for.
NoDatabase == ~database

TargetFree == ~database /\ ~directory

Whole(n) == epochs[n] # Absent /\ epochs[n].inventory \subseteq epochs[n].files

\* The target is free and the epoch complete; its bytes are read here.
Verify(n) ==
    /\ ~serving
    /\ restore.stage = "idle"
    /\ TargetFree
    /\ Whole(n)
    /\ restore' = [stage |-> "verified",
                   epoch |-> [epochs[n] EXCEPT !.files = @ \cap epochs[n].inventory]]
    /\ UNCHANGED <<storeVars, database, log, serving, backup, epochs, tainted>>

\* The file is linked into place; SQLite takes a log beside it for its own.
PublishDatabase ==
    /\ restore.stage = "verified"
    /\ database' = TRUE
    /\ blobs' = IF log = Absent THEN restore.epoch.rows ELSE log.rows
    /\ tainted' = (log # Absent)
    /\ restore' = [restore EXCEPT !.stage = "published"]
    /\ UNCHANGED <<log, files, directory, upload, serving, backup, epochs>>

ToWrite == restore.epoch.files \ files

WriteBlob(b) ==
    /\ restore.stage = "published"
    /\ b \in ToWrite
    /\ files' = files \cup {b}
    /\ directory' = TRUE
    /\ UNCHANGED <<blobs, upload, database, log, serving, backup, epochs, restore,
                   tainted>>

\* The result is returned.
FinishRestore ==
    /\ restore.stage = "published"
    /\ ToWrite = {}
    /\ restore' = [restore EXCEPT !.stage = "done"]
    /\ UNCHANGED <<storeVars, database, log, serving, backup, epochs, tainted>>

EndRestore ==
    /\ restore.stage = "done"
    /\ restore' = [stage |-> "idle", epoch |-> NoEpoch]
    /\ UNCHANGED <<storeVars, database, log, serving, backup, epochs, tainted>>

\* Fault: a failed restore leaves the database it published.
FailKeepingDatabase ==
    /\ restore.stage = "published"
    /\ files' = {}
    /\ directory' = FALSE
    /\ restore' = [stage |-> "idle", epoch |-> NoEpoch]
    /\ UNCHANGED <<blobs, database, log, upload, serving, backup, epochs, tainted>>

\* An error while blobs are written: the database and all blobs are removed.  One
\* that comes right after the link leaves the database, as KillRestore does.
FailRestore ==
    /\ restore.stage = "published"
    /\ database' = FALSE
    /\ blobs' = {}
    /\ files' = {}
    /\ directory' = FALSE
    /\ restore' = [stage |-> "idle", epoch |-> NoEpoch]
    /\ tainted' = FALSE
    /\ UNCHANGED <<upload, log, serving, backup, epochs>>

\* The process dies: what it has written stays.
KillRestore ==
    /\ restore.stage \in {"verified", "published"}
    /\ tainted' = (tainted \/ restore.stage = "published")
    /\ restore' = [stage |-> "idle", epoch |-> NoEpoch]
    /\ UNCHANGED <<storeVars, database, log, serving, backup, epochs>>

Next ==
    \/ Serve
    \/ Start
    \/ Stop
    \/ Lose
    \/ \E n \in Name : BeginBackup(n)
    \/ List
    \/ \E b \in Blob : CopyBlob(b)
    \/ PublishEpoch
    \/ AbandonBackup
    \/ \E n \in Name, b \in Blob : Damage(n, b)
    \/ \E n \in Name : Verify(n)
    \/ PublishDatabase
    \/ \E b \in Blob : WriteBlob(b)
    \/ FinishRestore
    \/ EndRestore
    \/ FailRestore
    \/ KillRestore

Spec == Init /\ [][Next]_vars

----------------------------------------------------------------------------

TypeOK ==
    /\ StoreTypeOK
    /\ database \in BOOLEAN
    /\ log \in Log \cup {Absent}
    /\ serving \in BOOLEAN
    /\ backup \in [stage : BackupStage, name : Name, epoch : Epoch]
    /\ epochs \in [Name -> Epoch \cup {Absent}]
    /\ restore \in [stage : RestoreStage, epoch : Epoch]
    /\ tainted \in BOOLEAN

(* While nothing is being restored, each row has its file: through uploads that
   ended anywhere, restarts, and restores that failed and were tidied up.  The
   exceptions are a restore whose process died after it published the database
   (store.py 581-596 writes the blobs only then), and one that met a log. *)
RowsHaveFiles == restore.stage = "idle" /\ ~tainted => blobs \subseteq files

(* A backup beside the running server meets no row whose file is missing, so it
   never fails for an upload that is under way: the copy of the database is
   taken first, and put_blob links the file first. *)
BackupsFindTheirFiles ==
    backup.stage # "idle" /\ ~tainted => backup.epoch.rows \subseteq files

(* A published epoch is complete: its inventory is that of its database and its
   files are exactly those of the inventory, but for what it lost after it was
   published; however many blobs were stored while it was made, and also when the
   store has rows without files, which no epoch is made of. *)
EpochsAreConsistent ==
    \A n \in Name : epochs[n] # Absent =>
        /\ epochs[n].inventory = epochs[n].rows
        /\ epochs[n].files = epochs[n].inventory \ epochs[n].damaged

(* A restore that returns a result, and met no log, has left exactly the epoch:
   every row of its database has its file, and no file of other data or of an
   earlier attempt is among them. *)
CleanRestoreIsTheEpoch ==
    restore.stage = "done" /\ ~tainted =>
        /\ database
        /\ blobs = restore.epoch.rows
        /\ files = restore.epoch.rows

(* With the service stopped and the target database absent, as README 110-111
   asks, a restore that returns a result has restored the epoch's database. *)
RestoreGivesTheEpoch == restore.stage = "done" => blobs = restore.epoch.rows

============================================================================
