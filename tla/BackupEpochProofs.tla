-------------------------- MODULE BackupEpochProofs --------------------------
(***************************************************************************)
(* Proofs about BlobStore and BackupEpoch for every set of blobs, sizes,   *)
(* quota and destinations, with the server, a backup and a restore failing *)
(* and dying between any two steps.                                        *)
(***************************************************************************)
EXTENDS BackupEpoch, TLAPS

----------------------------------------------------------------------------
(* Uploads *)

\* A file is only ever below the directory, and the file of an upload that has
\* linked it is there until its row is.
StoreInv ==
    /\ StoreTypeOK
    /\ ~directory => files = {}
    /\ upload.stage \in {"admitted", "linked"} => directory
    /\ upload.stage = "linked" => upload.blob \in files

LEMMA StoreInvInit == StoreInit => StoreInv
BY DEF StoreInit, StoreInv, StoreTypeOK, Upload

LEMMA StoreInvStep == StoreInv /\ StoreNext => StoreInv'
<1> SUFFICES ASSUME StoreInv, StoreNext PROVE StoreInv'
    OBVIOUS
<1> USE DEF StoreInv, StoreTypeOK, Upload, Stage
<1>1. ASSUME NEW b \in Blob, BeginUpload(b) PROVE StoreInv'
    <2>1. Judged(b) \in {"answered", "conflict", "full", "admitted"}
        BY DEF Judged
    <2>2. QED
        BY <1>1, <2>1 DEF BeginUpload
<1>2. CASE Link
    BY <1>2 DEF Link
<1>3. CASE Insert
    BY <1>3 DEF Insert
<1>4. CASE FileInTheWay \/ Abandon \/ Answer
    BY <1>4 DEF FileInTheWay, Abandon, Answer
<1>5. QED
    BY <1>1, <1>2, <1>3, <1>4 DEF StoreNext

\* An upload removes neither rows nor files, and adds a row only to its file.
LEMMA UploadsAdd ==
    ASSUME StoreInv, StoreNext
    PROVE  /\ files \subseteq files'
           /\ blobs \subseteq blobs'
           /\ blobs \subseteq files => blobs' \subseteq files'
BY DEF StoreInv, StoreNext, BeginUpload, Link, FileInTheWay, Insert, Abandon, Answer

----------------------------------------------------------------------------
(* The invariant.  Each process works on data that the others leave alone. *)

\* The server runs on a database, and not during a restore; when it does not run
\* there is no upload.
ServerInv ==
    /\ serving => database /\ restore.stage = "idle"
    /\ ~serving => upload.stage = "idle"
    /\ ~database => blobs = {}

\* A backup runs on a database that is not being restored, lists the rows of its
\* copy and copies only what it has listed.
BackupInv ==
    /\ backup.stage # "idle" => database /\ restore.stage = "idle"
    /\ backup.stage # "idle" => backup.epoch.damaged = {}
    /\ backup.stage = "copied" => backup.epoch.files = {}
    /\ backup.stage = "listed" =>
          /\ backup.epoch.inventory = backup.epoch.rows
          /\ backup.epoch.files \subseteq backup.epoch.inventory

\* A restore has verified a complete epoch, starts from nothing and adds only
\* the epoch's files.
RestoreInv ==
    /\ restore.stage # "idle" => restore.epoch.files = restore.epoch.rows
    /\ restore.stage = "verified" => ~database /\ files = {}
    /\ restore.stage \in {"published", "done"} =>
          /\ database
          /\ files \subseteq restore.epoch.rows
          /\ ~tainted => blobs = restore.epoch.rows
    /\ restore.stage = "done" => files = restore.epoch.rows

EpochInv ==
    /\ TypeOK
    /\ StoreInv
    /\ ServerInv
    /\ BackupInv
    /\ RestoreInv
    /\ RowsHaveFiles
    /\ BackupsFindTheirFiles
    /\ EpochsAreConsistent

LEMMA NoEpochType == NoEpoch \in Epoch
BY DEF NoEpoch, Epoch

LEMMA EpochInit == Init => EpochInv
<1> SUFFICES ASSUME Init PROVE EpochInv
    OBVIOUS
<1>1. StoreInv /\ StoreTypeOK
    BY StoreInvInit DEF Init, StoreInv
<1>2. TypeOK
    BY <1>1, NoEpochType DEF Init, TypeOK, BackupStage, RestoreStage
<1>3. blobs = {} /\ upload.stage = "idle"
    BY DEF Init, StoreInit
<1>4. backup.stage = "idle" /\ restore.stage = "idle"
    BY DEF Init
<1>5. QED
    BY <1>1, <1>2, <1>3, <1>4
       DEF Init, EpochInv, ServerInv, BackupInv, RestoreInv, RowsHaveFiles,
           BackupsFindTheirFiles, EpochsAreConsistent

----------------------------------------------------------------------------
(* The server *)

LEMMA ServeStep == EpochInv /\ Serve => EpochInv'
<1> SUFFICES ASSUME EpochInv, Serve PROVE EpochInv'
    OBVIOUS
<1>1. /\ serving /\ database /\ restore.stage = "idle"
      /\ StoreNext
      /\ UNCHANGED <<database, log, serving, backup, epochs, restore, tainted>>
    BY DEF Serve, EpochInv, ServerInv
<1>2. StoreInv' /\ StoreTypeOK'
    BY <1>1, StoreInvStep DEF EpochInv, StoreInv
<1>3. /\ files \subseteq files'
      /\ blobs \subseteq files => blobs' \subseteq files'
    BY <1>1, UploadsAdd DEF EpochInv
<1>4. TypeOK'
    BY <1>1, <1>2 DEF EpochInv, TypeOK
<1>5. ServerInv' /\ BackupInv' /\ RestoreInv' /\ EpochsAreConsistent'
    BY <1>1 DEF EpochInv, ServerInv, BackupInv, RestoreInv, EpochsAreConsistent
<1>6. RowsHaveFiles' /\ BackupsFindTheirFiles'
    BY <1>1, <1>3 DEF EpochInv, RowsHaveFiles, BackupsFindTheirFiles
<1>7. QED
    BY <1>2, <1>4, <1>5, <1>6 DEF EpochInv

LEMMA StartStep == EpochInv /\ Start => EpochInv'
BY DEF EpochInv, Start, TypeOK, StoreTypeOK, StoreInv, ServerInv, BackupInv, RestoreInv,
       RowsHaveFiles, BackupsFindTheirFiles, EpochsAreConsistent, storeVars

LEMMA StopStep == EpochInv /\ Stop => EpochInv'
<1> SUFFICES ASSUME EpochInv, Stop PROVE EpochInv'
    OBVIOUS
<1>1. upload' \in Upload /\ upload'.stage = "idle"
    BY DEF EpochInv, Stop, TypeOK, StoreTypeOK, Upload, Stage
<1>2. log' \in Log \cup {Absent}
    BY DEF EpochInv, Stop, TypeOK, StoreTypeOK, Log
<1>3. QED
    BY <1>1, <1>2 DEF EpochInv, Stop, TypeOK, StoreTypeOK, StoreInv, ServerInv, BackupInv,
                      RestoreInv, RowsHaveFiles, BackupsFindTheirFiles, EpochsAreConsistent

LEMMA LoseStep == EpochInv /\ Lose => EpochInv'
<1> SUFFICES ASSUME EpochInv, Lose PROVE EpochInv'
    OBVIOUS
<1>1. /\ backup.stage = "idle" /\ restore.stage = "idle" /\ upload.stage = "idle"
      /\ database' = FALSE /\ blobs' = {} /\ tainted' = FALSE
      /\ UNCHANGED <<upload, serving, backup, epochs, restore>>
      /\ ~serving
    BY DEF Lose, EpochInv, ServerInv
<1>2. log' \in Log \cup {Absent}
    BY DEF Lose, EpochInv, TypeOK
<1>3. /\ files' \subseteq Blob
      /\ directory' \in BOOLEAN
      /\ ~directory' => files' = {}
    <2>1. CASE UNCHANGED <<files, directory>>
        BY <2>1 DEF EpochInv, StoreInv, StoreTypeOK
    <2>2. CASE files' = {} /\ directory' = FALSE
        BY <2>2
    <2>3. QED
        BY <2>1, <2>2 DEF Lose
<1>4. TypeOK' /\ StoreInv'
    BY <1>1, <1>2, <1>3 DEF EpochInv, TypeOK, StoreTypeOK, StoreInv
<1>5. ServerInv' /\ BackupInv' /\ RestoreInv'
    BY <1>1 DEF ServerInv, BackupInv, RestoreInv
<1>6. RowsHaveFiles' /\ BackupsFindTheirFiles' /\ EpochsAreConsistent'
    BY <1>1 DEF EpochInv, RowsHaveFiles, BackupsFindTheirFiles, EpochsAreConsistent
<1>7. QED
    BY <1>4, <1>5, <1>6 DEF EpochInv

----------------------------------------------------------------------------
(* backup_epoch *)

\* Steps of a backup touch nothing but the backup, the log and the epochs.
LEMMA BackupStepKeeps ==
    ASSUME EpochInv,
           UNCHANGED <<storeVars, serving, restore, tainted>>,
           UNCHANGED database \/ (database' = TRUE /\ restore.stage = "idle"),
           log' \in Log \cup {Absent},
           backup' \in [stage : BackupStage, name : Name, epoch : Epoch],
           epochs' \in [Name -> Epoch \cup {Absent}],
           BackupInv', BackupsFindTheirFiles', EpochsAreConsistent'
    PROVE  EpochInv'
<1>1. TypeOK' /\ StoreInv'
    BY DEF EpochInv, TypeOK, StoreTypeOK, StoreInv, storeVars
<1>2. ServerInv' /\ RestoreInv' /\ RowsHaveFiles'
    <2>1. CASE UNCHANGED database
        BY <2>1 DEF EpochInv, ServerInv, RestoreInv, RowsHaveFiles, storeVars
    <2>2. CASE database' = TRUE /\ restore.stage = "idle"
        BY <2>2 DEF EpochInv, ServerInv, RestoreInv, RowsHaveFiles, storeVars
    <2>3. QED
        BY <2>1, <2>2
<1>3. QED
    BY <1>1, <1>2 DEF EpochInv

LEMMA BeginBackupStep ==
    ASSUME EpochInv, NEW n \in Name, BeginBackup(n)
    PROVE  EpochInv'
<1>1. /\ backup'.stage = "copied"
      /\ backup'.epoch.rows = blobs
      /\ backup'.epoch.files = {}
      /\ backup'.epoch.damaged = {}
      /\ backup' \in [stage : BackupStage, name : Name, epoch : Epoch]
    BY DEF BeginBackup, NoEpoch, Epoch, BackupStage, EpochInv, StoreInv, StoreTypeOK
<1>2. BackupInv'
    BY <1>1 DEF BeginBackup, BackupInv
<1>3. BackupsFindTheirFiles'
    BY <1>1 DEF BeginBackup, EpochInv, RowsHaveFiles, BackupsFindTheirFiles, storeVars
<1>4. EpochsAreConsistent'
    BY DEF BeginBackup, EpochInv, EpochsAreConsistent
<1>5. epochs' \in [Name -> Epoch \cup {Absent}]
    BY DEF BeginBackup, EpochInv, TypeOK
<1>6. QED
    BY <1>1, <1>2, <1>3, <1>4, <1>5, BackupStepKeeps DEF BeginBackup

LEMMA ListStep == EpochInv /\ List => EpochInv'
<1> SUFFICES ASSUME EpochInv, List PROVE EpochInv'
    OBVIOUS
<1>0. backup \in [stage : BackupStage, name : Name, epoch : Epoch]
    BY DEF EpochInv, TypeOK
<1>1. /\ backup'.stage = "listed"
      /\ backup'.epoch.inventory = backup.epoch.rows
      /\ backup'.epoch.rows = backup.epoch.rows
      /\ backup'.epoch.files = backup.epoch.files
      /\ backup'.epoch.damaged = backup.epoch.damaged
      /\ backup' \in [stage : BackupStage, name : Name, epoch : Epoch]
    BY <1>0 DEF List, Epoch, BackupStage
<1>2. BackupInv'
    BY <1>1 DEF List, EpochInv, BackupInv
<1>3. BackupsFindTheirFiles'
    BY <1>1 DEF List, EpochInv, BackupsFindTheirFiles, storeVars
<1>4. EpochsAreConsistent' /\ epochs' \in [Name -> Epoch \cup {Absent}]
    BY DEF List, EpochInv, TypeOK, EpochsAreConsistent
<1>5. QED
    BY <1>1, <1>2, <1>3, <1>4, BackupStepKeeps DEF List, EpochInv, TypeOK

LEMMA CopyBlobStep ==
    ASSUME EpochInv, NEW b \in Blob, CopyBlob(b)
    PROVE  EpochInv'
<1>0. backup \in [stage : BackupStage, name : Name, epoch : Epoch]
    BY DEF EpochInv, TypeOK
<1>1. /\ backup'.stage = "listed" /\ backup.stage = "listed"
      /\ backup'.epoch.inventory = backup.epoch.inventory
      /\ backup'.epoch.rows = backup.epoch.rows
      /\ backup'.epoch.files = backup.epoch.files \cup {b}
      /\ backup'.epoch.damaged = backup.epoch.damaged
      /\ b \in backup.epoch.inventory
      /\ backup' \in [stage : BackupStage, name : Name, epoch : Epoch]
    BY <1>0 DEF CopyBlob, ToCopy, Epoch, BackupStage
<1>2. BackupInv'
    BY <1>1 DEF CopyBlob, EpochInv, BackupInv
<1>3. BackupsFindTheirFiles'
    BY <1>1 DEF CopyBlob, EpochInv, BackupsFindTheirFiles, storeVars
<1>4. EpochsAreConsistent' /\ epochs' \in [Name -> Epoch \cup {Absent}]
    BY DEF CopyBlob, EpochInv, TypeOK, EpochsAreConsistent
<1>5. QED
    BY <1>1, <1>2, <1>3, <1>4, BackupStepKeeps DEF CopyBlob, EpochInv, TypeOK

\* The backup is over: nothing is claimed of it any more.
LEMMA BackupEnds ==
    ASSUME EpochInv, backup' = [backup EXCEPT !.stage = "idle", !.epoch = NoEpoch]
    PROVE  /\ backup' \in [stage : BackupStage, name : Name, epoch : Epoch]
           /\ BackupInv'
           /\ BackupsFindTheirFiles'
<1>1. backup'.stage = "idle"
      /\ backup' \in [stage : BackupStage, name : Name, epoch : Epoch]
    BY NoEpochType DEF EpochInv, TypeOK, BackupStage
<1>2. QED
    BY <1>1 DEF BackupInv, BackupsFindTheirFiles

LEMMA PublishEpochStep == EpochInv /\ PublishEpoch => EpochInv'
<1> SUFFICES ASSUME EpochInv, PublishEpoch PROVE EpochInv'
    OBVIOUS
<1>1. /\ backup.name \in Name
      /\ backup.epoch \in Epoch
      /\ backup.epoch.inventory = backup.epoch.rows
      /\ backup.epoch.files = backup.epoch.inventory
      /\ backup.epoch.damaged = {}
    BY DEF PublishEpoch, ToCopy, EpochInv, TypeOK, BackupInv
<1>2. epochs' = [epochs EXCEPT ![backup.name] = backup.epoch]
    BY DEF PublishEpoch
<1>3. epochs' \in [Name -> Epoch \cup {Absent}]
    BY <1>1, <1>2 DEF EpochInv, TypeOK
<1>4. EpochsAreConsistent'
    BY <1>1, <1>2 DEF EpochInv, TypeOK, EpochsAreConsistent
<1>5. QED
    BY <1>3, <1>4, BackupEnds, BackupStepKeeps DEF PublishEpoch, EpochInv, TypeOK

LEMMA AbandonBackupStep == EpochInv /\ AbandonBackup => EpochInv'
<1> SUFFICES ASSUME EpochInv, AbandonBackup PROVE EpochInv'
    OBVIOUS
<1>1. EpochsAreConsistent' /\ epochs' \in [Name -> Epoch \cup {Absent}]
    BY DEF AbandonBackup, EpochInv, TypeOK, EpochsAreConsistent
<1>2. QED
    BY <1>1, BackupEnds, BackupStepKeeps DEF AbandonBackup, EpochInv, TypeOK

LEMMA DamageStep ==
    ASSUME EpochInv, NEW n \in Name, NEW b \in Blob, Damage(n, b)
    PROVE  EpochInv'
<1> DEFINE left == [epochs[n] EXCEPT !.files = @ \ {b}, !.damaged = @ \cup {b}]
<1>1. epochs[n] \in Epoch
    BY DEF Damage, EpochInv, TypeOK
<1>2. left \in Epoch
    BY <1>1 DEF Epoch
<1>3. epochs' = [epochs EXCEPT ![n] = left]
    BY DEF Damage
<1>4. epochs' \in [Name -> Epoch \cup {Absent}]
    <2> HIDE DEF left
    <2>1. QED
        BY <1>2, <1>3 DEF EpochInv, TypeOK
<1>5. EpochsAreConsistent'
    <2> SUFFICES ASSUME NEW m \in Name, epochs'[m] # Absent
                 PROVE  /\ epochs'[m].inventory = epochs'[m].rows
                        /\ epochs'[m].files = epochs'[m].inventory \ epochs'[m].damaged
        BY DEF EpochsAreConsistent
    <2>1. CASE m = n
        <3>1. epochs'[m] = left
            BY <1>3, <2>1 DEF EpochInv, TypeOK
        <3>2. /\ epochs[n].inventory = epochs[n].rows
              /\ epochs[n].files = epochs[n].inventory \ epochs[n].damaged
            BY DEF Damage, EpochInv, EpochsAreConsistent
        <3>3. QED
            BY <1>1, <3>1, <3>2 DEF Epoch
    <2>2. CASE m # n
        BY <1>3, <2>2 DEF EpochInv, TypeOK, EpochsAreConsistent
    <2>3. QED
        BY <2>1, <2>2
<1>6. BackupInv' /\ BackupsFindTheirFiles'
    BY DEF Damage, EpochInv, BackupInv, BackupsFindTheirFiles, storeVars
<1>7. QED
    BY <1>4, <1>5, <1>6, BackupStepKeeps DEF Damage, EpochInv, TypeOK

----------------------------------------------------------------------------
(* restore_epoch *)

\* While a restore runs, no server and no backup does.
LEMMA RestoreIsAlone ==
    ASSUME EpochInv, restore.stage # "idle"
    PROVE  ~serving /\ backup.stage = "idle" /\ upload.stage = "idle"
BY DEF EpochInv, ServerInv, BackupInv

LEMMA VerifyStep ==
    ASSUME EpochInv, NEW n \in Name, Verify(n)
    PROVE  EpochInv'
<1> DEFINE whole == [epochs[n] EXCEPT !.files = @ \cap epochs[n].inventory]
<1>1. /\ epochs[n] \in Epoch
      /\ epochs[n].inventory = epochs[n].rows
      /\ epochs[n].inventory \subseteq epochs[n].files
    BY DEF Verify, Whole, EpochInv, TypeOK, EpochsAreConsistent
<1>2. whole \in Epoch /\ whole.files = whole.rows
    BY <1>1 DEF Epoch
<1>3. restore' = [stage |-> "verified", epoch |-> whole]
    BY DEF Verify
<1>4. restore' \in [stage : RestoreStage, epoch : Epoch]
    BY <1>2, <1>3 DEF RestoreStage
<1>5. ~database /\ ~directory /\ ~serving /\ files = {}
      /\ UNCHANGED <<storeVars, database, log, serving, backup, epochs, tainted>>
    BY DEF Verify, TargetFree, EpochInv, StoreInv
<1>6. TypeOK' /\ StoreInv' /\ EpochsAreConsistent'
    BY <1>4, <1>5 DEF EpochInv, TypeOK, StoreTypeOK, StoreInv, EpochsAreConsistent, storeVars
<1>7. ServerInv' /\ BackupInv'
    BY <1>3, <1>5 DEF EpochInv, ServerInv, BackupInv, storeVars
<1>8. RestoreInv' /\ RowsHaveFiles'
    BY <1>2, <1>3, <1>5 DEF RestoreInv, RowsHaveFiles, storeVars
<1>9. BackupsFindTheirFiles'
    BY <1>5 DEF EpochInv, BackupsFindTheirFiles, storeVars
<1>10. QED
    BY <1>6, <1>7, <1>8, <1>9 DEF EpochInv

LEMMA PublishDatabaseStep == EpochInv /\ PublishDatabase => EpochInv'
<1> SUFFICES ASSUME EpochInv, PublishDatabase PROVE EpochInv'
    OBVIOUS
<1>0. restore \in [stage : RestoreStage, epoch : Epoch]
    BY DEF EpochInv, TypeOK
<1>1. /\ restore.stage = "verified"
      /\ restore' \in [stage : RestoreStage, epoch : Epoch]
      /\ restore'.stage = "published"
      /\ restore'.epoch = restore.epoch
    BY <1>0 DEF PublishDatabase, RestoreStage
<1>2. ~serving /\ backup.stage = "idle" /\ upload.stage = "idle"
    BY <1>1, RestoreIsAlone
<1>3. blobs' \subseteq Blob
    BY <1>0 DEF PublishDatabase, EpochInv, TypeOK, Epoch, Log
<1>4. TypeOK' /\ StoreInv' /\ EpochsAreConsistent'
    BY <1>1, <1>2, <1>3 DEF PublishDatabase, EpochInv, TypeOK, StoreTypeOK, StoreInv,
                           EpochsAreConsistent
<1>5. ServerInv' /\ BackupInv' /\ BackupsFindTheirFiles'
    BY <1>1, <1>2 DEF PublishDatabase, ServerInv, BackupInv, BackupsFindTheirFiles
<1>6. RestoreInv' /\ RowsHaveFiles'
    BY <1>1 DEF PublishDatabase, EpochInv, RestoreInv, RowsHaveFiles
<1>7. QED
    BY <1>4, <1>5, <1>6 DEF EpochInv

LEMMA WriteBlobStep ==
    ASSUME EpochInv, NEW b \in Blob, WriteBlob(b)
    PROVE  EpochInv'
<1>1. ~serving /\ backup.stage = "idle" /\ upload.stage = "idle"
    BY RestoreIsAlone DEF WriteBlob
<1>2. TypeOK' /\ StoreInv' /\ EpochsAreConsistent'
    BY <1>1 DEF WriteBlob, EpochInv, TypeOK, StoreTypeOK, StoreInv, EpochsAreConsistent
<1>3. ServerInv' /\ BackupInv' /\ BackupsFindTheirFiles'
    BY <1>1 DEF WriteBlob, EpochInv, ServerInv, BackupInv, BackupsFindTheirFiles
<1>4. RestoreInv' /\ RowsHaveFiles'
    BY DEF WriteBlob, ToWrite, EpochInv, RestoreInv, RowsHaveFiles
<1>5. QED
    BY <1>2, <1>3, <1>4 DEF EpochInv

LEMMA FinishRestoreStep == EpochInv /\ FinishRestore => EpochInv'
<1> SUFFICES ASSUME EpochInv, FinishRestore PROVE EpochInv'
    OBVIOUS
<1>0. restore \in [stage : RestoreStage, epoch : Epoch]
    BY DEF EpochInv, TypeOK
<1>1. /\ restore.stage = "published"
      /\ restore' \in [stage : RestoreStage, epoch : Epoch]
      /\ restore'.stage = "done"
      /\ restore'.epoch = restore.epoch
    BY <1>0 DEF FinishRestore, RestoreStage
<1>2. ~serving /\ backup.stage = "idle" /\ upload.stage = "idle"
    BY <1>1, RestoreIsAlone
<1>3. files = restore.epoch.rows
    BY <1>1 DEF FinishRestore, ToWrite, EpochInv, RestoreInv
<1>4. TypeOK' /\ StoreInv' /\ EpochsAreConsistent'
    BY <1>1 DEF FinishRestore, EpochInv, TypeOK, StoreTypeOK, StoreInv,
                EpochsAreConsistent, storeVars
<1>5. ServerInv' /\ BackupInv' /\ BackupsFindTheirFiles'
    BY <1>1, <1>2 DEF FinishRestore, EpochInv, ServerInv, BackupInv,
                      BackupsFindTheirFiles, storeVars
<1>6. RestoreInv' /\ RowsHaveFiles'
    BY <1>1, <1>3 DEF FinishRestore, EpochInv, RestoreInv, RowsHaveFiles, storeVars
<1>7. QED
    BY <1>4, <1>5, <1>6 DEF EpochInv

\* A restore is over: what is there now is what the server will start on.
LEMMA RestoreEnds ==
    ASSUME EpochInv, restore.stage # "idle",
           restore' = [stage |-> "idle", epoch |-> NoEpoch],
           UNCHANGED <<upload, log, serving, backup, epochs>>,
           TypeOK', ~directory' => files' = {}, ~database' => blobs' = {},
           ~tainted' => blobs' \subseteq files'
    PROVE  EpochInv'
<1>1. ~serving /\ backup.stage = "idle" /\ upload.stage = "idle"
    BY RestoreIsAlone
<1>2. StoreInv' /\ EpochsAreConsistent'
    BY <1>1 DEF EpochInv, TypeOK, StoreInv, EpochsAreConsistent
<1>3. ServerInv' /\ BackupInv' /\ BackupsFindTheirFiles'
    BY <1>1 DEF ServerInv, BackupInv, BackupsFindTheirFiles
<1>4. RestoreInv' /\ RowsHaveFiles'
    BY DEF RestoreInv, RowsHaveFiles
<1>5. QED
    BY <1>2, <1>3, <1>4 DEF EpochInv

\* The idle restore, and the tables a restore leaves, are well-formed.
LEMMA EndedTypes ==
    ASSUME EpochInv, restore' = [stage |-> "idle", epoch |-> NoEpoch],
           UNCHANGED <<upload, log, serving, backup, epochs>>,
           blobs' \subseteq Blob, files' \subseteq Blob, directory' \in BOOLEAN,
           database' \in BOOLEAN, tainted' \in BOOLEAN
    PROVE  TypeOK'
BY NoEpochType DEF EpochInv, TypeOK, StoreTypeOK, RestoreStage

LEMMA EndRestoreStep == EpochInv /\ EndRestore => EpochInv'
<1> SUFFICES ASSUME EpochInv, EndRestore PROVE EpochInv'
    OBVIOUS
<1>1. TypeOK'
    BY EndedTypes DEF EndRestore, EpochInv, TypeOK, StoreTypeOK, storeVars
<1>2. ~tainted => blobs \subseteq files
    BY DEF EndRestore, EpochInv, RestoreInv
<1>3. QED
    BY <1>1, <1>2, RestoreEnds DEF EndRestore, EpochInv, StoreInv, ServerInv, storeVars

LEMMA FailRestoreStep == EpochInv /\ FailRestore => EpochInv'
<1> SUFFICES ASSUME EpochInv, FailRestore PROVE EpochInv'
    OBVIOUS
<1>1. TypeOK'
    BY EndedTypes DEF FailRestore
<1>2. QED
    BY <1>1, RestoreEnds DEF FailRestore

LEMMA KillRestoreStep == EpochInv /\ KillRestore => EpochInv'
<1> SUFFICES ASSUME EpochInv, KillRestore PROVE EpochInv'
    OBVIOUS
<1>1. tainted' \in BOOLEAN
    BY DEF KillRestore
<1>2. TypeOK'
    BY <1>1, EndedTypes DEF KillRestore, EpochInv, TypeOK, StoreTypeOK, storeVars
<1>3. ~tainted' => blobs \subseteq files
    BY DEF KillRestore, EpochInv, RestoreInv, ServerInv
<1>4. QED
    BY <1>2, <1>3, RestoreEnds DEF KillRestore, EpochInv, StoreInv, ServerInv, storeVars

----------------------------------------------------------------------------

LEMMA EpochStep == EpochInv /\ [Next]_vars => EpochInv'
<1> SUFFICES ASSUME EpochInv, [Next]_vars PROVE EpochInv'
    OBVIOUS
<1>1. CASE UNCHANGED vars
    BY <1>1 DEF vars, storeVars, EpochInv, TypeOK, StoreTypeOK, StoreInv, ServerInv,
                BackupInv, RestoreInv, RowsHaveFiles, BackupsFindTheirFiles,
                EpochsAreConsistent
<1>2. QED
    BY <1>1, ServeStep, StartStep, StopStep, LoseStep, BeginBackupStep, ListStep,
       CopyBlobStep, PublishEpochStep, AbandonBackupStep, DamageStep, VerifyStep,
       PublishDatabaseStep, WriteBlobStep, FinishRestoreStep, EndRestoreStep,
       FailRestoreStep, KillRestoreStep
       DEF Next

LEMMA EpochInvariant == Spec => []EpochInv
BY EpochInit, EpochStep, PTL DEF Spec

(* The store, the epochs, the backup and the restore keep their types. *)
THEOREM BackupTypeCorrect == Spec => []TypeOK
BY EpochInvariant, PTL DEF EpochInv

(* Outside a restore each row has its file, wherever uploads, restarts and failed
   restores ended, unless a restore died after it published the database or met a
   log. *)
THEOREM RowsAlwaysHaveFiles == Spec => []RowsHaveFiles
BY EpochInvariant, PTL DEF EpochInv

(* A backup finds the file of every row it copied, whatever is uploaded meanwhile. *)
THEOREM BackupsAlwaysFindTheirFiles == Spec => []BackupsFindTheirFiles
BY EpochInvariant, PTL DEF EpochInv

(* A published epoch has the inventory of its database and exactly the files of the
   inventory, but for those it lost after it was published. *)
THEOREM EpochsAreAlwaysConsistent == Spec => []EpochsAreConsistent
BY EpochInvariant, PTL DEF EpochInv

(* A restore that returns and met no log leaves exactly the epoch's rows and
   files. *)
THEOREM CleanRestoreIsAlwaysTheEpoch == Spec => []CleanRestoreIsTheEpoch
<1>1. EpochInv => CleanRestoreIsTheEpoch
    BY DEF EpochInv, RestoreInv, CleanRestoreIsTheEpoch
<1>2. QED
    BY <1>1, EpochInvariant, PTL

=============================================================================
