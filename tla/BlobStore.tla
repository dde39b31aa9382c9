----------------------------- MODULE BlobStore -----------------------------
(***************************************************************************)
(* `put_blob`: the file of a blob is linked into place before the          *)
(* transaction that inserts its row commits.  The write lock is held       *)
(* throughout, so there is one upload at a time, and it can end after any  *)
(* step: refused, failed with an I/O or database error, or with the        *)
(* process.                                                                *)
(*                                                                         *)
(* A blob is its digest; the digest fixes the bytes, their size and, by    *)
(* the magic numbers, the one media type they can have.  Every upload here *)
(* has the bytes of its digest.                                            *)
(***************************************************************************)
EXTENDS Naturals, FiniteSetsExt

CONSTANTS
    Blob,   \* digests
    Size,   \* digest -> number of bytes
    Quota   \* MAX_BLOB_STORE_BYTES

ASSUME SizeAssumption == Size \in [Blob -> Nat] /\ Quota \in Nat

VARIABLES
    blobs,      \* rows of the table
    files,      \* files in place below blobs/sha256
    directory,  \* whether the directory exists
    upload      \* the call that holds the write lock, if any

storeVars == <<blobs, files, directory, upload>>

Stage == {"idle", "admitted", "linked", "answered", "full", "conflict"}

Upload == [stage : Stage, blob : Blob]

StoreInit ==
    /\ blobs = {}
    /\ files = {}
    /\ directory = FALSE
    /\ upload \in {x \in Upload : x.stage = "idle"}

----------------------------------------------------------------------------

\* SELECT COALESCE(SUM(size), 0) FROM blobs
Total == MapThenSumSet(LAMBDA b : Size[b], blobs)

\* Where an upload of b gets to before it touches a file.
Judged(b) ==
    IF b \in blobs
    THEN IF b \in files THEN "answered" ELSE "conflict"
    ELSE IF Total + Size[b] > Quota THEN "full" ELSE "admitted"

\* The directory is made before the disk is looked at.
BeginUpload(b) ==
    /\ upload.stage = "idle"
    /\ upload' = [stage |-> Judged(b), blob |-> b]
    /\ directory' = (directory \/ Judged(b) = "admitted")
    /\ UNCHANGED <<blobs, files>>

Link ==
    /\ upload.stage = "admitted"
    /\ upload.blob \notin files
    /\ files' = files \cup {upload.blob}
    /\ upload' = [upload EXCEPT !.stage = "linked"]
    /\ UNCHANGED <<blobs, directory>>

\* "blob file already exists"
FileInTheWay ==
    /\ upload.stage = "admitted"
    /\ upload.blob \in files
    /\ upload' = [upload EXCEPT !.stage = "conflict"]
    /\ UNCHANGED <<blobs, files, directory>>

\* Fault: the row is committed before the file is in place.
InsertBeforeLink ==
    /\ upload.stage \in {"admitted", "linked"}
    /\ blobs' = blobs \cup {upload.blob}
    /\ upload' = [upload EXCEPT !.stage = "answered"]
    /\ UNCHANGED <<files, directory>>

Insert ==
    /\ upload.stage = "linked"
    /\ blobs' = blobs \cup {upload.blob}
    /\ upload' = [upload EXCEPT !.stage = "answered"]
    /\ UNCHANGED <<files, directory>>

\* The disk reserve, an error or the end of the process: the transaction is
\* rolled back, the file is not.
Abandon ==
    /\ upload.stage \in {"admitted", "linked"}
    /\ upload' = [upload EXCEPT !.stage = "idle"]
    /\ UNCHANGED <<blobs, files, directory>>

Answer ==
    /\ upload.stage \in {"answered", "full", "conflict"}
    /\ upload' = [upload EXCEPT !.stage = "idle"]
    /\ UNCHANGED <<blobs, files, directory>>

StoreNext ==
    \/ \E b \in Blob : BeginUpload(b)
    \/ Link
    \/ FileInTheWay
    \/ Insert
    \/ Abandon
    \/ Answer

StoreSpec == StoreInit /\ [][StoreNext]_storeVars

----------------------------------------------------------------------------

StoreTypeOK ==
    /\ blobs \subseteq Blob
    /\ files \subseteq Blob
    /\ directory \in BOOLEAN
    /\ upload \in Upload

(* Putting a blob again is never a Conflict, whatever became of earlier calls:
   test_store.py 958-959 puts one twice and expects the second to be answered. *)
RepeatedUploadsAreAnswered == upload.stage # "conflict"

============================================================================
