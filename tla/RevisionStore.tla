--------------------------- MODULE RevisionStore ---------------------------
(***************************************************************************)
(* `put_revision`, the one handler that changes state without BEGIN        *)
(* IMMEDIATE: its SELECT runs in autocommit mode and its INSERT OR IGNORE  *)
(* in a transaction of its own, so two uploads interleave between them.    *)
(*                                                                         *)
(* A revision id is the digest of the manifest without its created_utc and *)
(* signature, so one id has several encodings that all verify.  Rollout    *)
(* sees this module only as a growing set of revision ids.                 *)
(***************************************************************************)
EXTENDS Naturals

CONSTANTS
    Caller,    \* request threads
    Revision,  \* revision ids
    Encoding,  \* the bytes a manifest with a given id can have
    Absent

ASSUME AbsentEncodingAssumption == Absent \notin Encoding

VARIABLES
    manifests,  \* revision id -> stored bytes or Absent
    calls       \* caller -> its call

vars == <<manifests, calls>>

Stage == {"idle", "looked", "stored", "conflict"}

CallRecord == [stage : Stage, revision_id : Revision, payload : Encoding]

Init ==
    /\ manifests = [r \in Revision |-> Absent]
    /\ calls \in [Caller -> {x \in CallRecord : x.stage = "idle"}]

----------------------------------------------------------------------------

\* Fault: any stored manifest is a Conflict, one's own included.
ClashesWithItself(r, b) == manifests[r] # Absent

\* The row read differs from the upload.
Clashes(r, b) == manifests[r] # Absent /\ manifests[r] # b

\* SELECT manifest FROM revisions
Look(k, r, b) ==
    /\ calls[k].stage = "idle"
    /\ calls' = [calls EXCEPT ![k] =
          [stage |-> IF Clashes(r, b) THEN "conflict" ELSE "looked",
           revision_id |-> r, payload |-> b]]
    /\ UNCHANGED manifests

\* Fault: INSERT OR REPLACE.
Replaced(r, b) == [manifests EXCEPT ![r] = b]

\* INSERT OR IGNORE INTO revisions
Inserted(r, b) == [manifests EXCEPT ![r] = IF @ = Absent THEN b ELSE @]

Insert(k) ==
    /\ calls[k].stage = "looked"
    /\ manifests' = Inserted(calls[k].revision_id, calls[k].payload)
    /\ calls' = [calls EXCEPT ![k].stage = "stored"]

\* The answer is sent and the thread takes the next request.
Answer(k) ==
    /\ calls[k].stage \in {"stored", "conflict"}
    /\ calls' = [calls EXCEPT ![k].stage = "idle"]
    /\ UNCHANGED manifests

\* The process dies: no call is left, and nothing uncommitted was written.
Crash ==
    /\ calls' = [k \in Caller |-> [calls[k] EXCEPT !.stage = "idle"]]
    /\ UNCHANGED manifests

Next ==
    \/ \E k \in Caller, r \in Revision, b \in Encoding : Look(k, r, b)
    \/ \E k \in Caller : Insert(k) \/ Answer(k)
    \/ Crash

Spec == Init /\ [][Next]_vars

----------------------------------------------------------------------------

TypeOK ==
    /\ manifests \in [Revision -> Encoding \cup {Absent}]
    /\ calls \in [Caller -> CallRecord]

(* An answered upload left its revision in the table, and an upload is refused
   only while other bytes are stored under its id: a retry after a crash or a
   lost answer succeeds. *)
AnswersAreGrounded ==
    \A k \in Caller :
        LET stored == manifests[calls[k].revision_id]
        IN  /\ calls[k].stage = "stored" => stored # Absent
            /\ calls[k].stage = "conflict" => stored \notin {Absent, calls[k].payload}

(* Stored bytes are never replaced, also by uploads that looked before they
   were stored: README "immutable schema 2 revisions". *)
ManifestsAreImmutable ==
    [][\A r \in Revision : manifests[r] # Absent => manifests'[r] = manifests[r]]_vars

(* An upload answered with success is the one that is stored.  The Conflict
   "immutable revision already has different bytes", store.py 1173, says so. *)
SuccessStoresTheUpload ==
    \A k \in Caller : calls[k].stage = "stored" =>
        manifests[calls[k].revision_id] = calls[k].payload

============================================================================
