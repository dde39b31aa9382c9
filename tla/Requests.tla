------------------------------ MODULE Requests ------------------------------
(***************************************************************************)
(* The rollout handlers as the HTTP surface runs them: each closure of     *)
(* Rollout inside `_idempotent`, which stores the response under the       *)
(* client's Idempotency-Key in the transaction of the effect.  A request   *)
(* that comes again under a used key, after a lost answer or a restart, is *)
(* answered from the table and changes nothing, whatever it asks for.      *)
(***************************************************************************)
EXTENDS Rollout

CONSTANTS
    Key,    \* idempotency keys, one name space for all clients
    Unused

VARIABLE idempotency   \* key -> [operation, response] or Unused

Operation == {"publish_candidate", "assign_candidate", "bootstrap_active",
              "record_report", "promote"}

\* The answers of the handlers: what they name that is in the state of Rollout.
Response ==
    [channel : Channel, candidate_revision : Revision, active_revision : HeadRevision]
    \cup [enrollment_id : Addressee, channel : Channel, revision_id : Revision,
          assignment_kind : AssignmentKind]
    \cup [enrollment_id : Addressee, revision_id : Revision, result : ReportResult]
    \cup [channel : Channel, active_revision : HeadRevision, generation : Generation]

ASSUME UnusedAssumption ==
    Unused \notin [operation : Operation, response : Response]

RequestsInit == Init /\ idempotency = [k \in Key |-> Unused]

\* The SELECT that comes before the handler's closure finds no row.
Fresh(k) == idempotency[k] = Unused

\* Fault: the key is looked up, but nothing is stored under it.
Unrecorded(k, operation, response) == UNCHANGED idempotency

\* The key's row is inserted with the effect.
Recording(k, operation, response) ==
    idempotency' = [idempotency EXCEPT ![k] =
        [operation |-> operation, response |-> response]]

PublishCandidateRequest(k, c, r, base, expected) ==
    /\ PublishCandidate(c, r, base, expected)
    /\ Recording(k, "publish_candidate",
          [channel |-> c, candidate_revision |-> r,
           active_revision |-> active_revision[c]])

AssignmentAnswer(d) ==
    [enrollment_id |-> d.enrollment_id, channel |-> d.channel,
     revision_id |-> d.revision_id,
     assignment_kind |-> assignments'[d.enrollment_id].assignment_kind]

AssignCandidateRequest(k, d) ==
    /\ AssignCandidate(d)
    /\ Recording(k, "assign_candidate", AssignmentAnswer(d))

BootstrapActiveRequest(k, d) ==
    /\ BootstrapActive(d)
    /\ Recording(k, "bootstrap_active", AssignmentAnswer(d))

RecordReportRequest(k, p) ==
    /\ RecordReport(p)
    /\ Recording(k, "record_report",
          [enrollment_id |-> p.enrollment_id, revision_id |-> p.revision_id,
           result |-> p.result])

PromoteRequest(k, c, r, expected, required, g) ==
    /\ Promote(c, r, expected, required, g)
    /\ Recording(k, "promote",
          [channel |-> c, active_revision |-> r, generation |-> g])

RequestsNext ==
    \/ \E k \in Key :
        /\ Fresh(k)
        /\ \/ \E c \in Channel, r \in Revision, base, expected \in HeadRevision :
                 PublishCandidateRequest(k, c, r, base, expected)
           \/ \E d \in AssignmentDocument : AssignCandidateRequest(k, d)
           \/ \E d \in AssignmentDocument : BootstrapActiveRequest(k, d)
           \/ \E p \in ReportRow : RecordReportRequest(k, p)
           \/ \E c \in Channel, r, expected \in HeadRevision, g \in Generation,
                 required \in SUBSET Addressee :
                 PromoteRequest(k, c, r, expected, required, g)
    \/ /\ \/ \E r \in Revision : PutRevision(r)
          \/ Pair
          \/ \E e \in Enrollment : Revoke(e)
       /\ UNCHANGED idempotency

RequestsSpec == RequestsInit /\ [][RequestsNext]_<<vars, idempotency>>

----------------------------------------------------------------------------

RequestsTypeOK ==
    idempotency \in
        [Key -> [operation : Operation, response : Response] \cup {Unused}]

Answered(operation, c) ==
    {k \in Key : /\ idempotency[k] # Unused
                 /\ idempotency[k].operation = operation
                 /\ idempotency[k].response.channel = c}

(* The stored answers are the release history of a channel: each generation up
   to the current one was granted to exactly one key, and the last one answered
   with the revision that is active.  No two administrators who raced with keys
   of their own are both told that they promoted to the same generation, and no
   promotion happens twice because its answer was lost (store.py 1144-1160 with
   1712-1821). *)
AnswersAreTheReleases ==
    \A c \in Channel : \A g \in 1 .. MaxGeneration :
        LET granted == {k \in Answered("promote", c) :
                            idempotency[k].response.generation = g}
        IN  IF g <= generation[c]
            THEN \E k \in granted :
                    /\ granted = {k}
                    /\ g = generation[c] =>
                          idempotency[k].response.active_revision = active_revision[c]
            ELSE granted = {}

(* Whatever is assigned to a device, some administrator was told that it was
   published in the device's channel: each path to an assignment, candidate or
   active, begins with a publication that is on record. *)
ServedRevisionsWereAnswered ==
    \A a \in Addressee : Assigned(a) =>
        \E k \in Answered("publish_candidate", assignments[a].channel) :
            idempotency[k].response.candidate_revision = assignments[a].revision_id

============================================================================
