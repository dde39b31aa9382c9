------------------------------ MODULE Rollout ------------------------------
(***************************************************************************)
(* The rollout handlers of ProfileStore: immutable revisions, the two      *)
(* heads of each channel, signed assignments, device reports and the       *)
(* promotion they gate.                                                    *)
(*                                                                         *)
(* Each handler is one BEGIN IMMEDIATE transaction that an exception rolls *)
(* back, so it is one action here, enabled exactly when the handler        *)
(* succeeds.  The actions are the handlers' inner closures `action()`;     *)
(* Requests.tla wraps them in `_idempotent` and the admin gate.            *)
(*                                                                         *)
(* A signed document is a record; for a schema 2 document the record is    *)
(* also its assignment_id, which is the digest of its content.  Documents  *)
(* here are those whose signature verifies and, at assignment time, whose  *)
(* validity window is open.                                                *)
(***************************************************************************)
EXTENDS Fleet

CONSTANTS
    Legacy,         \* enrollment ids known only to the static key registry
    Revision,       \* content-addressed revision ids
    Nonce,          \* nonces of schema 2 assignments
    NoRevision,     \* SQL NULL in a head column
    MaxGeneration   \* bound: promotions of one channel

ASSUME LegacyAssumption == Legacy \cap Enrollment = {}
ASSUME NoRevisionAssumption == NoRevision \notin Revision
ASSUME MaxGenerationAssumption == MaxGeneration \in Nat

VARIABLES
    revisions,           \* stored revisions
    channels,            \* channels with a row
    candidate_revision,  \* channel -> candidate head
    active_revision,     \* channel -> active head
    generation,          \* channel -> number of promotions
    assignments,         \* addressee -> row or Absent
    reports,             \* rows of schema 1 reports
    assignment_reports   \* rows of schema 2 reports

heads == <<channels, candidate_revision, active_revision, generation>>
reported == <<reports, assignment_reports>>
vars == <<enrollments, revisions, heads, assignments, reported>>

----------------------------------------------------------------------------
(* Documents and rows *)

Addressee == Enrollment \cup Legacy

HeadRevision == Revision \cup {NoRevision}

Generation == 0 .. MaxGeneration

AssignmentKind == {"candidate", "active"}

\* REPORT_RESULTS has four words that are not "success"; one stands for them.
ReportResult == {"success", "failure"}

LegacyDocument ==
    [schema : {1}, enrollment_id : Addressee, channel : Channel,
     revision_id : Revision, target_tags : TagSet]

Contract ==
    [schema : {2}, enrollment_id : Addressee,
     enrollment_generation : EnrollmentGeneration,
     channel : Channel, channel_generation : Generation,
     revision_id : Revision, assignment_kind : AssignmentKind,
     target_tags : TagSet, nonce : Nonce]

AssignmentDocument == LegacyDocument \cup Contract

AssignmentRow ==
    [channel : Channel, revision_id : Revision,
     assignment_kind : AssignmentKind, document : AssignmentDocument]

ASSUME AbsentAssignmentAssumption == Absent \notin AssignmentRow

\* What a device reports.
ReportRow ==
    [enrollment_id : Addressee, channel : Channel, revision_id : Revision,
     result : ReportResult]

AssignmentReportRow ==
    [enrollment_id : Addressee, channel : Channel, revision_id : Revision,
     result : ReportResult, assignment : Contract]

Init ==
    /\ FleetInit
    /\ revisions = {}
    /\ channels = {}
    /\ candidate_revision = [c \in Channel |-> NoRevision]
    /\ active_revision = [c \in Channel |-> NoRevision]
    /\ generation = [c \in Channel |-> 0]
    /\ assignments = [a \in Addressee |-> Absent]
    /\ reports = {}
    /\ assignment_reports = {}

----------------------------------------------------------------------------
(* Helpers of the handlers *)

IsEnrolled(a) == a \in Enrollment /\ Enrolled(a)

\* Ids of enrollments are random, so nothing is signed for one not yet paired.
Known(a) == a \in Legacy \/ IsEnrolled(a)

Assigned(a) == assignments[a] # Absent

\* Fault: the channel's generation is taken from the document.
EligibleInAnyRound(d, g) ==
    LET e == d.enrollment_id
    IN  /\ IsEnrolled(e)
        /\ Live(e)
        /\ enrollments[e].channel = d.channel
        /\ enrollments[e].target_tags = d.target_tags
        /\ d.schema = 2 => d.enrollment_generation = enrollments[e].generation

\* Fault: a contract is good for any installation.
EligibleForAnyInstallation(d, g) ==
    LET e == d.enrollment_id
    IN  /\ IsEnrolled(e)
        /\ Live(e)
        /\ enrollments[e].channel = d.channel
        /\ enrollments[e].target_tags = d.target_tags
        /\ d.schema = 2 => d.channel_generation = g

\* Fault: `revoked` is not read.
EligibleThoughRevoked(d, g) ==
    LET e == d.enrollment_id
    IN  /\ IsEnrolled(e)
        /\ enrollments[e].channel = d.channel
        /\ enrollments[e].target_tags = d.target_tags
        /\ d.schema = 2 => /\ d.enrollment_generation = enrollments[e].generation
                           /\ d.channel_generation = g

\* Document d fits its enrollment, and a contract fits round g of its channel.
Eligible(d, g) ==
    LET e == d.enrollment_id
    IN  /\ IsEnrolled(e)
        /\ Live(e)
        /\ enrollments[e].channel = d.channel
        /\ enrollments[e].target_tags = d.target_tags
        /\ d.schema = 2 => /\ d.enrollment_generation = enrollments[e].generation
                           /\ d.channel_generation = g

\* DELETE FROM assignments WHERE channel = c
Cleared(c) ==
    [a \in Addressee |->
        IF Assigned(a) /\ assignments[a].channel = c
        THEN Absent ELSE assignments[a]]

Row(d, kind) ==
    [channel |-> d.channel, revision_id |-> d.revision_id,
     assignment_kind |-> kind, document |-> d]

\* INSERT OR REPLACE INTO assignments
Assign(d, kind) ==
    assignments' = [assignments EXCEPT ![d.enrollment_id] = Row(d, kind)]

\* INSERT OR REPLACE INTO reports
Recorded(row) ==
    {x \in reports : <<x.enrollment_id, x.channel, x.revision_id>>
                       # <<row.enrollment_id, row.channel, row.revision_id>>}
    \cup {row}

\* INSERT OR REPLACE INTO assignment_reports
RecordedFor(row) ==
    {x \in assignment_reports : <<x.enrollment_id, x.assignment>>
                                  # <<row.enrollment_id, row.assignment>>}
    \cup {row}

\* What promote selects for e; also a fault, when ORDER BY is forgotten.
CanaryReports(e, c, r) ==
    {x \in assignment_reports :
        /\ x.enrollment_id = e
        /\ x.channel = c
        /\ x.revision_id = r
        /\ x.assignment.assignment_kind = "candidate"}

\* What ORDER BY channel_generation DESC LIMIT 1 may pick of it.
NewestCanaryReports(e, c, r) ==
    LET rows == CanaryReports(e, c, r)
    IN  {x \in rows : \A y \in rows :
            y.assignment.channel_generation <= x.assignment.channel_generation}

\* The report promote reads for e is a success: a schema 2 one if there is one,
\* otherwise the schema 1 one.
CanaryPassed(e, c, r) ==
    LET newest == NewestCanaryReports(e, c, r)
    IN  IF newest # {}
        THEN \E x \in newest : x.result = "success"
        ELSE [enrollment_id |-> e, channel |-> c, revision_id |-> r,
              result |-> "success"] \in reports

----------------------------------------------------------------------------
(* The handlers *)

PutRevision(r) ==
    /\ revisions' = revisions \cup {r}
    /\ UNCHANGED <<enrollments, heads, assignments, reported>>

\* Fault: the revision need not be stored.
PublishUnstored(c, r, base, expected) ==
    /\ candidate_revision[c] = expected
    /\ active_revision[c] = base
    /\ channels' = channels \cup {c}
    /\ candidate_revision' = [candidate_revision EXCEPT ![c] = r]
    /\ assignments' = Cleared(c)
    /\ UNCHANGED <<enrollments, revisions, active_revision, generation, reported>>

\* Fault: the assignments to the replaced candidate survive.
PublishOverAssignments(c, r, base, expected) ==
    /\ r \in revisions
    /\ candidate_revision[c] = expected
    /\ active_revision[c] = base
    /\ channels' = channels \cup {c}
    /\ candidate_revision' = [candidate_revision EXCEPT ![c] = r]
    /\ UNCHANGED <<enrollments, revisions, active_revision, generation,
                   assignments, reported>>

PublishCandidate(c, r, base, expected) ==
    /\ r \in revisions
    /\ candidate_revision[c] = expected
    /\ active_revision[c] = base
    /\ channels' = channels \cup {c}
    /\ candidate_revision' = [candidate_revision EXCEPT ![c] = r]
    /\ assignments' = Cleared(c)
    /\ UNCHANGED <<enrollments, revisions, active_revision, generation, reported>>

\* A schema 1 document may also go to a device of the static registry.
AssignCandidate(d) ==
    /\ Known(d.enrollment_id)
    /\ d.schema = 2 => d.assignment_kind = "candidate"
    /\ d.revision_id = candidate_revision[d.channel]
    /\ \/ Eligible(d, generation[d.channel])
       \/ ~IsEnrolled(d.enrollment_id) /\ d.schema = 1
    /\ Assign(d, "candidate")
    /\ UNCHANGED <<enrollments, revisions, heads, reported>>

\* Fault: the document is taken for the active revision without a look.
BootstrapAnyRevision(d) ==
    /\ d.schema = 2 => d.assignment_kind = "active"
    /\ Eligible(d, generation[d.channel])
    /\ Assign(d, IF d.schema = 2 THEN "active" ELSE "candidate")
    /\ UNCHANGED <<enrollments, revisions, heads, reported>>

\* A schema 1 document is stored as a candidate, for old clients.
BootstrapActive(d) ==
    /\ d.schema = 2 => d.assignment_kind = "active"
    /\ d.revision_id = active_revision[d.channel]
    /\ Eligible(d, generation[d.channel])
    /\ Assign(d, IF d.schema = 2 THEN "active" ELSE "candidate")
    /\ UNCHANGED <<enrollments, revisions, heads, reported>>

\* The report's signature verifies against the enrollment's own key, or
\* against the static registry for a device that never paired.
Reporter(a) == IF IsEnrolled(a) THEN Live(a) ELSE a \in Legacy

\* The report is about the assignment its device has now.
Answers(p) ==
    /\ Assigned(p.enrollment_id)
    /\ assignments[p.enrollment_id].channel = p.channel
    /\ assignments[p.enrollment_id].revision_id = p.revision_id

\* Fault: the id, kind and generations in the report are not compared.
NamesAnything(p, named) == named.enrollment_id = p.enrollment_id

\* The assignment id, kind and generations in the report are those of the
\* contract its device has now.
NamesContract(p, named) ==
    LET a == assignments[p.enrollment_id]
    IN  /\ named = a.document
        /\ named.assignment_kind = a.assignment_kind

RecordReport(p) ==
    /\ Reporter(p.enrollment_id)
    /\ Answers(p)
    /\ \/ /\ assignments[p.enrollment_id].document.schema = 1
          /\ reports' = Recorded(p)
          /\ UNCHANGED assignment_reports
       \/ /\ assignments[p.enrollment_id].document.schema = 2
          /\ \E named \in Contract :
                /\ NamesContract(p, named)
                /\ assignment_reports' = RecordedFor(
                      [enrollment_id |-> p.enrollment_id, channel |-> p.channel,
                       revision_id |-> p.revision_id, result |-> p.result,
                       assignment |-> named])
          /\ UNCHANGED reports
    /\ UNCHANGED <<enrollments, revisions, heads, assignments>>

\* The batches of active contracts promote accepts for c, r at generation g,
\* with at most one contract per enrollment.  An absent batch is {}.  The INSERT
\* replaces nothing: a row its device has in another channel refuses the batch.
ActiveBatches(c, r, g) ==
    {batch \in SUBSET {d \in Contract : /\ d.channel = c
                                        /\ d.revision_id = r
                                        /\ d.assignment_kind = "active"
                                        /\ Eligible(d, g)
                                        /\ Cleared(c)[d.enrollment_id] = Absent} :
        \A d1, d2 \in batch : d1.enrollment_id = d2.enrollment_id => d1 = d2}

\* DELETE the channel's assignments, then INSERT the batch.
AssignedBatch(c, batch) ==
    [a \in Addressee |->
        IF \E d \in batch : d.enrollment_id = a
        THEN Row(CHOOSE d \in batch : d.enrollment_id = a, "active")
        ELSE Cleared(c)[a]]

\* Fault: the generation in the promotion event is not compared.
MayPromoteToAnyGeneration(c, r, expected, required, g) ==
    /\ c \in channels
    /\ candidate_revision[c] = r
    /\ active_revision[c] = expected
    /\ \A e \in required : CanaryPassed(e, c, r)

\* The heads are those the payload names, the canaries have passed and the
\* signed promotion event names the next generation.  r is NoRevision when the
\* payload's candidate_revision is null.
MayPromote(c, r, expected, required, g) ==
    /\ c \in channels
    /\ candidate_revision[c] = r
    /\ active_revision[c] = expected
    /\ \A e \in required : CanaryPassed(e, c, r)
    /\ g = generation[c] + 1

\* Fault: candidate_revision=NULL is missing from the UPDATE.
PromoteKeepingCandidate(c, r, expected, required, g) ==
    /\ MayPromote(c, r, expected, required, g)
    /\ active_revision' = [active_revision EXCEPT ![c] = r]
    /\ generation' = [generation EXCEPT ![c] = g]
    /\ \E batch \in ActiveBatches(c, r, g) : assignments' = AssignedBatch(c, batch)
    /\ UNCHANGED <<enrollments, revisions, channels, candidate_revision, reported>>

Promote(c, r, expected, required, g) ==
    /\ MayPromote(c, r, expected, required, g)
    /\ candidate_revision' = [candidate_revision EXCEPT ![c] = NoRevision]
    /\ active_revision' = [active_revision EXCEPT ![c] = r]
    /\ generation' = [generation EXCEPT ![c] = g]
    /\ \E batch \in ActiveBatches(c, r, g) : assignments' = AssignedBatch(c, batch)
    /\ UNCHANGED <<enrollments, revisions, channels, reported>>

Pair ==
    /\ \E e \in Enrollment, d \in Device, c \in Channel, tags \in TagSet,
          g \in EnrollmentGeneration : Enroll(e, d, c, tags, g)
    /\ UNCHANGED <<revisions, heads, assignments, reported>>

Revoke(e) ==
    /\ RevokeEnrollment(e)
    /\ UNCHANGED <<revisions, heads, assignments, reported>>

Next ==
    \/ \E r \in Revision : PutRevision(r)
    \/ \E c \in Channel, r \in Revision, base, expected \in HeadRevision :
          PublishCandidate(c, r, base, expected)
    \/ \E d \in AssignmentDocument : AssignCandidate(d)
    \/ \E d \in AssignmentDocument : BootstrapActive(d)
    \/ \E p \in ReportRow : RecordReport(p)
    \/ \E c \in Channel, r, expected \in HeadRevision, g \in Generation,
          required \in SUBSET Addressee : Promote(c, r, expected, required, g)
    \/ Pair
    \/ \E e \in Enrollment : Revoke(e)

Spec == Init /\ [][Next]_vars

----------------------------------------------------------------------------
(* What a device is served *)

\* An enrolled device asks with its token, for its own channel; a device of the
\* static registry has no token and asks for any.
MayAsk(a, c) == IsEnrolled(a) => Live(a) /\ enrollments[a].channel = c

\* Fault: SELECT ... WHERE enrollment_id = a, the channel forgotten.
ResponseForAnyChannel(a, c) ==
    IF Assigned(a)
    THEN [revision_id |-> assignments[a].revision_id,
          assignment_kind |-> assignments[a].assignment_kind]
    ELSE [revision_id |-> active_revision[c], assignment_kind |-> "active"]

\* `assignment`: the stored row of a in c, otherwise the active head.  The
\* handler answers NotFound where revision_id is NoRevision.
AssignmentResponse(a, c) ==
    IF Assigned(a) /\ assignments[a].channel = c
    THEN [revision_id |-> assignments[a].revision_id,
          assignment_kind |-> assignments[a].assignment_kind]
    ELSE [revision_id |-> active_revision[c], assignment_kind |-> "active"]

----------------------------------------------------------------------------
(* Invariants *)

\* The heads are foreign keys into the table of revisions.
TypeOK ==
    /\ FleetTypeOK
    /\ revisions \subseteq Revision
    /\ channels \subseteq Channel
    /\ candidate_revision \in [Channel -> revisions \cup {NoRevision}]
    /\ active_revision \in [Channel -> revisions \cup {NoRevision}]
    /\ generation \in [Channel -> Generation]
    /\ assignments \in [Addressee -> AssignmentRow \cup {Absent}]
    /\ reports \subseteq ReportRow
    /\ assignment_reports \subseteq AssignmentReportRow

\* The columns of a row repeat its document, which is addressed to the row's key.
RowMatchesDocument(a) ==
    LET row == assignments[a]
    IN  /\ row.document.enrollment_id = a
        /\ row.channel = row.document.channel
        /\ row.revision_id = row.document.revision_id
        /\ row.assignment_kind =
              IF row.document.schema = 2 THEN row.document.assignment_kind
                                         ELSE "candidate"

\* The row names the head its kind stands for, and its contract the round.
RowFollowsHead(a) ==
    LET row == assignments[a]
        c == row.channel
    IN  IF row.document.schema = 2
        THEN /\ row.document.channel_generation = generation[c]
             /\ row.revision_id = IF row.assignment_kind = "active"
                                  THEN active_revision[c]
                                  ELSE candidate_revision[c]
        ELSE row.revision_id \in {candidate_revision[c], active_revision[c]}

\* The row's device may have it: paired to that channel with those tags.
RowFitsEnrollment(a) ==
    LET d == assignments[a].document
    IN  IF IsEnrolled(a)
        THEN /\ enrollments[a].channel = d.channel
             /\ enrollments[a].target_tags = d.target_tags
             /\ d.schema = 2 =>
                   d.enrollment_generation = enrollments[a].generation
        ELSE a \in Legacy /\ d.schema = 1

(* Whatever order publications, assignments, bootstraps and promotions of
   different administrators come in, a stored assignment is for a revision its
   channel still stands behind: an active one for the active head, a candidate
   one for the candidate head, and a contract for the current generation. *)
AssignmentsFollowHeads ==
    \A a \in Addressee : Assigned(a) => RowMatchesDocument(a) /\ RowFollowsHead(a)

(* No device holds an assignment signed for other tags, for another channel or
   for another installation of the same device, revoked or not. *)
AssignmentsFitEnrollment ==
    \A a \in Addressee : Assigned(a) => RowFitsEnrollment(a)

(* A lookup for channel c answers a head of c, and calls it active only when
   it is the active one, also for a static-registry device whose assignment
   was replaced by one in another channel (store.py 1823-1857). *)
LookupServesHead ==
    \A a \in Addressee, c \in Channel : MayAsk(a, c) =>
        LET served == AssignmentResponse(a, c)
        IN  /\ served.revision_id \in {candidate_revision[c], active_revision[c]}
            /\ served.assignment_kind = "active" =>
                  served.revision_id = active_revision[c]

\* A report about an active contract is about the revision that generation made
\* active.
ReportRowSound(x) ==
    LET d == x.assignment
    IN  /\ x.enrollment_id = d.enrollment_id
        /\ x.channel = d.channel
        /\ x.revision_id = d.revision_id
        /\ d.channel_generation <= generation[x.channel]
        /\ d.channel_generation = generation[x.channel]
              /\ d.assignment_kind = "active"
              => x.revision_id = active_revision[x.channel]

(* The columns that promote's gate selects by agree with the contract the row
   was recorded for, although the handler takes them from the report and the
   contract from the stored assignment (store.py 1622-1647). *)
ReportsAgreeWithContracts ==
    \A x \in assignment_reports : ReportRowSound(x)

(* A generation of a channel has one active revision for good: two devices
   that ever reported on an active contract of that generation, however late,
   reported on the same revision. *)
ActiveRevisionPerGeneration ==
    \A x, y \in assignment_reports :
        /\ x.assignment.assignment_kind = "active"
        /\ y.assignment.assignment_kind = "active"
        /\ x.channel = y.channel
        /\ x.assignment.channel_generation = y.assignment.channel_generation
        => x.revision_id = y.revision_id

----------------------------------------------------------------------------
(* Action properties *)

(* From its revocation on an enrollment is given no assignment and no report of
   it is recorded: its row can only be deleted.  (store.py 1072-1081, against
   the four handlers that read `revoked` under the write lock.) *)
RevokedIsFrozen ==
    [][\A e \in Enrollment : Enrolled(e) /\ enrollments[e].revoked =>
        /\ Enrolled(e)' /\ enrollments'[e].revoked
        /\ assignments'[e] \in {assignments[e], Absent}
        /\ \A x \in reports' \ reports : x.enrollment_id # e
        /\ \A x \in assignment_reports' \ assignment_reports :
              x.enrollment_id # e
      ]_vars

----------------------------------------------------------------------------
(* Refinement *)

Heads == INSTANCE ChannelHeads

(* No handler moves a head except as ChannelHeads says: publications touch only
   the candidate, and the active head takes the candidate's value as the
   generation advances by one. *)
ImplementsChannelHeads == Heads!HeadsSpec

============================================================================
