------------------------------ MODULE Readers ------------------------------
(***************************************************************************)
(* The readers of the store beside its writers.  A reader runs its SELECTs *)
(* in autocommit mode, so publications, promotions, reports and            *)
(* revocations commit between them.  One read is followed at a time: the   *)
(* lookup of an assignment, the download of a blob, or the rollout         *)
(* snapshot, of whose rows, all read together, one stands for the others.  *)
(*                                                                         *)
(* `seen` only observes: what the tables said at each moment of the read.  *)
(***************************************************************************)
EXTENDS Requests

CONSTANTS
    Referring,   \* revisions whose manifest refers to the blob asked for
    NoReport     \* JSON null in report_result

ASSUME ReferringAssumption == Referring \subseteq Revision

ASSUME NoReportAssumption == NoReport \notin ReportResult

VARIABLES
    reading,   \* the locals of the reading thread
    seen       \* history: the moments of the read so far

rollouts == <<vars, idempotency>>

ReadCall == {"assignment", "blob", "rollouts"}

Stage == {"authenticated", "no row", "row", "reports", "answered"}

\* The row read, the active head read, and the result to show.
ReadRecord ==
    [call : ReadCall, enrollment_id : Addressee, stage : Stage,
     row : AssignmentRow \cup {Absent}, active_revision : HeadRevision,
     report_result : ReportResult \cup {NoReport}]

Idle == [stage |-> "idle"]

ReadersInit == RequestsInit /\ reading = Idle /\ seen = {}

----------------------------------------------------------------------------
(* The statements *)

Begin(call, a, stage, row) ==
    /\ reading = Idle
    /\ reading' = [call |-> call, enrollment_id |-> a, stage |-> stage, row |-> row,
                   active_revision |-> NoRevision, report_result |-> NoReport]

At(call, stage) ==
    reading # Idle /\ reading.call = call /\ reading.stage = stage

\* `_authenticate`; the channel asked for is the enrollment's own.
Authenticate(call, e) ==
    /\ Live(e)
    /\ Begin(call, e, "authenticated", Absent)

\* SELECT ... FROM assignments WHERE enrollment_id = ? AND channel = ?
StoredFor(e) ==
    {row \in {assignments[e]} :
        row # Absent /\ row.channel = enrollments[e].channel}

ReadRow ==
    LET rows == StoredFor(reading.enrollment_id)
    IN  \/ /\ At("assignment", "authenticated")
           /\ \/ \E row \in rows :
                    reading' = [reading EXCEPT !.stage = "answered", !.row = row]
              \/ rows = {} /\ reading' = [reading EXCEPT !.stage = "no row"]
        \/ /\ At("blob", "authenticated")
           /\ \/ \E row \in rows :
                    reading' = [reading EXCEPT !.stage = "row", !.row = row]
              \/ rows = {} /\ reading' = Idle

\* Fault: the head that is being tested will do as well.
HeadToServe(c) ==
    IF candidate_revision[c] # NoRevision THEN candidate_revision[c]
                                          ELSE active_revision[c]

\* SELECT active_revision FROM channels WHERE channel = ?
ActiveHead(c) == active_revision[c]

\* Fault: a channel that has a row is taken to have an active revision.
ReadHeadOrNull ==
    /\ At("assignment", "no row")
    /\ LET c == enrollments[reading.enrollment_id].channel
       IN  reading' = IF c \notin channels THEN Idle
                      ELSE [reading EXCEPT !.stage = "answered",
                                           !.active_revision = ActiveHead(c)]

\* Without an active revision the answer is NotFound.
ReadHead ==
    /\ At("assignment", "no row")
    /\ LET head == ActiveHead(enrollments[reading.enrollment_id].channel)
       IN  reading' = IF head = NoRevision THEN Idle
                      ELSE [reading EXCEPT !.stage = "answered",
                                           !.active_revision = head]

\* The rows of the blob and of the revision, and the file: none of them changes
\* once it is there, and the blob may be missing.
ReadManifest ==
    /\ At("blob", "row")
    /\ \/ /\ reading.row.revision_id \in Referring
          /\ reading' = [reading EXCEPT !.stage = "answered"]
       \/ reading' = Idle

\* The rollout snapshot reads the assignments with their enrollments, ...
ReadAssignments(a) ==
    /\ Assigned(a)
    /\ Begin("rollouts", a, "row", assignments[a])

\* Fault: the reports are looked up by enrollment.
ResultsForEnrollment(row) ==
    {x.result : x \in {y \in assignment_reports :
        row.document.schema = 2 /\ y.enrollment_id = row.document.enrollment_id}}

\* assignment_reports.get(assignment_id), as a set of at most one result.
ContractResults(row) ==
    {x.result : x \in {y \in assignment_reports : y.assignment = row.document}}

\* legacy_reports.get((enrollment_id, channel, revision_id))
LegacyResults(a, row) ==
    {x.result : x \in {y \in reports :
        /\ y.enrollment_id = a
        /\ y.channel = row.channel
        /\ y.revision_id = row.revision_id}}

\* ... then the reports on contracts, ...
ReadAssignmentReports ==
    /\ At("rollouts", "row")
    /\ LET results == ContractResults(reading.row)
       IN  \/ \E result \in results :
                 reading' = [reading EXCEPT !.stage = "reports",
                                            !.report_result = result]
           \/ /\ results = {}
              /\ reading' = [reading EXCEPT !.stage = "reports"]

\* ... then the others, for the rows that have no result yet.
ReadReports ==
    /\ At("rollouts", "reports")
    /\ LET results == LegacyResults(reading.enrollment_id, reading.row)
       IN  IF reading.report_result = NoReport /\ results # {}
           THEN \E result \in results :
                   reading' = [reading EXCEPT !.stage = "answered",
                                              !.report_result = result]
           ELSE reading' = [reading EXCEPT !.stage = "answered"]

Deliver ==
    /\ reading # Idle
    /\ reading.stage = "answered"
    /\ reading' = Idle

----------------------------------------------------------------------------

\* What the tables say about the device of the read.
Moment ==
    LET a == reading.enrollment_id
        row == assignments[a]
        results == ContractResults(row)
    IN  [live |-> IsEnrolled(a) /\ Live(a),
         row |-> row,
         active_revision |->
            IF IsEnrolled(a) THEN active_revision[enrollments[a].channel]
                             ELSE NoRevision,
         results |-> IF row = Absent THEN {}
                     ELSE IF results # {} THEN results ELSE LegacyResults(a, row)]

Observe ==
    seen' = IF reading' = Idle THEN {}
            ELSE (IF reading = Idle THEN {} ELSE seen) \cup {Moment'}

ReadersNext ==
    /\ \/ RequestsNext /\ UNCHANGED reading
       \/ /\ UNCHANGED rollouts
          /\ \/ \E e \in Enrollment, call \in {"assignment", "blob"} :
                   Authenticate(call, e)
             \/ \E a \in Addressee : ReadAssignments(a)
             \/ ReadRow
             \/ ReadHead
             \/ ReadManifest
             \/ ReadAssignmentReports
             \/ ReadReports
             \/ Deliver
    /\ Observe

ReadersSpec == ReadersInit /\ [][ReadersNext]_<<rollouts, reading, seen>>

----------------------------------------------------------------------------

Answering(call) == At(call, "answered")

ReadersTypeOK ==
    /\ RequestsTypeOK
    /\ reading \in ReadRecord \cup {Idle}
    /\ Answering("assignment") =>
          reading.row # Absent \/ reading.active_revision # NoRevision

\* The answer of a lookup that ran as a whole at moment m.
AnswerAt(m) ==
    /\ m.live
    /\ m.row = reading.row
    /\ m.row = Absent => m.active_revision = reading.active_revision

\* The device, live when its token was checked, was revoked before the head was read.
RevokedDuringLookup ==
    /\ reading.row = Absent
    /\ \E m \in seen : m.live
    /\ \E m \in seen : /\ ~m.live
                      /\ m.row = Absent
                      /\ m.active_revision = reading.active_revision

\* The head the answer names came after the SELECT of the row, in a promotion that
\* also gave the device its active contract for it.
PromotedDuringLookup ==
    /\ reading.row = Absent
    /\ \E m \in seen : /\ m.row = Absent
                      /\ m.active_revision # reading.active_revision
    /\ \E m \in seen : /\ m.live
                      /\ m.row # Absent
                      /\ m.row.assignment_kind = "active"
                      /\ m.row.revision_id = reading.active_revision

(* A lookup's answer is what one moment of the call would have answered to the live
   device, although publications, assignments, promotions and revocations commit
   between its three SELECTs, with two exceptions for a device without a row.  One
   that is revoked after its token was checked is told the head of a later moment;
   and one that a promotion gives the new head and an active contract for it is told
   the head alone (store.py 1823-1857). *)
LookupsAnswerOneMoment ==
    Answering("assignment") =>
        \/ \E m \in seen : AnswerAt(m)
        \/ RevokedDuringLookup
        \/ PromotedDuringLookup

(* A blob is handed out only if, at one moment of the call, its device was live
   and assigned a revision that refers to it: a revocation between the check of
   the token and the SELECT of the assignment cannot be followed by an assignment
   that makes the blob reachable (store.py 1277-1319). *)
BlobsAreReachable ==
    Answering("blob") =>
        /\ reading.row.revision_id \in Referring
        /\ \E m \in seen : m.live /\ m.row = reading.row

(* The rollout snapshot shows an assignment with a result that it had, or without
   one when it had none, at one moment of the call, although assignments and
   reports are read one after the other.  The exception: an assignment that is
   replaced during the call by one of schema 1 for the same revision is shown with
   the report on that one (store.py 1014-1070). *)
SnapshotsShowOneMoment ==
    Answering("rollouts") =>
        \E m \in seen :
            \/ /\ m.row = reading.row
               /\ IF reading.report_result = NoReport
                  THEN m.results = {} ELSE reading.report_result \in m.results
            \/ /\ m.row # Absent
               /\ m.row.document.schema = 1
               /\ m.row.channel = reading.row.channel
               /\ m.row.revision_id = reading.row.revision_id
               /\ reading.report_result \in m.results

============================================================================
