--------------------------- MODULE RolloutProofs ---------------------------
(***************************************************************************)
(* Proofs about Rollout for every set of enrollments, devices, channels,   *)
(* revisions, tag sets and nonces, and every bound.                        *)
(***************************************************************************)
EXTENDS Readers, RolloutHistory, FleetProofs, WellFoundedInduction

----------------------------------------------------------------------------
(* Lemmas about the helpers *)

LEMMA RowType ==
    ASSUME NEW d \in AssignmentDocument, NEW kind \in AssignmentKind
    PROVE  Row(d, kind) \in AssignmentRow
BY DEF Row, AssignmentRow, AssignmentDocument, LegacyDocument, Contract

LEMMA ClearedType ==
    ASSUME TypeOK, NEW c
    PROVE  Cleared(c) \in [Addressee -> AssignmentRow \cup {Absent}]
BY DEF TypeOK, Cleared

LEMMA AssignedBatchType ==
    ASSUME TypeOK, NEW c, NEW batch \in SUBSET Contract
    PROVE  AssignedBatch(c, batch) \in [Addressee -> AssignmentRow \cup {Absent}]
<1> DEFINE chosen(a) == CHOOSE d \in batch : d.enrollment_id = a
<1>1. ASSUME NEW a \in Addressee, \E d \in batch : d.enrollment_id = a
      PROVE  Row(chosen(a), "active") \in AssignmentRow
    <2>1. chosen(a) \in Contract
        BY <1>1
    <2>2. QED
        BY <2>1, RowType DEF AssignmentDocument, AssignmentKind
<1>2. QED
    BY <1>1, ClearedType DEF AssignedBatch

----------------------------------------------------------------------------
(* Type correctness *)

LEMMA TypeInit == Init => TypeOK
<1> SUFFICES ASSUME Init PROVE TypeOK
    OBVIOUS
<1>1. FleetTypeOK
    BY DEF Init, FleetInit, FleetTypeOK
<1>2. generation \in [Channel -> Generation]
    BY MaxGenerationAssumption DEF Init, Generation
<1>3. QED
    BY <1>1, <1>2 DEF Init, TypeOK

LEMMA TypeStep == TypeOK /\ [Next]_vars => TypeOK'
<1> SUFFICES ASSUME TypeOK, [Next]_vars PROVE TypeOK'
    OBVIOUS
<1>1. ASSUME NEW r \in Revision, PutRevision(r) PROVE TypeOK'
    BY <1>1 DEF TypeOK, FleetTypeOK, PutRevision, heads, reported
<1>2. ASSUME NEW c \in Channel, NEW r \in Revision,
             NEW base \in HeadRevision, NEW expected \in HeadRevision,
             PublishCandidate(c, r, base, expected)
      PROVE  TypeOK'
    BY <1>2, ClearedType DEF TypeOK, FleetTypeOK, PublishCandidate, reported
<1>3. ASSUME NEW d \in AssignmentDocument, NEW kind \in AssignmentKind,
             Assign(d, kind), UNCHANGED <<enrollments, revisions, heads, reported>>
      PROVE  TypeOK'
    BY <1>3, RowType DEF TypeOK, FleetTypeOK, Assign, heads, reported
<1>4. ASSUME NEW d \in AssignmentDocument, AssignCandidate(d) PROVE TypeOK'
    BY <1>3, <1>4 DEF AssignCandidate, AssignmentKind
<1>5. ASSUME NEW d \in AssignmentDocument, BootstrapActive(d) PROVE TypeOK'
    BY <1>3, <1>5 DEF BootstrapActive, AssignmentKind
<1>6. ASSUME NEW p \in ReportRow, RecordReport(p) PROVE TypeOK'
    <2>1. reports' \subseteq ReportRow
        BY <1>6 DEF TypeOK, RecordReport, Recorded
    <2>2. assignment_reports' \subseteq AssignmentReportRow
        BY <1>6 DEF TypeOK, RecordReport, RecordedFor, ReportRow, AssignmentReportRow
    <2>3. QED
        BY <1>6, <2>1, <2>2 DEF TypeOK, FleetTypeOK, RecordReport, heads
<1>7. ASSUME NEW c \in Channel, NEW r \in HeadRevision, NEW expected \in HeadRevision,
             NEW g \in Generation, NEW required \in SUBSET Addressee,
             Promote(c, r, expected, required, g)
      PROVE  TypeOK'
    <2>1. assignments' \in [Addressee -> AssignmentRow \cup {Absent}]
        BY <1>7, AssignedBatchType DEF Promote, ActiveBatches
    <2>2. r \in revisions \cup {NoRevision}
        BY <1>7 DEF Promote, MayPromote, TypeOK
    <2>3. QED
        BY <1>7, <2>1, <2>2 DEF TypeOK, FleetTypeOK, Promote, reported
<1>8. CASE Pair
    <2>1. FleetTypeOK'
        BY <1>8 DEF Pair, Enroll, TypeOK, FleetTypeOK, EnrollmentRow
    <2>2. QED
        BY <1>8, <2>1 DEF Pair, TypeOK, heads, reported
<1>9. ASSUME NEW e \in Enrollment, Revoke(e) PROVE TypeOK'
    <2>1. FleetTypeOK'
        BY <1>9 DEF Revoke, RevokeEnrollment, Enrolled, TypeOK, FleetTypeOK,
                    EnrollmentRow
    <2>2. QED
        BY <1>9, <2>1 DEF Revoke, TypeOK, heads, reported
<1>10. CASE UNCHANGED vars
    BY <1>10 DEF TypeOK, FleetTypeOK, vars, heads, reported
<1>11. QED
    BY <1>1, <1>2, <1>4, <1>5, <1>6, <1>7, <1>8, <1>9, <1>10 DEF Next

(* Every table of the store keeps its schema, and a channel's heads are always
   stored revisions. *)
THEOREM TypeCorrect == Spec => []TypeOK
BY TypeInit, TypeStep, PTL DEF Spec

----------------------------------------------------------------------------
(* Assignments: the invariant is inductive once both halves are taken together,
   since an unpaired id holds a row only if it is a static-registry one. *)

RowSound(a) == RowMatchesDocument(a) /\ RowFollowsHead(a) /\ RowFitsEnrollment(a)

AssignmentsSound == \A a \in Addressee : Assigned(a) => RowSound(a)

LEMMA SoundIsBoth ==
    AssignmentsSound <=> AssignmentsFollowHeads /\ AssignmentsFitEnrollment
BY DEF AssignmentsSound, RowSound, AssignmentsFollowHeads, AssignmentsFitEnrollment

\* A row that stays is sound as long as its enrollment and its channel stay.
LEMMA KeptRow ==
    ASSUME NEW a \in Addressee, RowSound(a), assignments'[a] = assignments[a],
           UNCHANGED enrollments,
           LET c == assignments[a].channel
           IN  UNCHANGED <<candidate_revision[c], active_revision[c], generation[c]>>
    PROVE  RowSound(a)'
BY DEF RowSound, RowMatchesDocument, RowFollowsHead, RowFitsEnrollment,
       IsEnrolled, Enrolled

\* A document that fits its enrollment and names a head makes a sound row.
LEMMA NewRow ==
    ASSUME NEW d \in AssignmentDocument, NEW kind \in AssignmentKind,
           NEW a, a = d.enrollment_id,
           assignments'[a] = Row(d, kind),
           kind = IF d.schema = 2 THEN d.assignment_kind ELSE "candidate",
           \/ Eligible(d, generation'[d.channel])
           \/ (a \in Legacy /\ ~IsEnrolled(a) /\ d.schema = 1),
           d.revision_id \in {candidate_revision'[d.channel],
                              active_revision'[d.channel]},
           d.schema = 2 => d.revision_id = IF kind = "active"
                                           THEN active_revision'[d.channel]
                                           ELSE candidate_revision'[d.channel],
           UNCHANGED enrollments
    PROVE  RowSound(a)'
<1>1. RowMatchesDocument(a)'
    BY DEF RowMatchesDocument, Row
<1>2. RowFollowsHead(a)'
    <2>1. d.schema = 2 => d.channel_generation = generation'[d.channel]
        BY DEF Eligible, IsEnrolled
    <2>2. QED
        BY <2>1 DEF RowFollowsHead, Row
<1>3. RowFitsEnrollment(a)'
    BY DEF RowFitsEnrollment, Row, Eligible, IsEnrolled, Enrolled
<1>4. QED
    BY <1>1, <1>2, <1>3 DEF RowSound

LEMMA AssignmentsInit == Init => AssignmentsSound
BY DEF Init, AssignmentsSound, Assigned

LEMMA AssignmentsStep ==
    TypeOK /\ AssignmentsSound /\ [Next]_vars => AssignmentsSound'
<1> SUFFICES ASSUME TypeOK, AssignmentsSound, [Next]_vars,
                    NEW a \in Addressee, Assigned(a)'
             PROVE  RowSound(a)'
    BY DEF AssignmentsSound
<1> DEFINE Kept == /\ Assigned(a)
                   /\ assignments'[a] = assignments[a]
<1>1. ASSUME Kept, UNCHANGED <<enrollments, heads>> PROVE RowSound(a)'
    BY <1>1, KeptRow DEF AssignmentsSound, heads
<1>2. ASSUME NEW r \in Revision, PutRevision(r) PROVE RowSound(a)'
    BY <1>1, <1>2 DEF PutRevision, Assigned
<1>3. ASSUME NEW c \in Channel, NEW r \in Revision,
             NEW base \in HeadRevision, NEW expected \in HeadRevision,
             PublishCandidate(c, r, base, expected)
      PROVE  RowSound(a)'
    <2>1. Kept /\ assignments[a].channel # c
        BY <1>3 DEF PublishCandidate, Cleared, Assigned
    <2>2. assignments[a].channel \in Channel
        BY <2>1 DEF TypeOK, Assigned, AssignmentRow
    <2>3. QED
        BY <1>3, <2>1, <2>2, KeptRow DEF PublishCandidate, TypeOK, AssignmentsSound
<1>4. ASSUME NEW d \in AssignmentDocument, AssignCandidate(d) PROVE RowSound(a)'
    <2>1. CASE a = d.enrollment_id
        <3>1. assignments'[a] = Row(d, "candidate")
            BY <1>4, <2>1 DEF AssignCandidate, Assign, TypeOK
        <3>2. UNCHANGED <<enrollments, candidate_revision, active_revision, generation>>
            BY <1>4 DEF AssignCandidate, heads
        <3>3. \/ Eligible(d, generation'[d.channel])
              \/ (a \in Legacy /\ ~IsEnrolled(a) /\ d.schema = 1)
            BY <1>4, <2>1, <3>2 DEF AssignCandidate, Known
        <3>4. d.revision_id = candidate_revision'[d.channel]
            BY <1>4, <3>2 DEF AssignCandidate
        <3>5. d.schema = 2 => d.assignment_kind = "candidate"
            BY <1>4 DEF AssignCandidate
        <3>6. QED
            BY <2>1, <3>1, <3>2, <3>3, <3>4, <3>5, NewRow DEF AssignmentKind
    <2>2. CASE a # d.enrollment_id
        BY <1>1, <1>4, <2>2 DEF AssignCandidate, Assign, TypeOK, Assigned
    <2>3. QED
        BY <2>1, <2>2
<1>5. ASSUME NEW d \in AssignmentDocument, BootstrapActive(d) PROVE RowSound(a)'
    <2> DEFINE kind == IF d.schema = 2 THEN "active" ELSE "candidate"
    <2>1. CASE a = d.enrollment_id
        <3>1. assignments'[a] = Row(d, kind)
            BY <1>5, <2>1 DEF BootstrapActive, Assign, TypeOK
        <3>2. UNCHANGED <<enrollments, candidate_revision, active_revision, generation>>
            BY <1>5 DEF BootstrapActive, heads
        <3>3. Eligible(d, generation'[d.channel])
            BY <1>5, <3>2 DEF BootstrapActive
        <3>4. d.revision_id = active_revision'[d.channel]
            BY <1>5, <3>2 DEF BootstrapActive
        <3>5. kind = IF d.schema = 2 THEN d.assignment_kind ELSE "candidate"
            BY <1>5 DEF BootstrapActive
        <3>6. kind \in AssignmentKind
            BY DEF AssignmentKind
        <3>7. d.schema = 2 => kind = "active"
            OBVIOUS
        <3> HIDE DEF kind
        <3>8. QED
            BY <2>1, <3>1, <3>2, <3>3, <3>4, <3>5, <3>6, <3>7, NewRow
    <2>2. CASE a # d.enrollment_id
        BY <1>1, <1>5, <2>2 DEF BootstrapActive, Assign, TypeOK, Assigned
    <2>3. QED
        BY <2>1, <2>2
<1>6. ASSUME NEW p \in ReportRow, RecordReport(p) PROVE RowSound(a)'
    BY <1>1, <1>6 DEF RecordReport, Assigned
<1>7. ASSUME NEW c \in Channel, NEW r \in HeadRevision, NEW expected \in HeadRevision,
             NEW g \in Generation, NEW required \in SUBSET Addressee,
             Promote(c, r, expected, required, g)
      PROVE  RowSound(a)'
    <2>1. PICK batch \in ActiveBatches(c, r, g) :
              assignments' = AssignedBatch(c, batch)
        BY <1>7 DEF Promote
    <2>2. UNCHANGED enrollments
        BY <1>7 DEF Promote
    <2>3. active_revision'[c] = r /\ generation'[c] = g
        BY <1>7 DEF Promote, TypeOK
    <2>4. CASE \E d \in batch : d.enrollment_id = a
        <3> DEFINE d == CHOOSE x \in batch : x.enrollment_id = a
        <3>1. d \in batch /\ d.enrollment_id = a
            BY <2>4
        <3>2. /\ d \in Contract
              /\ d.channel = c
              /\ d.revision_id = r
              /\ d.assignment_kind = "active"
              /\ Eligible(d, g)
            BY <2>1, <3>1 DEF ActiveBatches
        <3>3. d.schema = 2
            BY <3>2 DEF Contract
        <3>4. assignments'[a] = Row(d, "active")
            BY <2>1, <2>4 DEF AssignedBatch
        <3> HIDE DEF d
        <3>5. d \in AssignmentDocument /\ "active" \in AssignmentKind
            BY <3>2 DEF AssignmentDocument, AssignmentKind
        <3>6. QED
            BY <2>2, <2>3, <3>1, <3>2, <3>3, <3>4, <3>5, NewRow
    <2>5. CASE ~\E d \in batch : d.enrollment_id = a
        <3>1. Kept /\ assignments[a].channel # c
            BY <2>1, <2>5 DEF AssignedBatch, Cleared, Assigned
        <3>2. assignments[a].channel \in Channel
            BY <3>1 DEF TypeOK, Assigned, AssignmentRow
        <3>3. QED
            BY <1>7, <2>2, <3>1, <3>2, KeptRow DEF Promote, TypeOK, AssignmentsSound
    <2>6. QED
        BY <2>4, <2>5
<1>8. CASE Pair
    <2>1. Kept /\ UNCHANGED heads
        BY <1>8 DEF Pair, Assigned
    <2>2. PICK e \in Enrollment, d \in Device, c \in Channel, tags \in TagSet,
               g \in EnrollmentGeneration : Enroll(e, d, c, tags, g)
        BY <1>8 DEF Pair
    <2>3. RowSound(a)
        BY <2>1 DEF AssignmentsSound
    <2>4. a # e
        BY <2>2, <2>3, LegacyAssumption
           DEF RowSound, RowFitsEnrollment, IsEnrolled, Enroll
    <2>5. a \in Enrollment => enrollments'[a] = enrollments[a]
        BY <2>2, <2>4 DEF Enroll, TypeOK, FleetTypeOK
    <2>6. QED
        BY <2>1, <2>3, <2>5 DEF RowSound, RowMatchesDocument, RowFollowsHead,
                                RowFitsEnrollment, IsEnrolled, Enrolled, heads
<1>9. ASSUME NEW e \in Enrollment, Revoke(e) PROVE RowSound(a)'
    <2>1. Kept /\ UNCHANGED heads
        BY <1>9 DEF Revoke, Assigned
    <2>2. RowSound(a)
        BY <2>1 DEF AssignmentsSound
    <2>3. /\ IsEnrolled(a)' <=> IsEnrolled(a)
          /\ IsEnrolled(a) => /\ enrollments'[a].channel = enrollments[a].channel
                              /\ enrollments'[a].target_tags = enrollments[a].target_tags
                              /\ enrollments'[a].generation = enrollments[a].generation
        BY <1>9, AbsentEnrollmentAssumption
           DEF Revoke, RevokeEnrollment, IsEnrolled, Enrolled, TypeOK, FleetTypeOK,
               EnrollmentRow
    <2>4. QED
        BY <2>1, <2>2, <2>3 DEF RowSound, RowMatchesDocument, RowFollowsHead,
                                RowFitsEnrollment, heads
<1>10. CASE UNCHANGED vars
    BY <1>1, <1>10 DEF vars, Assigned
<1>11. QED
    BY <1>2, <1>3, <1>4, <1>5, <1>6, <1>7, <1>8, <1>9, <1>10 DEF Next

(* Whatever order administrators publish, assign, bootstrap and promote in, a
   stored assignment is for a head its channel has now, of the current round. *)
THEOREM AssignmentsAlwaysFollowHeads == Spec => []AssignmentsFollowHeads
<1>1. Spec => []AssignmentsSound
    BY AssignmentsInit, AssignmentsStep, TypeCorrect, PTL DEF Spec
<1>2. QED
    BY <1>1, SoundIsBoth, PTL

(* No device ever holds an assignment signed for other tags, another channel or
   another installation. *)
THEOREM AssignmentsAlwaysFitEnrollment == Spec => []AssignmentsFitEnrollment
<1>1. Spec => []AssignmentsSound
    BY AssignmentsInit, AssignmentsStep, TypeCorrect, PTL DEF Spec
<1>2. QED
    BY <1>1, SoundIsBoth, PTL

----------------------------------------------------------------------------
(* Reports: what is recorded about an active contract is pinned to the active
   head while its generation lasts, and a promotion leaves it behind. *)

ReportsSound == ReportsAgreeWithContracts /\ ActiveRevisionPerGeneration

LEMMA ReportsInit == Init => ReportsSound
BY DEF Init, ReportsSound, ReportsAgreeWithContracts, ActiveRevisionPerGeneration

\* A contract a device may report on now agrees with the heads.
LEMMA AnsweredContract ==
    ASSUME TypeOK, AssignmentsSound, NEW p \in ReportRow, NEW named \in Contract,
           Answers(p), NamesContract(p, named)
    PROVE  /\ p.enrollment_id = named.enrollment_id
           /\ p.channel = named.channel
           /\ p.revision_id = named.revision_id
           /\ named.channel_generation = generation[p.channel]
           /\ named.assignment_kind = "active"
                 => p.revision_id = active_revision[p.channel]
<1>1. p.enrollment_id \in Addressee
    BY DEF ReportRow
<1>2. RowMatchesDocument(p.enrollment_id) /\ RowFollowsHead(p.enrollment_id)
    BY <1>1 DEF AssignmentsSound, RowSound, Answers
<1>3. named.schema = 2
    BY DEF Contract
<1>4. QED
    BY <1>2, <1>3 DEF Answers, NamesContract, RowMatchesDocument, RowFollowsHead

LEMMA ReportsStep ==
    TypeOK /\ AssignmentsSound /\ ReportsSound /\ [Next]_vars => ReportsSound'
<1> SUFFICES ASSUME TypeOK, AssignmentsSound, ReportsSound, [Next]_vars
             PROVE  ReportsSound'
    OBVIOUS
<1>1. CASE UNCHANGED <<assignment_reports, active_revision, generation>>
    BY <1>1 DEF ReportsSound, ReportsAgreeWithContracts, ReportRowSound,
                ActiveRevisionPerGeneration
<1>2. ASSUME NEW p \in ReportRow, RecordReport(p) PROVE ReportsSound'
    <2>1. UNCHANGED <<active_revision, generation>>
        BY <1>2 DEF RecordReport, heads
    <2>2. CASE assignments[p.enrollment_id].document.schema = 1
        BY <1>1, <1>2, <2>1, <2>2 DEF RecordReport
    <2>3. CASE assignments[p.enrollment_id].document.schema = 2
        <3> DEFINE row(named) ==
                [enrollment_id |-> p.enrollment_id, channel |-> p.channel,
                 revision_id |-> p.revision_id, result |-> p.result,
                 assignment |-> named]
        <3>1. PICK named \in Contract :
                  NamesContract(p, named) /\ assignment_reports' = RecordedFor(row(named))
            BY <1>2, <2>3 DEF RecordReport
        <3>2. \A x \in assignment_reports' : x \in assignment_reports \/ x = row(named)
            BY <3>1 DEF RecordedFor
        <3>3. /\ p.enrollment_id = named.enrollment_id
              /\ p.channel = named.channel
              /\ p.revision_id = named.revision_id
              /\ named.channel_generation = generation[p.channel]
              /\ named.assignment_kind = "active"
                    => p.revision_id = active_revision[p.channel]
            BY <1>2, <3>1, AnsweredContract DEF RecordReport
        <3>4. generation[p.channel] \in Nat
            BY DEF TypeOK, Generation, ReportRow
        <3>5. ReportRowSound(row(named))
            BY <3>3, <3>4 DEF ReportRowSound
        <3>6. \A x \in assignment_reports' : ReportRowSound(x)
            BY <3>2, <3>5 DEF ReportsSound, ReportsAgreeWithContracts
        <3>7. ReportsAgreeWithContracts'
            BY <2>1, <3>6 DEF ReportsAgreeWithContracts, ReportRowSound
        <3>8. ASSUME NEW x \in assignment_reports', NEW y \in assignment_reports',
                     x.assignment.assignment_kind = "active",
                     y.assignment.assignment_kind = "active",
                     x.channel = y.channel,
                     x.assignment.channel_generation = y.assignment.channel_generation
              PROVE  x.revision_id = y.revision_id
            <4>1. CASE x \in assignment_reports /\ y \in assignment_reports
                BY <3>8, <4>1 DEF ReportsSound, ActiveRevisionPerGeneration
            <4>2. CASE x = row(named) \/ y = row(named)
                BY <3>3, <3>6, <3>8, <4>2 DEF ReportRowSound
            <4>3. QED
                BY <3>2, <4>1, <4>2
        <3>9. QED
            BY <3>7, <3>8 DEF ReportsSound, ActiveRevisionPerGeneration
    <2>4. QED
        BY <1>2, <2>2, <2>3 DEF RecordReport
<1>3. ASSUME NEW c \in Channel, NEW r \in HeadRevision, NEW expected \in HeadRevision,
             NEW g \in Generation, NEW required \in SUBSET Addressee,
             Promote(c, r, expected, required, g)
      PROVE  ReportsSound'
    <2>1. UNCHANGED assignment_reports
        BY <1>3 DEF Promote, reported
    <2>2. ASSUME NEW x \in assignment_reports PROVE ReportRowSound(x)'
        <3>1. ReportRowSound(x)
            BY DEF ReportsSound, ReportsAgreeWithContracts
        <3>2. /\ x.channel \in Channel
              /\ x.assignment.channel_generation \in Int
              /\ generation[x.channel] \in Int
            BY DEF TypeOK, AssignmentReportRow, Contract, Generation
        <3>3. CASE x.channel = c
            <4>1. generation'[c] = generation[c] + 1
                BY <1>3 DEF Promote, MayPromote, TypeOK
            <4>2. QED
                BY <3>1, <3>2, <3>3, <4>1 DEF ReportRowSound
        <3>4. CASE x.channel # c
            <4>1. UNCHANGED <<generation[x.channel], active_revision[x.channel]>>
                BY <1>3, <3>2, <3>4 DEF Promote, TypeOK
            <4>2. QED
                BY <3>1, <4>1 DEF ReportRowSound
        <3>5. QED
            BY <3>3, <3>4
    <2>3. QED
        BY <2>1, <2>2 DEF ReportsSound, ReportsAgreeWithContracts,
                          ActiveRevisionPerGeneration
<1>4. QED
    <2>1. ASSUME NEW d, AssignCandidate(d) \/ BootstrapActive(d) PROVE ReportsSound'
        BY <1>1, <2>1 DEF AssignCandidate, BootstrapActive, heads, reported
    <2>2. ASSUME NEW r, PutRevision(r) PROVE ReportsSound'
        BY <1>1, <2>2 DEF PutRevision, heads, reported
    <2>3. ASSUME NEW c, NEW r, NEW base, NEW expected,
                 PublishCandidate(c, r, base, expected)
          PROVE  ReportsSound'
        BY <1>1, <2>3 DEF PublishCandidate, reported
    <2>4. CASE Pair \/ UNCHANGED vars \/ \E e \in Enrollment : Revoke(e)
        BY <1>1, <2>4 DEF Pair, Revoke, vars, heads, reported
    <2>5. QED
        BY <1>2, <1>3, <2>1, <2>2, <2>3, <2>4 DEF Next

(* The columns promote's gate selects reports by agree with the contract each
   report answers. *)
THEOREM ReportsAlwaysAgree == Spec => []ReportsAgreeWithContracts
<1>1. Spec => []AssignmentsSound
    BY AssignmentsInit, AssignmentsStep, TypeCorrect, PTL DEF Spec
<1>2. Spec => []ReportsSound
    BY <1>1, ReportsInit, ReportsStep, TypeCorrect, PTL DEF Spec
<1>3. ReportsSound => ReportsAgreeWithContracts
    BY DEF ReportsSound
<1>4. QED
    BY <1>2, <1>3, PTL

(* A generation of a channel has one active revision for good: no two devices
   ever report on active contracts of one generation for different revisions. *)
THEOREM OneActiveRevisionPerGeneration == Spec => []ActiveRevisionPerGeneration
<1>1. Spec => []AssignmentsSound
    BY AssignmentsInit, AssignmentsStep, TypeCorrect, PTL DEF Spec
<1>2. Spec => []ReportsSound
    BY <1>1, ReportsInit, ReportsStep, TypeCorrect, PTL DEF Spec
<1>3. ReportsSound => ActiveRevisionPerGeneration
    BY DEF ReportsSound
<1>4. QED
    BY <1>2, <1>3, PTL

----------------------------------------------------------------------------
(* Lookups *)

LEMMA SoundLookups == TypeOK /\ AssignmentsFollowHeads => LookupServesHead
<1> SUFFICES ASSUME TypeOK, AssignmentsFollowHeads,
                    NEW a \in Addressee, NEW c \in Channel,
                    Assigned(a), assignments[a].channel = c
             PROVE  /\ assignments[a].revision_id
                          \in {candidate_revision[c], active_revision[c]}
                    /\ assignments[a].assignment_kind = "active"
                          => assignments[a].revision_id = active_revision[c]
    BY DEF LookupServesHead, AssignmentResponse
<1>1. RowMatchesDocument(a) /\ RowFollowsHead(a)
    BY DEF AssignmentsFollowHeads
<1>2. CASE assignments[a].document.schema = 2
    BY <1>1, <1>2 DEF RowFollowsHead
<1>3. CASE assignments[a].document.schema # 2
    BY <1>1, <1>3 DEF RowMatchesDocument, RowFollowsHead
<1>4. QED
    BY <1>2, <1>3

(* Every lookup is answered with a head of the channel it asks about. *)
THEOREM LookupAlwaysServesHead == Spec => []LookupServesHead
BY TypeCorrect, AssignmentsAlwaysFollowHeads, SoundLookups, PTL

----------------------------------------------------------------------------
(* Revocation *)

\* What RevokedIsFrozen says of one step and one enrollment.
Frozen(e) ==
    /\ Enrolled(e)' /\ enrollments'[e].revoked
    /\ assignments'[e] \in {assignments[e], Absent}
    /\ \A x \in reports' \ reports : x.enrollment_id # e
    /\ \A x \in assignment_reports' \ assignment_reports : x.enrollment_id # e

LEMMA FrozenStep ==
    ASSUME TypeOK, [Next]_vars, NEW e \in Enrollment,
           Enrolled(e), enrollments[e].revoked
    PROVE  Frozen(e)
<1>1. e \in Addressee /\ IsEnrolled(e) /\ ~Live(e)
    BY DEF Addressee, IsEnrolled, Live
<1>2. ASSUME UNCHANGED enrollments PROVE Enrolled(e)' /\ enrollments'[e].revoked
    BY <1>2 DEF Enrolled
<1>3. ASSUME NEW d \in AssignmentDocument, NEW kind, Assign(d, kind),
             d.enrollment_id # e, UNCHANGED <<enrollments, reported>>
      PROVE  Frozen(e)
    BY <1>1, <1>2, <1>3 DEF Frozen, Assign, reported, TypeOK
<1>4. ASSUME NEW d \in AssignmentDocument, AssignCandidate(d) PROVE Frozen(e)
    BY <1>1, <1>3, <1>4 DEF AssignCandidate, Eligible
<1>5. ASSUME NEW d \in AssignmentDocument, BootstrapActive(d) PROVE Frozen(e)
    BY <1>1, <1>3, <1>5 DEF BootstrapActive, Eligible
<1>6. ASSUME NEW p \in ReportRow, RecordReport(p) PROVE Frozen(e)
    <2>1. p.enrollment_id # e
        BY <1>1, <1>6 DEF RecordReport, Reporter
    <2>2. \A x \in reports' \ reports : x.enrollment_id # e
        BY <1>6, <2>1 DEF RecordReport, Recorded
    <2>3. \A x \in assignment_reports' \ assignment_reports : x.enrollment_id # e
        BY <1>6, <2>1 DEF RecordReport, RecordedFor
    <2>4. QED
        BY <1>2, <1>6, <2>2, <2>3 DEF Frozen, RecordReport
<1>7. ASSUME NEW c \in Channel, NEW r \in HeadRevision, NEW expected \in HeadRevision,
             NEW g \in Generation, NEW required \in SUBSET Addressee,
             Promote(c, r, expected, required, g)
      PROVE  Frozen(e)
    <2>1. PICK batch \in ActiveBatches(c, r, g) :
              assignments' = AssignedBatch(c, batch)
        BY <1>7 DEF Promote
    <2>2. ~\E d \in batch : d.enrollment_id = e
        BY <1>1, <2>1 DEF ActiveBatches, Eligible
    <2>3. assignments'[e] \in {assignments[e], Absent}
        BY <1>1, <2>1, <2>2 DEF AssignedBatch, Cleared
    <2>4. QED
        BY <1>2, <1>7, <2>3 DEF Frozen, Promote, reported
<1>8. ASSUME NEW c \in Channel, NEW r \in Revision,
             NEW base \in HeadRevision, NEW expected \in HeadRevision,
             PublishCandidate(c, r, base, expected)
      PROVE  Frozen(e)
    BY <1>1, <1>2, <1>8 DEF Frozen, PublishCandidate, Cleared, reported
<1>9. ASSUME NEW r \in Revision, PutRevision(r) PROVE Frozen(e)
    BY <1>2, <1>9 DEF Frozen, PutRevision, reported
<1>10. CASE Pair
    <2>1. Enrolled(e)' /\ enrollments'[e].revoked
        BY <1>10 DEF Pair, Enroll, Enrolled, TypeOK, FleetTypeOK
    <2>2. QED
        BY <1>10, <2>1 DEF Frozen, Pair, reported
<1>11. ASSUME NEW f \in Enrollment, Revoke(f) PROVE Frozen(e)
    <2>1. enrollments[e] \in EnrollmentRow
        BY DEF TypeOK, FleetTypeOK, Enrolled
    <2>2. enrollments'[e] \in EnrollmentRow /\ enrollments'[e].revoked
        BY <1>11, <2>1 DEF Revoke, RevokeEnrollment, TypeOK, FleetTypeOK, EnrollmentRow
    <2>3. QED
        BY <1>11, <2>2, AbsentEnrollmentAssumption DEF Frozen, Revoke, Enrolled, reported
<1>12. CASE UNCHANGED vars
    BY <1>2, <1>12 DEF Frozen, vars, reported
<1>13. QED
    BY <1>4, <1>5, <1>6, <1>7, <1>8, <1>9, <1>10, <1>11, <1>12 DEF Next

(* A revoked enrollment stays revoked, is assigned nothing more and has no more
   reports recorded, whatever was in flight when it was revoked. *)
THEOREM RevocationFreezes == Spec => RevokedIsFrozen
<1>1. TypeOK /\ [Next]_vars =>
        [\A e \in Enrollment : Enrolled(e) /\ enrollments[e].revoked =>
            /\ Enrolled(e)' /\ enrollments'[e].revoked
            /\ assignments'[e] \in {assignments[e], Absent}
            /\ \A x \in reports' \ reports : x.enrollment_id # e
            /\ \A x \in assignment_reports' \ assignment_reports :
                  x.enrollment_id # e]_vars
    BY FrozenStep DEF Frozen
<1>2. QED
    BY <1>1, TypeCorrect, PTL DEF Spec, RevokedIsFrozen

----------------------------------------------------------------------------
(* Refinement *)

LEMMA HeadsStep == TypeOK /\ [Next]_vars => [Heads!HeadsNext]_Heads!heads
<1> SUFFICES ASSUME TypeOK, [Next]_vars
             PROVE  Heads!HeadsNext \/ UNCHANGED Heads!heads
    OBVIOUS
<1>1. ASSUME NEW c \in Channel, NEW r \in Revision,
             NEW base \in HeadRevision, NEW expected \in HeadRevision,
             PublishCandidate(c, r, base, expected)
      PROVE  Heads!HeadsNext
    BY <1>1 DEF PublishCandidate, Heads!HeadsNext, Heads!Publish
<1>2. ASSUME NEW c \in Channel, NEW r \in HeadRevision, NEW expected \in HeadRevision,
             NEW g \in Generation, NEW required \in SUBSET Addressee,
             Promote(c, r, expected, required, g)
      PROVE  Heads!HeadsNext
    <2>1. generation[c] \in Nat /\ generation[c] < MaxGeneration
        BY <1>2, MaxGenerationAssumption DEF Promote, MayPromote, TypeOK, Generation
    <2>2. Heads!Advance(c)
        BY <1>2, <2>1 DEF Promote, MayPromote, Heads!Advance
    <2>3. QED
        BY <2>2 DEF Heads!HeadsNext
<1>3. ASSUME UNCHANGED heads PROVE UNCHANGED Heads!heads
    BY <1>3 DEF heads, Heads!heads
<1>4. QED
    BY <1>1, <1>2, <1>3 DEF Next, PutRevision, AssignCandidate, BootstrapActive,
                           RecordReport, Pair, Revoke, vars

(* Rollout implements ChannelHeads. *)
THEOREM RolloutImplementsHeads == Spec => ImplementsChannelHeads
<1>1. Init => Heads!HeadsInit
    BY DEF Init, Heads!HeadsInit
<1>2. QED
    BY <1>1, HeadsStep, TypeCorrect, PTL
       DEF Spec, ImplementsChannelHeads, Heads!HeadsSpec


\* Rollout contains Fleet's actions, so what FleetProofs shows of generations and
\* frozen rows holds under rollouts.
LEMMA RolloutIsFleet == Spec => FleetSpec
<1>1. Init => FleetInit
    BY DEF Init
<1>2. [Next]_vars => [FleetNext]_enrollments
    BY DEF Next, FleetNext, Pair, Revoke, PutRevision, PublishCandidate,
           AssignCandidate, BootstrapActive, RecordReport, Promote, vars
<1>3. QED
    BY <1>1, <1>2, PTL DEF Spec, FleetSpec

----------------------------------------------------------------------------
(* The history.  Its variables only observe, so what is proved of Rollout holds
   here; what promote read in the tables has to be found again in the log. *)

LEMMA SoundAlways == Spec => [](TypeOK /\ AssignmentsSound)
BY AssignmentsInit, AssignmentsStep, TypeCorrect, PTL DEF Spec

LEMMA HistoryIsRollout ==
    /\ HistoryInit => Init
    /\ [HistoryNext]_<<vars, history>> => [Next]_vars
BY DEF HistoryInit, HistoryNext, Hear, PromoteAndNote, Next

(* The history restricts nothing but the number of reports heard: its runs are runs
   of the handlers. *)
THEOREM HistoryImplementsRollout == HistorySpec => Spec
BY HistoryIsRollout, PTL DEF HistorySpec, Spec

LEMMA HistorySoundAlways == HistorySpec => [](TypeOK /\ AssignmentsSound)
BY HistoryImplementsRollout, SoundAlways, PTL

LogEntry == [report : ReportRow, answers : AssignmentDocument]

HistoryTyped ==
    /\ log \in Seq(LogEntry)
    /\ \A p \in promotions : p.heard \in 0 .. Len(log) /\ p.generation \in Nat

\* Entry i of the log is what row x of a table of reports says.
Tells(i, x) ==
    /\ log[i].report.enrollment_id = x.enrollment_id
    /\ log[i].report.channel = x.channel
    /\ log[i].report.revision_id = x.revision_id
    /\ log[i].report.result = x.result

\* Each row of the tables is the last word in the log on what it answers.
ReportsAreLogged ==
    /\ \A x \in reports : \E i \in 1 .. Len(log) :
          Tells(i, x) /\ log[i].answers.schema = 1 /\ LastWord(i, Len(log))
    /\ \A x \in assignment_reports : \E i \in 1 .. Len(log) :
          Tells(i, x) /\ log[i].answers = x.assignment /\ LastWord(i, Len(log))

\* A report logged on a contract is about its channel and revision, and the table has
\* a row for that contract: a row is only ever replaced by one on the same contract.
LoggedContractsHaveRows ==
    \A j \in 1 .. Len(log) : log[j].answers.schema = 2 =>
        /\ log[j].report.channel = log[j].answers.channel
        /\ log[j].report.revision_id = log[j].answers.revision_id
        /\ \E x \in assignment_reports :
              /\ x.enrollment_id = log[j].report.enrollment_id
              /\ x.assignment = log[j].answers
              /\ x.channel = log[j].answers.channel
              /\ x.revision_id = log[j].answers.revision_id

\* Only a promotion makes a revision active.
ActiveByPromotion ==
    \A c \in Channel : generation[c] = 0 => active_revision[c] = NoRevision

HistoryInv ==
    /\ HistoryTyped
    /\ ReportsAreLogged
    /\ LoggedContractsHaveRows
    /\ ActiveByPromotion
    /\ PromotionWasTested
    /\ PromotionsAreTheHistory
    /\ ActiveReportsWerePromoted

LEMMA HistoryInvInit == HistoryInit => HistoryInv
BY DEF HistoryInit, Init, HistoryInv, HistoryTyped, ReportsAreLogged,
       LoggedContractsHaveRows, ActiveByPromotion, PromotionWasTested, PromotionsAreTheHistory, ActiveReportsWerePromoted

\* What an entry says does not change when the log grows, and it stays the last
\* word if the new entry is on another document.
LEMMA LogGrows ==
    ASSUME log \in Seq(LogEntry), NEW new \in LogEntry, log' = Append(log, new)
    PROVE  /\ Len(log') = Len(log) + 1
           /\ log'[Len(log')] = new
           /\ log' \in Seq(LogEntry)
           /\ \A i \in 1 .. Len(log) : log'[i] = log[i]
OBVIOUS

LEMMA EarlierWord ==
    ASSUME log \in Seq(LogEntry), NEW new \in LogEntry, log' = Append(log, new),
           NEW n \in 0 .. Len(log), NEW i \in 1 .. n
    PROVE  LastWord(i, n)' <=> LastWord(i, n)
<1>1. \A j \in 1 .. n : log'[j] = log[j]
    BY LogGrows
<1>2. \A j \in i + 1 .. n : log'[j] = log[j]
    BY <1>1
<1>3. QED
    BY <1>1, <1>2 DEF LastWord

LEMMA EarlierPass ==
    ASSUME log \in Seq(LogEntry), NEW new \in LogEntry, log' = Append(log, new),
           NEW n \in 0 .. Len(log), NEW i \in 1 .. n, NEW e, NEW c, NEW r,
           Passes(i, n, e, c, r)
    PROVE  Passes(i, n, e, c, r)'
<1>1. \A j \in 1 .. n : log'[j] = log[j]
    BY LogGrows
<1>2. LastWord(i, n)'
    BY EarlierWord DEF Passes
<1>3. \A j \in 1 .. n : ~Outranks(j, i)'
    BY <1>1 DEF Passes, Outranks
<1>4. QED
    BY <1>1, <1>2, <1>3 DEF Passes

LEMMA NewWord ==
    ASSUME log \in Seq(LogEntry), NEW new \in LogEntry, log' = Append(log, new),
           NEW i \in 1 .. Len(log), LastWord(i, Len(log)),
           \/ new.report.enrollment_id # log[i].report.enrollment_id
           \/ IF log[i].answers.schema = 2
              THEN new.answers # log[i].answers
              ELSE \/ new.answers.schema = 2
                   \/ new.report.channel # log[i].report.channel
                   \/ new.report.revision_id # log[i].report.revision_id
    PROVE  LastWord(i, Len(log))' /\ i \in 1 .. Len(log')
<1>1. /\ Len(log') = Len(log) + 1
      /\ log'[Len(log) + 1] = new
      /\ \A j \in 1 .. Len(log) : log'[j] = log[j]
    BY LogGrows
<1>2. \A j \in i + 1 .. Len(log') : j = Len(log) + 1 \/ j \in i + 1 .. Len(log)
    BY <1>1
<1>3. \A j \in i + 1 .. Len(log) : log'[j] = log[j]
    BY <1>1
<1>4. QED
    BY <1>1, <1>2, <1>3 DEF LastWord

\* A report on a contract is recorded for the contract its device has.
LEMMA ReportOnContract ==
    ASSUME NEW p \in ReportRow, RecordReport(p),
           assignments[p.enrollment_id].document.schema = 2
    PROVE  /\ assignment_reports' = RecordedFor(
                  [enrollment_id |-> p.enrollment_id, channel |-> p.channel,
                   revision_id |-> p.revision_id, result |-> p.result,
                   assignment |-> assignments[p.enrollment_id].document])
           /\ UNCHANGED reports
<1> DEFINE row(named) ==
        [enrollment_id |-> p.enrollment_id, channel |-> p.channel,
         revision_id |-> p.revision_id, result |-> p.result, assignment |-> named]
<1>1. UNCHANGED reports /\ \E named \in Contract :
          NamesContract(p, named) /\ assignment_reports' = RecordedFor(row(named))
    BY DEF RecordReport
<1>2. QED
    BY <1>1 DEF NamesContract

\* A report is logged with the document its device had, and becomes the last word
\* on it; the rows it does not replace answer something else.
LEMMA HearLogs ==
    ASSUME TypeOK, HistoryTyped, ReportsAreLogged, NEW p \in ReportRow, Hear(p)
    PROVE  HistoryTyped' /\ ReportsAreLogged'
<1> DEFINE document == assignments[p.enrollment_id].document
           new == [report |-> p, answers |-> document]
<1>1. document \in AssignmentDocument
    BY DEF Hear, RecordReport, Answers, Assigned, TypeOK, AssignmentRow, ReportRow
<1>2. new \in LogEntry
    BY <1>1 DEF LogEntry
<1>3. /\ log \in Seq(LogEntry)
      /\ log' = Append(log, new)
      /\ UNCHANGED promotions
    BY DEF Hear, HistoryTyped
<1>4. document.schema \in {1, 2} /\ (document.schema = 2 => document \in Contract)
    BY <1>1 DEF AssignmentDocument, LegacyDocument, Contract
<1> HIDE DEF document
<1>5. /\ Len(log') = Len(log) + 1
      /\ log' \in Seq(LogEntry)
      /\ \A i \in 1 .. Len(log) : log'[i] = log[i]
    BY <1>2, <1>3, LogGrows
<1>last. PICK last \in 1 .. Len(log') : log'[last] = new /\ LastWord(last, Len(log))'
    BY <1>2, <1>3, LogGrows DEF LastWord
<1>6. HistoryTyped'
    BY <1>3, <1>5 DEF HistoryTyped
<1>7. ASSUME NEW x \in reports,
             document.schema = 1 =>
                <<x.enrollment_id, x.channel, x.revision_id>>
                    # <<p.enrollment_id, p.channel, p.revision_id>>
      PROVE  \E i \in 1 .. Len(log') :
                (Tells(i, x) /\ log[i].answers.schema = 1 /\ LastWord(i, Len(log)))'
    <2>1. PICK i \in 1 .. Len(log) :
              Tells(i, x) /\ log[i].answers.schema = 1 /\ LastWord(i, Len(log))
        BY DEF ReportsAreLogged
    <2>2. LastWord(i, Len(log))' /\ i \in 1 .. Len(log')
        BY <1>2, <1>3, <1>4, <1>7, <2>1, NewWord DEF Tells
    <2>3. QED
        BY <1>5, <2>1, <2>2 DEF Tells
<1>8. ASSUME NEW x \in assignment_reports,
             \/ x.enrollment_id # p.enrollment_id
             \/ x.assignment # document
      PROVE  \E i \in 1 .. Len(log') :
                (Tells(i, x) /\ log[i].answers = x.assignment /\ LastWord(i, Len(log)))'
    <2>1. PICK i \in 1 .. Len(log) :
              Tells(i, x) /\ log[i].answers = x.assignment /\ LastWord(i, Len(log))
        BY DEF ReportsAreLogged
    <2>2. x.assignment.schema = 2
        BY DEF TypeOK, AssignmentReportRow, Contract
    <2>3. LastWord(i, Len(log))' /\ i \in 1 .. Len(log')
        BY <1>2, <1>3, <1>8, <2>1, <2>2, NewWord DEF Tells
    <2>4. QED
        BY <1>5, <2>1, <2>3 DEF Tells
<1>9. CASE document.schema = 1
    <2>1. reports' = Recorded(p) /\ UNCHANGED assignment_reports
        BY <1>9 DEF Hear, RecordReport, document
    <2>2. ASSUME NEW x \in reports'
          PROVE  \E i \in 1 .. Len(log') :
                    (Tells(i, x) /\ log[i].answers.schema = 1 /\ LastWord(i, Len(log)))'
        <3>1. CASE x = p
            BY <1>last, <1>9, <3>1 DEF Tells
        <3>2. CASE x # p
            BY <1>7, <2>1, <3>2 DEF Recorded
        <3>3. QED
            BY <3>1, <3>2
    <2>3. ASSUME NEW x \in assignment_reports PROVE x.assignment # document
        BY <1>9 DEF TypeOK, AssignmentReportRow, Contract
    <2>4. QED
        BY <1>6, <1>8, <2>1, <2>2, <2>3 DEF ReportsAreLogged
<1>10. CASE document.schema = 2
    <2> DEFINE row(named) ==
            [enrollment_id |-> p.enrollment_id, channel |-> p.channel,
             revision_id |-> p.revision_id, result |-> p.result, assignment |-> named]
    <2>1. assignment_reports' = RecordedFor(row(document)) /\ UNCHANGED reports
        BY <1>10, ReportOnContract DEF Hear, document
    <2>2. ASSUME NEW x \in assignment_reports'
          PROVE  \E i \in 1 .. Len(log') :
                    (Tells(i, x) /\ log[i].answers = x.assignment /\ LastWord(i, Len(log)))'
        <3>1. CASE x = row(document)
            BY <1>last, <3>1 DEF Tells
        <3>2. CASE x # row(document)
            <4>1. /\ x \in assignment_reports
                  /\ <<x.enrollment_id, x.assignment>> # <<p.enrollment_id, document>>
                BY <2>1, <3>2 DEF RecordedFor
            <4>2. QED
                BY <1>8, <4>1
        <3>3. QED
            BY <3>1, <3>2
    <2>3. QED
        BY <1>6, <1>7, <1>10, <2>1, <2>2 DEF ReportsAreLogged
<1>11. QED
    BY <1>4, <1>9, <1>10

\* The row a report replaces is on the same contract, hence on the same channel and
\* revision; the new entry's own row is the one just written.
LEMMA HearKeepsRows ==
    ASSUME TypeOK, AssignmentsSound, HistoryTyped, LoggedContractsHaveRows,
           NEW p \in ReportRow, Hear(p)
    PROVE  LoggedContractsHaveRows'
<1> DEFINE document == assignments[p.enrollment_id].document
           new == [report |-> p, answers |-> document]
           row == [enrollment_id |-> p.enrollment_id, channel |-> p.channel,
                   revision_id |-> p.revision_id, result |-> p.result,
                   assignment |-> document]
<1>1. /\ p.enrollment_id \in Addressee
      /\ assignments[p.enrollment_id] \in AssignmentRow
      /\ RowMatchesDocument(p.enrollment_id)
      /\ assignments[p.enrollment_id].channel = p.channel
      /\ assignments[p.enrollment_id].revision_id = p.revision_id
    BY DEF Hear, RecordReport, Answers, Assigned, TypeOK, ReportRow, AssignmentsSound,
           RowSound
<1>2. /\ document \in AssignmentDocument
      /\ document.channel = p.channel
      /\ document.revision_id = p.revision_id
    BY <1>1 DEF AssignmentRow, RowMatchesDocument
<1>3. /\ log \in Seq(LogEntry)
      /\ new \in LogEntry
      /\ log' = Append(log, new)
    BY <1>2 DEF Hear, HistoryTyped, LogEntry
<1>4. document.schema = 2 =>
          assignment_reports' = RecordedFor(row)
    BY ReportOnContract DEF Hear
<1>5. document.schema # 2 => UNCHANGED assignment_reports
    BY DEF Hear, RecordReport
<1> HIDE DEF document, new, row
<1>6. /\ Len(log') = Len(log) + 1
      /\ log'[Len(log')] = new
      /\ \A j \in 1 .. Len(log) : log'[j] = log[j]
    BY <1>3, LogGrows
<1>7. ASSUME NEW j \in 1 .. Len(log), log[j].answers.schema = 2
      PROVE  \E x \in assignment_reports' :
                /\ x.enrollment_id = log[j].report.enrollment_id
                /\ x.assignment = log[j].answers
                /\ x.channel = log[j].answers.channel
                /\ x.revision_id = log[j].answers.revision_id
    <2>1. PICK x \in assignment_reports :
              /\ x.enrollment_id = log[j].report.enrollment_id
              /\ x.assignment = log[j].answers
              /\ x.channel = log[j].answers.channel
              /\ x.revision_id = log[j].answers.revision_id
        BY <1>7 DEF LoggedContractsHaveRows
    <2>2. CASE x \in assignment_reports'
        BY <2>1, <2>2
    <2>3. CASE x \notin assignment_reports'
        <3>1. assignment_reports' = RecordedFor(row)
            BY <1>4, <1>5, <2>3
        <3>2. x.enrollment_id = row.enrollment_id /\ x.assignment = row.assignment
            BY <2>3, <3>1 DEF RecordedFor
        <3>3. /\ row.enrollment_id = p.enrollment_id
              /\ row.assignment = document
              /\ row.channel = p.channel /\ row.revision_id = p.revision_id
            BY DEF row
        <3>4. row \in assignment_reports'
            BY <3>1 DEF RecordedFor
        <3>5. QED
            BY <1>2, <2>1, <3>2, <3>3, <3>4
    <2>4. QED
        BY <2>2, <2>3
<1>8. new.answers.schema = 2 =>
          /\ new.report.channel = new.answers.channel
          /\ new.report.revision_id = new.answers.revision_id
          /\ \E x \in assignment_reports' :
                /\ x.enrollment_id = new.report.enrollment_id
                /\ x.assignment = new.answers
                /\ x.channel = new.answers.channel
                /\ x.revision_id = new.answers.revision_id
    <2>1. new.report = p /\ new.answers = document
        BY DEF new
    <2>2. document.schema = 2 => row \in assignment_reports'
        BY <1>4 DEF RecordedFor
    <2>3. QED
        BY <1>2, <2>1, <2>2 DEF row
<1>9. \A j \in 1 .. Len(log') : j \in 1 .. Len(log) \/ j = Len(log')
    BY <1>3, <1>6
<1>10. ASSUME NEW j \in 1 .. Len(log'), log'[j].answers.schema = 2
       PROVE  /\ log'[j].report.channel = log'[j].answers.channel
              /\ log'[j].report.revision_id = log'[j].answers.revision_id
              /\ \E x \in assignment_reports' :
                    /\ x.enrollment_id = log'[j].report.enrollment_id
                    /\ x.assignment = log'[j].answers
                    /\ x.channel = log'[j].answers.channel
                    /\ x.revision_id = log'[j].answers.revision_id
    <2>1. CASE j = Len(log')
        BY <1>6, <1>8, <1>10, <2>1
    <2>2. CASE j \in 1 .. Len(log)
        <3>1. log'[j] = log[j]
            BY <1>6, <2>2
        <3>2. /\ log[j].report.channel = log[j].answers.channel
              /\ log[j].report.revision_id = log[j].answers.revision_id
            BY <1>10, <2>2, <3>1 DEF LoggedContractsHaveRows
        <3>3. QED
            BY <1>7, <1>10, <2>2, <3>1, <3>2
    <2>3. QED
        BY <1>9, <2>1, <2>2
<1>11. QED
    BY <1>10 DEF LoggedContractsHaveRows

LEMMA HearStep ==
    ASSUME TypeOK, AssignmentsSound, HistoryInv, NEW p \in ReportRow, Hear(p)
    PROVE  HistoryInv'
<1>1. HistoryTyped' /\ ReportsAreLogged' /\ LoggedContractsHaveRows'
    BY HearLogs, HearKeepsRows DEF HistoryInv
<1>2. UNCHANGED <<promotions, active_revision, generation>>
    BY DEF Hear, RecordReport, heads
<1>3. ActiveByPromotion' /\ PromotionsAreTheHistory'
    BY <1>2 DEF HistoryInv, ActiveByPromotion, PromotionsAreTheHistory
<1>4. PromotionWasTested'
    <2> DEFINE new == [report |-> p, answers |-> assignments[p.enrollment_id].document]
    <2>1. log \in Seq(LogEntry) /\ new \in LogEntry /\ log' = Append(log, new)
        BY DEF Hear, RecordReport, Answers, Assigned, TypeOK, AssignmentRow, ReportRow,
               LogEntry, HistoryInv, HistoryTyped
    <2> HIDE DEF new
    <2>2. ASSUME NEW q \in promotions, NEW e \in q.required
          PROVE  \E i \in 1 .. q.heard : Passes(i, q.heard, e, q.channel, q.revision_id)'
        <3>1. PICK i \in 1 .. q.heard : Passes(i, q.heard, e, q.channel, q.revision_id)
            BY DEF HistoryInv, PromotionWasTested
        <3>2. q.heard \in 0 .. Len(log)
            BY DEF HistoryInv, HistoryTyped
        <3>3. QED
            BY <2>1, <3>1, <3>2, EarlierPass
    <2>3. QED
        BY <1>2, <2>2 DEF PromotionWasTested
<1>5. ActiveReportsWerePromoted'
    <2>1. ASSUME NEW x \in assignment_reports, x.assignment.assignment_kind = "active"
          PROVE  \E q \in promotions :
                    /\ q.channel = x.channel
                    /\ q.revision_id = x.revision_id
                    /\ q.generation = x.assignment.channel_generation
        BY <2>1 DEF HistoryInv, ActiveReportsWerePromoted
    <2>2. ASSUME NEW named \in Contract, NamesContract(p, named),
                 named.assignment_kind = "active"
          PROVE  \E q \in promotions :
                    /\ q.channel = p.channel
                    /\ q.revision_id = p.revision_id
                    /\ q.generation = named.channel_generation
        <3>1. /\ named.channel_generation = generation[p.channel]
              /\ p.revision_id = active_revision[p.channel]
            BY <2>2, AnsweredContract DEF Hear, RecordReport
        <3>2. p.channel \in Channel /\ p.revision_id # NoRevision
            BY NoRevisionAssumption DEF ReportRow
        <3>3. generation[p.channel] \in Nat /\ generation[p.channel] # 0
            BY <3>1, <3>2 DEF HistoryInv, ActiveByPromotion, TypeOK, Generation
        <3>4. QED
            BY <3>1, <3>2, <3>3 DEF HistoryInv, PromotionsAreTheHistory
    <2>3. ASSUME NEW x \in assignment_reports', x \notin assignment_reports
          PROVE  \E named \in Contract :
                    /\ NamesContract(p, named)
                    /\ x.assignment = named
                    /\ x.channel = p.channel /\ x.revision_id = p.revision_id
        BY <2>3 DEF Hear, RecordReport, RecordedFor
    <2>4. QED
        BY <1>2, <2>1, <2>2, <2>3 DEF ActiveReportsWerePromoted
<1>6. QED
    BY <1>1, <1>3, <1>4, <1>5 DEF HistoryInv

LEMMA LeastExists ==
    ASSUME NEW S \in SUBSET Nat, S # {}
    PROVE  \E x \in S : \A y \in S : x <= y
<1> DEFINE R == {ss \in Nat \X Nat : ss[1] < ss[2]}
<1>1. IsWellFoundedOn(R, Nat)
    BY NatLessThanWellFounded DEF OpToRel
<1>2. \A x, y \in Nat : y < x => <<y, x>> \in R
    OBVIOUS
<1> HIDE DEF R
<1>3. PICK x \in S : \A y \in S : ~ (<<y, x>> \in R)
    BY <1>1, WFMin
<1>4. \A y \in S : ~(y < x)
    BY <1>2, <1>3
<1>5. QED
    BY <1>4

\* Generations are bounded, so if there are canary reports one of them is newest.
LEMMA NewestExists ==
    ASSUME TypeOK, NEW e, NEW c, NEW r, CanaryReports(e, c, r) # {}
    PROVE  NewestCanaryReports(e, c, r) # {}
<1> DEFINE below(x) == MaxGeneration - x.assignment.channel_generation
           S == {below(x) : x \in CanaryReports(e, c, r)}
<1>1. \A x \in CanaryReports(e, c, r) :
          /\ x.assignment.channel_generation \in 0 .. MaxGeneration
          /\ below(x) \in Nat
    BY MaxGenerationAssumption
       DEF TypeOK, CanaryReports, AssignmentReportRow, Contract, Generation
<1>2. S \in SUBSET Nat /\ S # {}
    BY <1>1
<1>3. PICK least \in S : \A n \in S : least <= n
    BY <1>2, LeastExists
<1>4. PICK x \in CanaryReports(e, c, r) : least = below(x)
    BY <1>3
<1>5. \A y \in CanaryReports(e, c, r) : below(x) <= below(y)
    BY <1>3, <1>4
<1>6. \A y \in CanaryReports(e, c, r) :
          y.assignment.channel_generation <= x.assignment.channel_generation
    BY <1>1, <1>5, MaxGenerationAssumption
<1>7. QED
    BY <1>4, <1>6 DEF NewestCanaryReports

\* What the gate of promote reads is still the device's last word, and no entry of the
\* log outranks it: such an entry would have left a row the gate prefers.
LEMMA GateReadsTheLastWord ==
    ASSUME TypeOK, HistoryTyped, ReportsAreLogged, LoggedContractsHaveRows,
           NEW e, NEW c, NEW r, CanaryPassed(e, c, r)
    PROVE  \E i \in 1 .. Len(log) : Passes(i, Len(log), e, c, r)
<1> DEFINE success == [enrollment_id |-> e, channel |-> c, revision_id |-> r,
                       result |-> "success"]
<1>1. ASSUME NEW i \in 1 .. Len(log) PROVE log[i].report \in ReportRow
    <2>1. log \in Seq(LogEntry)
        BY DEF HistoryTyped
    <2>2. log[i] \in LogEntry
        BY <2>1
    <2>3. QED
        BY <2>2 DEF LogEntry
<1>2. ASSUME NEW i \in 1 .. Len(log), NEW x, Tells(i, x),
             x.enrollment_id = e, x.channel = c, x.revision_id = r,
             x.result = "success"
      PROVE  log[i].report = success
    BY <1>1, <1>2 DEF Tells, ReportRow
<1>3. ASSUME NEW i \in 1 .. Len(log), NEW j \in 1 .. Len(log),
             log[i].report = success, Outranks(j, i)
      PROVE  \E y \in CanaryReports(e, c, r) :
                log[i].answers.schema = 2 =>
                    y.assignment.channel_generation > log[i].answers.channel_generation
    <2>1. /\ log[j].report.enrollment_id = e
          /\ log[j].report.channel = c
          /\ log[j].report.revision_id = r
          /\ log[j].answers.schema = 2
          /\ log[j].answers.assignment_kind = "candidate"
        BY <1>3 DEF Outranks
    <2>2. PICK y \in assignment_reports :
              /\ y.enrollment_id = e /\ y.assignment = log[j].answers
              /\ y.channel = c /\ y.revision_id = r
        BY <2>1 DEF LoggedContractsHaveRows
    <2>3. y \in CanaryReports(e, c, r)
        BY <2>1, <2>2 DEF CanaryReports
    <2>4. log[i].answers.schema = 2 =>
              log[j].answers.channel_generation > log[i].answers.channel_generation
        BY <1>3 DEF Outranks
    <2>5. QED
        BY <2>2, <2>3, <2>4
<1>4. CASE NewestCanaryReports(e, c, r) # {}
    <2>1. PICK x \in NewestCanaryReports(e, c, r) : x.result = "success"
        BY <1>4 DEF CanaryPassed
    <2>2. /\ x \in assignment_reports
          /\ x.enrollment_id = e /\ x.channel = c /\ x.revision_id = r
          /\ x.assignment.assignment_kind = "candidate"
          /\ \A y \in CanaryReports(e, c, r) :
                y.assignment.channel_generation <= x.assignment.channel_generation
        BY DEF NewestCanaryReports, CanaryReports
    <2>3. PICK i \in 1 .. Len(log) :
              Tells(i, x) /\ log[i].answers = x.assignment /\ LastWord(i, Len(log))
        BY <2>2 DEF ReportsAreLogged
    <2>4. log[i].report = success
        BY <1>2, <2>1, <2>2, <2>3
    <2>5. \A y \in assignment_reports :
              y.assignment.channel_generation \in Nat /\ y.assignment.schema = 2
        BY DEF TypeOK, AssignmentReportRow, Contract, Generation
    <2>6. ASSUME NEW j \in 1 .. Len(log), Outranks(j, i) PROVE FALSE
        <3>1. PICK y \in CanaryReports(e, c, r) :
                  y.assignment.channel_generation > x.assignment.channel_generation
            BY <1>3, <2>2, <2>3, <2>4, <2>5, <2>6
        <3>2. y \in assignment_reports
            BY DEF CanaryReports
        <3>3. QED
            BY <2>2, <2>5, <3>1, <3>2
    <2>7. QED
        BY <2>2, <2>3, <2>4, <2>6 DEF Passes
<1>5. CASE NewestCanaryReports(e, c, r) = {}
    <2>1. success \in reports
        BY <1>5 DEF CanaryPassed
    <2>2. PICK i \in 1 .. Len(log) :
              /\ Tells(i, success)
              /\ log[i].answers.schema = 1
              /\ LastWord(i, Len(log))
        BY <2>1 DEF ReportsAreLogged
    <2>3. log[i].report = success
        BY <1>2, <2>2
    <2>4. CanaryReports(e, c, r) = {}
        BY <1>5, NewestExists
    <2>5. QED
        BY <1>3, <2>2, <2>3, <2>4 DEF Passes
<1>6. QED
    BY <1>4, <1>5

LEMMA PromoteAndNoteStep ==
    ASSUME TypeOK, HistoryInv, NEW c \in Channel, NEW r \in HeadRevision,
           NEW expected \in HeadRevision, NEW g \in Generation,
           NEW required \in SUBSET Addressee,
           PromoteAndNote(c, r, expected, required, g)
    PROVE  HistoryInv'
<1> DEFINE new == [channel |-> c, revision_id |-> r, generation |-> g,
                   required |-> required, heard |-> Len(log)]
<1>1. /\ promotions' = promotions \cup {new}
      /\ UNCHANGED <<log, reports, assignment_reports>>
      /\ g = generation[c] + 1
      /\ \A e \in required : CanaryPassed(e, c, r)
      /\ active_revision' = [active_revision EXCEPT ![c] = r]
      /\ generation' = [generation EXCEPT ![c] = g]
    BY DEF PromoteAndNote, Promote, MayPromote, reported
<1>2. /\ generation[c] \in Nat /\ g \in Nat
      /\ generation'[c] = g /\ active_revision'[c] = r
      /\ \A x \in Channel : x # c =>
            UNCHANGED <<generation[x], active_revision[x]>>
    BY <1>1 DEF TypeOK, Generation
<1>3. HistoryTyped' /\ ReportsAreLogged' /\ LoggedContractsHaveRows'
    <2>1. Len(log) \in Nat
        BY DEF HistoryInv, HistoryTyped
    <2>2. HistoryTyped'
        BY <1>1, <1>2, <2>1 DEF HistoryInv, HistoryTyped
    <2>3. ReportsAreLogged'
        BY <1>1 DEF HistoryInv, ReportsAreLogged, Tells, LastWord
    <2>4. LoggedContractsHaveRows'
        BY <1>1 DEF HistoryInv, LoggedContractsHaveRows
    <2>5. QED
        BY <2>2, <2>3, <2>4
<1>4. ActiveByPromotion'
    BY <1>1, <1>2 DEF HistoryInv, ActiveByPromotion
<1>5. PromotionWasTested'
    <2>1. ASSUME NEW e \in required
          PROVE  \E i \in 1 .. Len(log) : Passes(i, Len(log), e, c, r)
        BY <1>1, GateReadsTheLastWord DEF HistoryInv
    <2>2. \A i, n, f, d, q : Passes(i, n, f, d, q)' <=> Passes(i, n, f, d, q)
        BY <1>1 DEF Passes, LastWord, Outranks
    <2>3. QED
        BY <1>1, <2>1, <2>2 DEF HistoryInv, PromotionWasTested
<1>6. PromotionsAreTheHistory'
    <2>1. ASSUME NEW x \in Channel, NEW h \in 1 .. generation'[x]
          PROVE  \E p \in promotions' :
                    /\ p.channel = x /\ p.generation = h
                    /\ h = generation'[x] => p.revision_id = active_revision'[x]
        <3>1. CASE x = c /\ h = g
            <4>1. new \in promotions'
                BY <1>1
            <4>2. new.channel = c /\ new.generation = g /\ new.revision_id = r
                OBVIOUS
            <4> HIDE DEF new
            <4>3. QED
                BY <1>2, <3>1, <4>1, <4>2
        <3>2. CASE x = c /\ h # g
            <4>1. h \in 1 .. generation[c]
                BY <1>1, <1>2, <3>2
            <4>2. QED
                BY <1>1, <1>2, <3>2, <4>1 DEF HistoryInv, PromotionsAreTheHistory
        <3>3. CASE x # c
            <4>1. h \in 1 .. generation[x]
                BY <1>2, <3>3
            <4>2. QED
                BY <1>1, <1>2, <3>3, <4>1 DEF HistoryInv, PromotionsAreTheHistory
        <3>4. QED
            BY <3>1, <3>2, <3>3
    <2>2. ASSUME NEW x \in Channel, NEW p \in promotions', NEW q \in promotions',
                 p.channel = x, q.channel = x, p.generation = q.generation
          PROVE  p = q /\ p.generation <= generation'[x]
        <3>1. \A o \in promotions : o.channel = x =>
                  o.generation \in Nat /\ o.generation <= generation[x]
            BY DEF HistoryInv, HistoryTyped, PromotionsAreTheHistory
        <3>2. CASE p \in promotions /\ q \in promotions
            <4>1. p = q /\ p.generation \in Nat /\ p.generation <= generation[x]
                BY <2>2, <3>1, <3>2 DEF HistoryInv, PromotionsAreTheHistory
            <4>2. QED
                BY <1>1, <1>2, <4>1
        <3>3. CASE p = new \/ q = new
            <4>1. x = c /\ p.generation = g
                BY <2>2, <3>3
            <4>2. p \notin promotions /\ q \notin promotions
                <5>1. generation[c] \in Nat /\ ~(g <= generation[c])
                    BY <1>1, <1>2
                <5>2. QED
                    BY <2>2, <3>1, <4>1, <5>1
            <4>3. p = new /\ q = new
                BY <1>1, <4>2
            <4>4. QED
                BY <1>2, <4>1, <4>3
        <3>4. QED
            BY <1>1, <3>2, <3>3
    <2>3. QED
        BY <2>1, <2>2 DEF PromotionsAreTheHistory
<1>7. ActiveReportsWerePromoted'
    BY <1>1 DEF HistoryInv, ActiveReportsWerePromoted
<1>8. QED
    BY <1>3, <1>4, <1>5, <1>6, <1>7 DEF HistoryInv

LEMMA HistoryInvStep ==
    TypeOK /\ AssignmentsSound /\ HistoryInv /\ [HistoryNext]_<<vars, history>>
        => HistoryInv'
<1> SUFFICES ASSUME TypeOK, AssignmentsSound, HistoryInv,
                    [HistoryNext]_<<vars, history>>
             PROVE  HistoryInv'
    OBVIOUS
<1>1. ASSUME UNCHANGED <<history, reported, active_revision, generation>>
      PROVE  HistoryInv'
    BY <1>1 DEF history, reported, HistoryInv, HistoryTyped, ReportsAreLogged, Tells,
                LastWord, LoggedContractsHaveRows, ActiveByPromotion,
                PromotionWasTested, Passes, Outranks,
                PromotionsAreTheHistory, ActiveReportsWerePromoted
<1>2. CASE /\ UNCHANGED history
           /\ \/ \E r \in Revision : PutRevision(r)
              \/ \E c \in Channel, r \in Revision, base, expected \in HeadRevision :
                    PublishCandidate(c, r, base, expected)
              \/ \E d \in AssignmentDocument : AssignCandidate(d) \/ BootstrapActive(d)
              \/ Pair
              \/ \E e \in Enrollment : Revoke(e)
    BY <1>1, <1>2 DEF PutRevision, PublishCandidate, AssignCandidate, BootstrapActive,
                     Pair, Revoke, heads
<1>3. CASE UNCHANGED <<vars, history>>
    BY <1>1, <1>3 DEF vars, heads
<1>4. QED
    BY <1>2, <1>3, HearStep, PromoteAndNoteStep DEF HistoryNext

LEMMA HistoryInvariant == HistorySpec => []HistoryInv
BY HistoryInvInit, HistoryInvStep, HistorySoundAlways, PTL DEF HistorySpec

(* Whatever reports replaced one another before and after, each canary a promotion
   required had reported success on a candidate assignment of exactly that revision,
   had not taken that report back, and had reported on no candidate contract of the
   revision of a newer round. *)
THEOREM PromotionsAreAlwaysTested == HistorySpec => []PromotionWasTested
BY HistoryInvariant, PTL DEF HistoryInv

(* A report on an active contract is about the revision its generation's promotion
   made active. *)
THEOREM ActiveReportsAreAlwaysPromoted == HistorySpec => []ActiveReportsWerePromoted
BY HistoryInvariant, PTL DEF HistoryInv

(* The promotions of a channel are numbered without gap or repetition, and the last
   one made the active head. *)
THEOREM PromotionsAreAlwaysTheHistory == HistorySpec => []PromotionsAreTheHistory
BY HistoryInvariant, PTL DEF HistoryInv

----------------------------------------------------------------------------
(* Requests.  Each handler under a fresh key: what is answered is on record with
   what it did. *)

LEMMA RequestsAreRollout ==
    /\ RequestsInit => Init
    /\ [RequestsNext]_<<vars, idempotency>> => [Next]_vars
BY DEF RequestsInit, RequestsNext, PublishCandidateRequest, AssignCandidateRequest,
       BootstrapActiveRequest, RecordReportRequest, PromoteRequest, Next

(* The handlers under idempotency keys do nothing the handlers do not do, so what is
   proved of Rollout holds behind the HTTP surface. *)
THEOREM RequestsImplementRollout == RequestsSpec => Spec
BY RequestsAreRollout, PTL DEF RequestsSpec, Spec

LEMMA RequestsSoundAlways == RequestsSpec => [](TypeOK /\ AssignmentsSound)
BY RequestsImplementRollout, SoundAlways, PTL

\* The keys under which generation g of c was granted.
Granted(c, g) ==
    {k \in Answered("promote", c) : idempotency[k].response.generation = g}

ReleaseOnRecord(c, g) ==
    IF g <= generation[c]
    THEN \E k \in Granted(c, g) :
            /\ Granted(c, g) = {k}
            /\ g = generation[c] =>
                  idempotency[k].response.active_revision = active_revision[c]
    ELSE Granted(c, g) = {}

ReleasesOnRecord == \A c \in Channel, g \in 1 .. MaxGeneration : ReleaseOnRecord(c, g)

LEMMA ReleasesAreAnswers == ReleasesOnRecord <=> AnswersAreTheReleases
BY DEF ReleasesOnRecord, ReleaseOnRecord, Granted, AnswersAreTheReleases

PublicationOnRecord(c, r) ==
    \E k \in Answered("publish_candidate", c) :
        idempotency[k].response.candidate_revision = r

\* Each head of a channel was published there, and not only what is assigned.
HeadsWereAnswered ==
    \A c \in Channel, r \in Revision :
        r \in {candidate_revision[c], active_revision[c]} => PublicationOnRecord(c, r)

RequestsInv == RequestsTypeOK /\ ReleasesOnRecord /\ HeadsWereAnswered

LEMMA RequestsInvInit == RequestsInit => RequestsInv
<1> SUFFICES ASSUME RequestsInit PROVE RequestsInv
    OBVIOUS
<1>1. RequestsTypeOK
    BY DEF RequestsInit, RequestsTypeOK
<1>2. \A operation : \A c : Answered(operation, c) = {}
    BY DEF RequestsInit, Answered
<1>3. ReleasesOnRecord
    <2>1. \A c \in Channel : generation[c] = 0
        BY DEF RequestsInit, Init
    <2>2. \A g \in 1 .. MaxGeneration : ~(g <= 0)
        BY MaxGenerationAssumption
    <2>3. QED
        BY <1>2, <2>1, <2>2 DEF ReleasesOnRecord, ReleaseOnRecord, Granted
<1>4. HeadsWereAnswered
    BY NoRevisionAssumption DEF RequestsInit, Init, HeadsWereAnswered
<1>5. QED
    BY <1>1, <1>3, <1>4 DEF RequestsInv

\* A fresh key is taken and no other row is touched.
LEMMA KeyIsTaken ==
    ASSUME RequestsTypeOK, NEW k \in Key, NEW operation \in Operation,
           NEW response \in Response, Fresh(k), Recording(k, operation, response)
    PROVE  /\ RequestsTypeOK'
           /\ idempotency[k] = Unused
           /\ idempotency'[k] # Unused
           /\ idempotency'[k].operation = operation
           /\ idempotency'[k].response = response
           /\ \A j \in Key : j # k => idempotency'[j] = idempotency[j]
BY UnusedAssumption DEF Fresh, Recording, RequestsTypeOK

\* What was on record stays there.
LEMMA RecordsStay ==
    ASSUME RequestsTypeOK, NEW k \in Key, NEW operation \in Operation,
           NEW response \in Response, Fresh(k), Recording(k, operation, response),
           NEW c, NEW r, PublicationOnRecord(c, r)
    PROVE  PublicationOnRecord(c, r)'
<1>1. PICK j \in Answered("publish_candidate", c) :
          idempotency[j].response.candidate_revision = r
    BY DEF PublicationOnRecord
<1>2. j \in Key /\ j # k
    BY <1>1, KeyIsTaken DEF Answered
<1>3. idempotency'[j] = idempotency[j]
    BY <1>2, KeyIsTaken
<1>4. QED
    BY <1>1, <1>2, <1>3 DEF PublicationOnRecord, Answered

\* A request that is not a promotion grants no generation.
LEMMA NothingGranted ==
    ASSUME RequestsTypeOK, NEW k \in Key, NEW operation \in Operation,
           NEW response \in Response, Fresh(k), Recording(k, operation, response),
           operation # "promote", NEW c, NEW g
    PROVE  /\ Granted(c, g)' = Granted(c, g)
           /\ \A j \in Granted(c, g) : idempotency'[j] = idempotency[j]
<1>1. ASSUME NEW j \in Key PROVE j \in Granted(c, g)' <=> j \in Granted(c, g)
    <2>1. CASE j = k
        <3>1. j \notin Granted(c, g)
            BY <2>1, KeyIsTaken DEF Granted, Answered
        <3>2. idempotency'[j].operation = operation
            BY <2>1, KeyIsTaken
        <3>3. QED
            BY <3>1, <3>2 DEF Granted, Answered
    <2>2. CASE j # k
        BY <2>2, KeyIsTaken DEF Granted, Answered
    <2>3. QED
        BY <2>1, <2>2
<1>2. QED
    BY <1>1, KeyIsTaken DEF Granted, Answered

LEMMA OtherRequestStep ==
    ASSUME TypeOK, RequestsInv, NEW k \in Key, NEW operation \in Operation,
           NEW response \in Response, Fresh(k), Recording(k, operation, response),
           operation # "promote",
           UNCHANGED <<active_revision, generation>>,
           \A c \in Channel :
              \/ candidate_revision'[c] = candidate_revision[c]
              \/ /\ operation = "publish_candidate"
                 /\ response.channel = c
                 /\ response.candidate_revision = candidate_revision'[c]
    PROVE  RequestsInv'
<1>1. RequestsTypeOK /\ RequestsTypeOK'
    BY KeyIsTaken DEF RequestsInv
<1>2. ReleasesOnRecord'
    <2> SUFFICES ASSUME NEW c \in Channel, NEW g \in 1 .. MaxGeneration
                 PROVE  ReleaseOnRecord(c, g)'
        BY DEF ReleasesOnRecord
    <2>1. /\ Granted(c, g)' = Granted(c, g)
          /\ \A j \in Granted(c, g) : idempotency'[j] = idempotency[j]
        BY <1>1, NothingGranted
    <2>2. ReleaseOnRecord(c, g)
        BY DEF RequestsInv, ReleasesOnRecord
    <2>3. QED
        BY <2>1, <2>2 DEF ReleaseOnRecord
<1>3. HeadsWereAnswered'
    <2> SUFFICES ASSUME NEW c \in Channel, NEW r \in Revision,
                        r \in {candidate_revision'[c], active_revision'[c]}
                 PROVE  PublicationOnRecord(c, r)'
        BY DEF HeadsWereAnswered
    <2>1. CASE r \in {candidate_revision[c], active_revision[c]}
        BY <1>1, <2>1, RecordsStay DEF RequestsInv, HeadsWereAnswered
    <2>2. CASE r \notin {candidate_revision[c], active_revision[c]}
        <3>1. /\ operation = "publish_candidate"
              /\ response.channel = c
              /\ response.candidate_revision = r
            BY <2>2
        <3>2. QED
            <4>1. /\ idempotency'[k] # Unused
                  /\ idempotency'[k].operation = operation
                  /\ idempotency'[k].response = response
                BY <1>1, KeyIsTaken
            <4>2. k \in Answered("publish_candidate", c)'
                BY <3>1, <4>1 DEF Answered
            <4>3. QED
                BY <3>1, <4>1, <4>2 DEF PublicationOnRecord
    <2>3. QED
        BY <2>1, <2>2
<1>4. QED
    BY <1>1, <1>2, <1>3 DEF RequestsInv

LEMMA PromoteRequestStep ==
    ASSUME TypeOK, RequestsInv, NEW k \in Key, NEW c \in Channel,
           NEW r \in HeadRevision, NEW expected \in HeadRevision,
           NEW g \in Generation, NEW required \in SUBSET Addressee,
           Fresh(k), PromoteRequest(k, c, r, expected, required, g)
    PROVE  RequestsInv'
<1> DEFINE response == [channel |-> c, active_revision |-> r, generation |-> g]
<1>1. "promote" \in Operation /\ response \in Response
    BY DEF Operation, Response
<1>2. /\ Recording(k, "promote", response)
      /\ candidate_revision[c] = r
      /\ g = generation[c] + 1
      /\ candidate_revision' = [candidate_revision EXCEPT ![c] = NoRevision]
      /\ active_revision' = [active_revision EXCEPT ![c] = r]
      /\ generation' = [generation EXCEPT ![c] = g]
    BY DEF PromoteRequest, Promote, MayPromote
<1>3. response.channel = c /\ response.generation = g /\ response.active_revision = r
    OBVIOUS
<1> HIDE DEF response
<1>4. /\ generation[c] \in Nat /\ generation'[c] = g /\ active_revision'[c] = r
      /\ \A x \in Channel : x # c =>
            UNCHANGED <<generation[x], active_revision[x], candidate_revision[x]>>
    BY <1>2 DEF TypeOK, Generation
<1>5. RequestsTypeOK /\ RequestsTypeOK'
    BY <1>1, <1>2, KeyIsTaken DEF RequestsInv
<1>6. /\ idempotency[k] = Unused
      /\ idempotency'[k] # Unused
      /\ idempotency'[k].operation = "promote"
      /\ idempotency'[k].response = response
      /\ \A j \in Key : j # k => idempotency'[j] = idempotency[j]
    BY <1>1, <1>2, <1>5, KeyIsTaken
<1>7. ReleasesOnRecord'
    <2> SUFFICES ASSUME NEW x \in Channel, NEW h \in 1 .. MaxGeneration
                 PROVE  ReleaseOnRecord(x, h)'
        BY DEF ReleasesOnRecord
    <2>1. ReleaseOnRecord(x, h)
        BY DEF RequestsInv, ReleasesOnRecord
    <2>2. h \in Nat /\ generation[x] \in Nat
        BY DEF TypeOK, Generation
    <2>3. \A j \in Granted(x, h) : j \in Key /\ idempotency'[j] = idempotency[j]
        BY <1>6 DEF Granted, Answered
    <2>4. CASE x = c /\ h = g
        <3>1. Granted(x, h) = {}
            BY <1>2, <1>4, <2>1, <2>4 DEF ReleaseOnRecord
        <3>2. k \in Granted(x, h)'
            BY <1>3, <1>6, <2>4 DEF Granted, Answered
        <3>3. ASSUME NEW j \in Granted(x, h)' PROVE j = k
            BY <1>6, <3>1 DEF Granted, Answered
        <3>4. Granted(x, h)' = {k}
            BY <3>2, <3>3
        <3>5. idempotency'[k].response.active_revision = active_revision'[x]
            BY <1>3, <1>4, <1>6, <2>4
        <3>6. h <= generation'[x]
            BY <1>4, <2>2, <2>4
        <3>7. QED
            BY <3>2, <3>4, <3>5, <3>6 DEF ReleaseOnRecord
    <2>5. CASE x # c \/ h # g
        <3>1. ASSUME NEW j \in Key PROVE j \in Granted(x, h)' <=> j \in Granted(x, h)
            BY <1>3, <1>6, <2>5 DEF Granted, Answered
        <3>2. Granted(x, h)' = Granted(x, h)
            BY <3>1 DEF Granted, Answered
        <3>3. h <= generation[x] <=> h <= generation'[x]
            BY <1>2, <1>4, <2>2, <2>5
        <3>4. h <= generation[x] /\ h = generation'[x] =>
                 h = generation[x] /\ active_revision'[x] = active_revision[x]
            BY <1>2, <1>4, <2>2, <2>5
        <3>5. QED
            BY <2>1, <2>3, <3>2, <3>3, <3>4 DEF ReleaseOnRecord
    <2>6. QED
        BY <2>4, <2>5
<1>8. HeadsWereAnswered'
    <2> SUFFICES ASSUME NEW x \in Channel, NEW q \in Revision,
                        q \in {candidate_revision'[x], active_revision'[x]}
                 PROVE  PublicationOnRecord(x, q)'
        BY DEF HeadsWereAnswered
    <2>1. q \in {candidate_revision[x], active_revision[x]}
        BY <1>2, <1>4, NoRevisionAssumption DEF TypeOK
    <2>2. PublicationOnRecord(x, q)
        BY <2>1 DEF RequestsInv, HeadsWereAnswered
    <2>3. QED
        BY <1>1, <1>2, <1>5, <2>2, RecordsStay
<1>9. QED
    BY <1>5, <1>7, <1>8 DEF RequestsInv

LEMMA AssignmentRequestStep ==
    ASSUME TypeOK, RequestsInv, NEW k \in Key, NEW d \in AssignmentDocument,
           Fresh(k), AssignCandidateRequest(k, d) \/ BootstrapActiveRequest(k, d)
    PROVE  RequestsInv'
<1>1. PICK operation \in {"assign_candidate", "bootstrap_active"}, kind \in AssignmentKind :
          Assign(d, kind) /\ Recording(k, operation, AssignmentAnswer(d))
    BY DEF AssignCandidateRequest, AssignCandidate, BootstrapActiveRequest,
           BootstrapActive, AssignmentKind
<1>2. UNCHANGED heads
    BY DEF AssignCandidateRequest, AssignCandidate, BootstrapActiveRequest,
           BootstrapActive
<1> DEFINE response == [enrollment_id |-> d.enrollment_id, channel |-> d.channel,
                        revision_id |-> d.revision_id, assignment_kind |-> kind]
<1>3. d.enrollment_id \in Addressee /\ d.channel \in Channel /\ d.revision_id \in Revision
    BY DEF AssignmentDocument, LegacyDocument, Contract
<1>4. AssignmentAnswer(d) = response
    BY <1>1, <1>3 DEF AssignmentAnswer, Assign, Row, TypeOK
<1>5. response \in Response
    BY <1>3 DEF Response
<1> HIDE DEF response
<1>6. Recording(k, operation, response)
    BY <1>1, <1>4
<1>7. operation \in Operation /\ operation # "promote"
    BY <1>1 DEF Operation
<1>8. QED
    BY <1>2, <1>5, <1>6, <1>7, OtherRequestStep DEF heads

LEMMA PublicationRequestStep ==
    ASSUME TypeOK, RequestsInv, NEW k \in Key, NEW c \in Channel, NEW r \in Revision,
           NEW base \in HeadRevision, NEW expected \in HeadRevision,
           Fresh(k), PublishCandidateRequest(k, c, r, base, expected)
    PROVE  RequestsInv'
<1> DEFINE response == [channel |-> c, candidate_revision |-> r,
                        active_revision |-> active_revision[c]]
<1>1. active_revision[c] \in HeadRevision
    BY DEF TypeOK, HeadRevision
<1>2. response \in Response
    BY <1>1 DEF Response
<1>3. response.channel = c /\ response.candidate_revision = r
    OBVIOUS
<1>4. Recording(k, "publish_candidate", response)
    BY DEF PublishCandidateRequest
<1> HIDE DEF response
<1>5. /\ UNCHANGED <<active_revision, generation>>
      /\ candidate_revision' = [candidate_revision EXCEPT ![c] = r]
    BY DEF PublishCandidateRequest, PublishCandidate
<1>6. \A x \in Channel : \/ candidate_revision'[x] = candidate_revision[x]
                         \/ x = c /\ candidate_revision'[x] = r
    BY <1>5 DEF TypeOK
<1>7. QED
    BY <1>2, <1>3, <1>4, <1>5, <1>6, OtherRequestStep DEF Operation

LEMMA ReportRequestStep ==
    ASSUME TypeOK, RequestsInv, NEW k \in Key, NEW p \in ReportRow,
           Fresh(k), RecordReportRequest(k, p)
    PROVE  RequestsInv'
<1> DEFINE response == [enrollment_id |-> p.enrollment_id,
                        revision_id |-> p.revision_id, result |-> p.result]
<1>1. response \in Response
    BY DEF Response, ReportRow
<1>2. Recording(k, "record_report", response) /\ UNCHANGED heads
    BY DEF RecordReportRequest, RecordReport
<1> HIDE DEF response
<1>3. QED
    BY <1>1, <1>2, OtherRequestStep DEF Operation, heads

LEMMA RequestsInvStep ==
    TypeOK /\ RequestsInv /\ [RequestsNext]_<<vars, idempotency>> => RequestsInv'
<1> SUFFICES ASSUME TypeOK, RequestsInv, [RequestsNext]_<<vars, idempotency>>
             PROVE  RequestsInv'
    OBVIOUS
<1>1. ASSUME UNCHANGED <<idempotency, heads>> PROVE RequestsInv'
    BY <1>1 DEF heads, RequestsInv, RequestsTypeOK, ReleasesOnRecord, ReleaseOnRecord,
                Granted, Answered, HeadsWereAnswered, PublicationOnRecord
<1>2. CASE /\ UNCHANGED idempotency
           /\ \/ \E r \in Revision : PutRevision(r)
              \/ Pair
              \/ \E e \in Enrollment : Revoke(e)
    BY <1>1, <1>2 DEF PutRevision, Pair, Revoke
<1>3. CASE UNCHANGED <<vars, idempotency>>
    BY <1>1, <1>3 DEF vars
<1>4. QED
    BY <1>2, <1>3, PublicationRequestStep, AssignmentRequestStep, ReportRequestStep,
       PromoteRequestStep DEF RequestsNext

LEMMA RequestsInvariant == RequestsSpec => []RequestsInv
BY RequestsInvInit, RequestsInvStep, RequestsSoundAlways, PTL DEF RequestsSpec

(* Under keys of their own, no two administrators are told that they promoted to the
   same generation, each generation was answered to somebody, and the last answer
   names the active head. *)
THEOREM AnswersAreAlwaysTheReleases == RequestsSpec => []AnswersAreTheReleases
<1>1. RequestsInv => AnswersAreTheReleases
    BY ReleasesAreAnswers DEF RequestsInv
<1>2. QED
    BY <1>1, RequestsInvariant, PTL

(* What is assigned to a device was published in its channel, and the publication is
   on record. *)
THEOREM ServedRevisionsWereAlwaysAnswered == RequestsSpec => []ServedRevisionsWereAnswered
<1>1. TypeOK /\ AssignmentsSound /\ RequestsInv => ServedRevisionsWereAnswered
    <2> SUFFICES ASSUME TypeOK, AssignmentsSound, RequestsInv,
                        NEW a \in Addressee, Assigned(a)
                 PROVE  PublicationOnRecord(assignments[a].channel,
                                            assignments[a].revision_id)
        BY DEF ServedRevisionsWereAnswered, PublicationOnRecord
    <2>1. assignments[a].channel \in Channel /\ assignments[a].revision_id \in Revision
        BY DEF Assigned, TypeOK, AssignmentRow
    <2>2. assignments[a].revision_id \in {candidate_revision[assignments[a].channel],
                                          active_revision[assignments[a].channel]}
        BY DEF AssignmentsSound, RowSound, RowFollowsHead
    <2>3. QED
        BY <2>1, <2>2 DEF RequestsInv, HeadsWereAnswered
<1>2. QED
    BY <1>1, RequestsInvariant, RequestsSoundAlways, PTL

----------------------------------------------------------------------------
(* Readers.  What is known of a read in progress is stated of its locals r, so that
   a commit of a writer changes only the tables and `seen`. *)

LEMMA ReadersAreRequests ==
    /\ ReadersInit => RequestsInit
    /\ [ReadersNext]_<<rollouts, reading, seen>> => [RequestsNext]_<<vars, idempotency>>
BY DEF ReadersInit, ReadersNext, rollouts

(* A reader changes nothing that a request sees. *)
THEOREM ReadersImplementRequests == ReadersSpec => RequestsSpec
BY ReadersAreRequests, PTL DEF ReadersSpec, RequestsSpec

LEMMA ReadersSoundAlways == ReadersSpec => [](TypeOK /\ AssignmentsSound /\ RequestsInv)
BY ReadersImplementRequests, RequestsSoundAlways, RequestsInvariant, PTL

\* What the tables say about a now.
MomentOf(a) ==
    LET row == assignments[a]
        results == ContractResults(row)
    IN  [live |-> IsEnrolled(a) /\ Live(a),
         row |-> row,
         active_revision |->
            IF IsEnrolled(a) THEN active_revision[enrollments[a].channel]
                             ELSE NoRevision,
         results |-> IF row = Absent THEN {}
                     ELSE IF results # {} THEN results ELSE LegacyResults(a, row)]

\* The device was live and had this row.
SeenLive(row) == \E m \in seen : m.live /\ m.row = row

SeenAlive == \E m \in seen : m.live

SeenNoRow == \E m \in seen : m.row = Absent

\* The device had no row under head h; or it had none under another head and then,
\* live, an active one for h.
SeenHead(h) ==
    \/ \E m \in seen : m.row = Absent /\ m.active_revision = h
    \/ /\ \E m \in seen : m.row = Absent /\ m.active_revision # h
       /\ \E m \in seen : /\ m.live
                         /\ m.row # Absent
                         /\ m.row.assignment_kind = "active"
                         /\ m.row.revision_id = h

\* The device had this row, with this result.
SeenResult(row, result) == \E m \in seen : m.row = row /\ result \in m.results

\* It had a schema 1 row for the same revision, with this result.
SeenLater(row, result) ==
    \E m \in seen : /\ m.row # Absent
                    /\ m.row.document.schema = 1
                    /\ m.row.channel = row.channel
                    /\ m.row.revision_id = row.revision_id
                    /\ result \in m.results

SeenBare(row) == \E m \in seen : m.row = row /\ m.results = {}

LEMMA SeenStays ==
    ASSUME seen \subseteq seen', NEW row, NEW h, NEW result
    PROVE  /\ SeenAlive => SeenAlive'
           /\ SeenNoRow => SeenNoRow'
           /\ SeenLive(row) => SeenLive(row)'
           /\ SeenHead(h) => SeenHead(h)'
           /\ SeenResult(row, result) => SeenResult(row, result)'
           /\ SeenLater(row, result) => SeenLater(row, result)'
           /\ SeenBare(row) => SeenBare(row)'
BY DEF SeenAlive, SeenNoRow, SeenLive, SeenHead, SeenResult, SeenLater, SeenBare

\* Of the row a lookup or a blob is answered from, and of the head.
LookupSound(r) ==
    LET e == r.enrollment_id
    IN  /\ IsEnrolled(e)
        /\ SeenAlive
        /\ r.stage = "authenticated" =>
              r.row = Absent /\ (Assigned(e) => SeenLive(assignments[e]))
        /\ r.stage = "no row" =>
              /\ r.row = Absent
              /\ SeenNoRow
              /\ SeenHead(active_revision[enrollments[e].channel])
        /\ r.row # Absent => SeenLive(r.row)

\* The row is the one its document makes for a.
OwnRow(a, row) ==
    /\ row \in AssignmentRow
    /\ row.document.enrollment_id = a
    /\ row.channel = row.document.channel
    /\ row.revision_id = row.document.revision_id
    /\ row.assignment_kind = IF row.document.schema = 2
                             THEN row.document.assignment_kind ELSE "candidate"

\* Of the results the snapshot has not read yet.
LegacySound(a, row) ==
    /\ \A result \in LegacyResults(a, row) :
          SeenResult(row, result) \/ SeenLater(row, result)
    /\ SeenBare(row) \/ LegacyResults(a, row) # {}

SnapshotSound(r) ==
    LET a == r.enrollment_id
    IN  /\ OwnRow(a, r.row)
        /\ r.stage = "row" =>
              /\ r.report_result = NoReport
              /\ \A result \in ContractResults(r.row) : SeenResult(r.row, result)
              /\ ContractResults(r.row) = {} => LegacySound(a, r.row)
        /\ r.stage = "reports" =>
              IF r.report_result = NoReport THEN LegacySound(a, r.row)
              ELSE SeenResult(r.row, r.report_result)
        /\ r.stage = "answered" =>
              IF r.report_result = NoReport THEN SeenBare(r.row)
              ELSE \/ SeenResult(r.row, r.report_result)
                   \/ SeenLater(r.row, r.report_result)

ReadingSound(r) ==
    /\ r.call \in {"assignment", "blob"} => LookupSound(r)
    /\ r.call = "assignment" /\ r.stage = "answered" =>
          \/ r.row # Absent
          \/ r.active_revision # NoRevision /\ SeenHead(r.active_revision)
    /\ r.call = "blob" /\ r.stage = "row" => r.row # Absent
    /\ r.call = "blob" /\ r.stage = "answered" =>
          r.row # Absent /\ r.row.revision_id \in Referring
    /\ r.call = "rollouts" => SnapshotSound(r)

ReadersInv ==
    /\ reading \in ReadRecord \cup {Idle}
    /\ reading # Idle => Moment \in seen /\ ReadingSound(reading)

----------------------------------------------------------------------------
(* A commit of a writer during the read *)

LEMMA EnrollmentStays ==
    ASSUME TypeOK, [Next]_vars, NEW e \in Enrollment, Enrolled(e)
    PROVE  Enrolled(e)' /\ enrollments'[e].channel = enrollments[e].channel
<1>1. CASE UNCHANGED enrollments
    BY <1>1 DEF Enrolled
<1>2. ASSUME NEW f \in Enrollment, Revoke(f)
      PROVE  Enrolled(e)' /\ enrollments'[e].channel = enrollments[e].channel
    <2>1. enrollments[e] \in EnrollmentRow
        BY DEF TypeOK, FleetTypeOK, Enrolled
    <2>2. enrollments'[e] \in EnrollmentRow
          /\ enrollments'[e].channel = enrollments[e].channel
        BY <1>2, <2>1 DEF Revoke, RevokeEnrollment, TypeOK, FleetTypeOK, EnrollmentRow
    <2>3. QED
        BY <2>2, AbsentEnrollmentAssumption DEF Enrolled
<1>3. CASE Pair
    BY <1>3 DEF Pair, Enroll, Enrolled, TypeOK, FleetTypeOK
<1>4. QED
    BY <1>1, <1>2, <1>3 DEF Next, PutRevision, PublishCandidate, AssignCandidate,
                           BootstrapActive, RecordReport, Promote, vars

\* A device that is not live after a step has got no row in it.
LEMMA NoRowWithoutLife ==
    ASSUME TypeOK, [Next]_vars, NEW e \in Enrollment, Enrolled(e), ~Live(e)'
    PROVE  assignments'[e] \in {assignments[e], Absent}
<1>1. CASE enrollments[e].revoked
    BY <1>1, FrozenStep DEF Frozen
<1>2. CASE ~enrollments[e].revoked
    <2>1. enrollments' # enrollments
        BY <1>2 DEF Live, Enrolled
    <2>2. UNCHANGED assignments
        BY <2>1 DEF Next, PutRevision, PublishCandidate, AssignCandidate,
                    BootstrapActive, RecordReport, Promote, Pair, Revoke, vars
    <2>3. QED
        BY <2>2
<1>3. QED
    BY <1>1, <1>2

\* A device's row is replaced in the step that moves the head of its channel.
LEMMA HeadMovesRows ==
    ASSUME TypeOK, AssignmentsSound, [Next]_vars, NEW e \in Enrollment, Enrolled(e),
           NEW c, c = enrollments[e].channel,
           active_revision'[c] # active_revision[c]
    PROVE  \/ assignments'[e] = Absent
           \/ /\ Live(e)'
              /\ assignments'[e] # Absent
              /\ assignments'[e].assignment_kind = "active"
              /\ assignments'[e].revision_id = active_revision'[c]
<1>1. PICK x \in Channel, r, expected \in HeadRevision, g \in Generation,
           required \in SUBSET Addressee : Promote(x, r, expected, required, g)
    BY DEF Next, PutRevision, PublishCandidate, AssignCandidate, BootstrapActive,
           RecordReport, Pair, Revoke, vars, heads
<1>2. e \in Addressee /\ IsEnrolled(e) /\ c \in Channel
    BY DEF Addressee, IsEnrolled, TypeOK, FleetTypeOK, Enrolled, EnrollmentRow
<1>3. x = c /\ active_revision'[c] = r
    BY <1>1, <1>2 DEF Promote, TypeOK
<1>4. PICK batch \in ActiveBatches(c, r, g) : assignments' = AssignedBatch(c, batch)
    BY <1>1, <1>3 DEF Promote
<1>5. CASE \E d \in batch : d.enrollment_id = e
    <2> DEFINE d == CHOOSE y \in batch : y.enrollment_id = e
    <2>1. d \in Contract /\ d.revision_id = r /\ Live(e)
        BY <1>4, <1>5 DEF ActiveBatches, Eligible
    <2>2. assignments'[e] = Row(d, "active")
        BY <1>2, <1>4, <1>5 DEF AssignedBatch
    <2> HIDE DEF d
    <2>3. Row(d, "active") \in AssignmentRow
        BY <2>1, RowType DEF AssignmentDocument, AssignmentKind
    <2>4. Live(e)'
        BY <1>1, <2>1 DEF Promote, Live, Enrolled
    <2>5. QED
        BY <1>3, <2>1, <2>2, <2>3, <2>4, AbsentAssignmentAssumption DEF Row
<1>6. CASE ~\E d \in batch : d.enrollment_id = e
    <2>1. assignments'[e] = Cleared(c)[e]
        BY <1>2, <1>4, <1>6 DEF AssignedBatch
    <2>2. Assigned(e) => assignments[e].channel = c
        BY <1>2 DEF AssignmentsSound, RowSound, RowMatchesDocument, RowFitsEnrollment
    <2>3. QED
        BY <1>2, <2>1, <2>2 DEF Cleared, Assigned
<1>7. QED
    BY <1>5, <1>6

LEMMA LookupStays ==
    ASSUME TypeOK, AssignmentsSound, [Next]_vars, NEW r \in ReadRecord, LookupSound(r),
           seen \subseteq seen', MomentOf(r.enrollment_id)' \in seen'
    PROVE  LookupSound(r)'
<1> DEFINE e == r.enrollment_id
           c == enrollments[e].channel
<1>1. e \in Enrollment /\ Enrolled(e)
    BY DEF LookupSound, IsEnrolled
<1>2. Enrolled(e)' /\ enrollments'[e].channel = c /\ IsEnrolled(e)'
    BY <1>1, EnrollmentStays DEF IsEnrolled
<1>3. ASSUME r.stage = "authenticated", Assigned(e)' PROVE SeenLive(assignments[e])'
    <2>1. CASE Live(e)'
        BY <1>2, <2>1 DEF MomentOf, SeenLive
    <2>2. CASE ~Live(e)'
        <3>1. assignments'[e] = assignments[e] /\ Assigned(e)
            BY <1>1, <1>3, <2>2, NoRowWithoutLife DEF Assigned
        <3>2. SeenLive(assignments[e])
            BY <1>3, <3>1 DEF LookupSound
        <3>3. QED
            BY <3>1, <3>2 DEF SeenLive
    <2>3. QED
        BY <2>1, <2>2
<1>4. ASSUME r.stage = "no row"
      PROVE  SeenHead(active_revision[enrollments[e].channel])'
    <2>1. CASE active_revision'[c] = active_revision[c]
        <3>1. SeenHead(active_revision[c])
            BY <1>4 DEF LookupSound
        <3>2. QED
            BY <1>2, <2>1, <3>1 DEF SeenHead
    <2>2. CASE active_revision'[c] # active_revision[c]
        <3> DEFINE m == MomentOf(e)'
        <3>1. PICK h : h = active_revision'[c]
            OBVIOUS
        <3>2. \/ assignments'[e] = Absent
              \/ /\ Live(e)'
                 /\ assignments'[e] # Absent
                 /\ assignments'[e].assignment_kind = "active"
                 /\ assignments'[e].revision_id = h
            BY <1>1, <2>2, <3>1, HeadMovesRows
        <3>3. /\ m \in seen' /\ m.row = assignments'[e]
              /\ m.active_revision = h
              /\ Live(e)' => m.live
            BY <1>2, <3>1 DEF MomentOf
        <3>4. PICK x \in seen' : x.row = Absent
            BY <1>4 DEF LookupSound, SeenNoRow
        <3> HIDE DEF m
        <3>5. SeenHead(h)'
            BY <3>2, <3>3, <3>4 DEF SeenHead
        <3>6. QED
            BY <1>2, <3>1, <3>5 DEF SeenHead
    <2>3. QED
        BY <2>1, <2>2
<1>5. /\ r.row # Absent => SeenLive(r.row)'
      /\ SeenAlive'
      /\ r.stage = "no row" => SeenNoRow'
    BY SeenStays DEF LookupSound
<1>6. QED
    BY <1>2, <1>3, <1>4, <1>5 DEF LookupSound

\* A result that is new was reported on the row a has now.
LEMMA NewResults ==
    ASSUME TypeOK, AssignmentsSound, [Next]_vars, NEW a \in Addressee, NEW row,
           OwnRow(a, row)
    PROVE  /\ \A result \in ContractResults(row)' :
                \/ result \in ContractResults(row)
                \/ Assigned(a)' /\ assignments'[a].document = row.document
           /\ \A result \in LegacyResults(a, row)' :
                \/ result \in LegacyResults(a, row)
                \/ /\ Assigned(a)'
                   /\ assignments'[a].document.schema = 1
                   /\ assignments'[a].channel = row.channel
                   /\ assignments'[a].revision_id = row.revision_id
           /\ ContractResults(row) # {} => ContractResults(row)' # {}
           /\ LegacyResults(a, row) # {} => LegacyResults(a, row)' # {}
<1>1. CASE UNCHANGED reported
    BY <1>1 DEF reported, ContractResults, LegacyResults
<1>2. ASSUME NEW p \in ReportRow, RecordReport(p),
             assignments[p.enrollment_id].document.schema = 1
      PROVE  reports' = Recorded(p) /\ UNCHANGED <<assignments, assignment_reports>>
             /\ Answers(p) /\ Assigned(p.enrollment_id)'
    BY <1>2 DEF RecordReport, Answers, Assigned
<1>3. ASSUME NEW p \in ReportRow, RecordReport(p),
             assignments[p.enrollment_id].document.schema = 1
      PROVE  /\ \A x \in reports' : x \in reports \/ x = p
             /\ \A x \in reports : \E y \in reports' :
                  /\ y.enrollment_id = x.enrollment_id
                  /\ y.channel = x.channel
                  /\ y.revision_id = x.revision_id
    BY <1>2, <1>3 DEF Recorded
<1>4. ASSUME NEW p \in ReportRow, RecordReport(p),
             assignments[p.enrollment_id].document.schema = 2
      PROVE  /\ UNCHANGED <<assignments, reports>>
             /\ Assigned(p.enrollment_id)'
             /\ \A x \in assignment_reports' :
                  \/ x \in assignment_reports
                  \/ x.assignment = assignments[p.enrollment_id].document
             /\ \A x \in assignment_reports : \E y \in assignment_reports' :
                  y.assignment = x.assignment
    <2> DEFINE document == assignments[p.enrollment_id].document
               new == [enrollment_id |-> p.enrollment_id, channel |-> p.channel,
                       revision_id |-> p.revision_id, result |-> p.result,
                       assignment |-> document]
    <2>1. UNCHANGED assignments /\ Assigned(p.enrollment_id)'
        BY <1>4 DEF RecordReport, Answers, Assigned
    <2>2. assignment_reports' = RecordedFor(new) /\ UNCHANGED reports
        BY <1>4, ReportOnContract
    <2>3. new.assignment = document
        OBVIOUS
    <2> HIDE DEF document, new
    <2>4. /\ new \in assignment_reports'
          /\ \A x \in assignment_reports' : x \in assignment_reports \/ x = new
          /\ \A x \in assignment_reports :
               x \in assignment_reports' \/ x.assignment = new.assignment
        BY <2>2 DEF RecordedFor
    <2>5. QED
        BY <2>1, <2>2, <2>3, <2>4 DEF document
<1>5. ASSUME NEW p \in ReportRow, RecordReport(p)
      PROVE  assignments[p.enrollment_id].document.enrollment_id = p.enrollment_id
             /\ p.enrollment_id \in Addressee
    BY <1>5 DEF RecordReport, Answers, ReportRow, AssignmentsSound, RowSound,
                RowMatchesDocument
<1>6. ASSUME NEW p \in ReportRow, RecordReport(p),
             assignments[p.enrollment_id].document.schema = 1
      PROVE  /\ ContractResults(row)' = ContractResults(row)
             /\ \A result \in LegacyResults(a, row)' :
                  \/ result \in LegacyResults(a, row)
                  \/ /\ Assigned(a)'
                     /\ assignments'[a].document.schema = 1
                     /\ assignments'[a].channel = row.channel
                     /\ assignments'[a].revision_id = row.revision_id
             /\ LegacyResults(a, row) # {} => LegacyResults(a, row)' # {}
    <2>1. /\ UNCHANGED <<assignments, assignment_reports>>
          /\ assignments[p.enrollment_id].channel = p.channel
          /\ assignments[p.enrollment_id].revision_id = p.revision_id
          /\ Assigned(p.enrollment_id)'
        BY <1>2, <1>6 DEF Answers
    <2>2. /\ \A x \in reports' : x \in reports \/ x = p
          /\ \A x \in reports : \E y \in reports' :
               /\ y.enrollment_id = x.enrollment_id
               /\ y.channel = x.channel
               /\ y.revision_id = x.revision_id
        BY <1>3, <1>6
    <2>3. QED
        BY <1>6, <2>1, <2>2 DEF ContractResults, LegacyResults
<1>7. ASSUME NEW p \in ReportRow, RecordReport(p),
             assignments[p.enrollment_id].document.schema = 2
      PROVE  /\ LegacyResults(a, row)' = LegacyResults(a, row)
             /\ \A result \in ContractResults(row)' :
                  \/ result \in ContractResults(row)
                  \/ Assigned(a)' /\ assignments'[a].document = row.document
             /\ ContractResults(row) # {} => ContractResults(row)' # {}
    <2>1. LegacyResults(a, row)' = LegacyResults(a, row)
        BY <1>4, <1>7 DEF LegacyResults
    <2>2. ASSUME NEW x \in assignment_reports', x.assignment = row.document
          PROVE  \/ x \in assignment_reports
                 \/ Assigned(a)' /\ assignments'[a].document = row.document
        BY <1>4, <1>5, <1>7, <2>2 DEF OwnRow
    <2>3. \A x \in assignment_reports : \E y \in assignment_reports' :
             y.assignment = x.assignment
        BY <1>4, <1>7
    <2>4. QED
        BY <2>1, <2>2, <2>3 DEF ContractResults
<1>8. ASSUME NEW p \in ReportRow, RecordReport(p)
      PROVE  assignments[p.enrollment_id].document.schema \in {1, 2}
    BY <1>8 DEF RecordReport
<1>9. \/ UNCHANGED reported
      \/ \E p \in ReportRow : RecordReport(p)
    BY DEF Next, PutRevision, PublishCandidate, AssignCandidate, BootstrapActive,
           Promote, Pair, Revoke, vars, reported
<1>10. QED
    BY <1>1, <1>6, <1>7, <1>8, <1>9

\* The results the next moment has of the row that is there then.
LEMMA NextMomentResults ==
    ASSUME NEW a, Assigned(a)'
    PROVE  /\ MomentOf(a)'.row = assignments'[a]
           /\ ContractResults(assignments[a])' # {} =>
                 MomentOf(a)'.results = ContractResults(assignments[a])'
           /\ ContractResults(assignments[a])' = {} =>
                 MomentOf(a)'.results = LegacyResults(a, assignments[a])'
BY DEF MomentOf, Assigned

LEMMA SnapshotStays ==
    ASSUME TypeOK, AssignmentsSound, TypeOK', AssignmentsSound', [Next]_vars,
           NEW r \in ReadRecord, SnapshotSound(r),
           seen \subseteq seen', MomentOf(r.enrollment_id)' \in seen'
    PROVE  SnapshotSound(r)'
<1> DEFINE a == r.enrollment_id
           row == r.row
           m == MomentOf(a)'
<1>1. a \in Addressee /\ OwnRow(a, row) /\ row \in AssignmentRow /\ row # Absent
    BY AbsentAssignmentAssumption DEF ReadRecord, SnapshotSound, OwnRow
<1>2. OwnRow(a, row)'
    BY <1>1 DEF OwnRow
<1>3. ASSUME NEW result \in ContractResults(row)', result \notin ContractResults(row)
      PROVE  SeenResult(row, result)'
    <2>1. Assigned(a)' /\ assignments'[a].document = row.document
        BY <1>1, <1>3, NewResults
    <2>2. assignments'[a] \in AssignmentRow /\ RowMatchesDocument(a)'
        BY <1>1, <2>1 DEF AssignmentsSound, RowSound, TypeOK, Assigned
    <2>3. assignments'[a] = row
        BY <1>1, <2>1, <2>2 DEF AssignmentRow, OwnRow, RowMatchesDocument
    <2>4. m.row = row /\ result \in m.results
        BY <1>3, <2>1, <2>3, NextMomentResults DEF ContractResults
    <2>5. QED
        BY <2>4 DEF SeenResult
<1>4. ASSUME NEW result \in LegacyResults(a, row)', result \notin LegacyResults(a, row)
      PROVE  SeenLater(row, result)'
    <2>1. /\ Assigned(a)'
          /\ assignments'[a].document.schema = 1
          /\ assignments'[a].channel = row.channel
          /\ assignments'[a].revision_id = row.revision_id
        BY <1>1, <1>4, NewResults
    <2>2. ContractResults(assignments[a])' = {}
        BY <2>1 DEF ContractResults, TypeOK, AssignmentReportRow, Contract
    <2>3. result \in LegacyResults(a, assignments[a])'
        BY <1>4, <2>1 DEF LegacyResults
    <2>4. m.row = assignments'[a] /\ result \in m.results
        BY <2>1, <2>2, <2>3, NextMomentResults
    <2>5. QED
        BY <2>1, <2>4 DEF SeenLater, Assigned
<1>5. ASSUME LegacySound(a, row) PROVE LegacySound(a, row)'
    <2>1. ASSUME NEW result \in LegacyResults(a, row)'
          PROVE  SeenResult(row, result)' \/ SeenLater(row, result)'
        <3>1. CASE result \in LegacyResults(a, row)
            BY <1>5, <3>1, SeenStays DEF LegacySound
        <3>2. CASE result \notin LegacyResults(a, row)
            BY <1>4, <3>2
        <3>3. QED
            BY <3>1, <3>2
    <2>2. SeenBare(row)' \/ LegacyResults(a, row)' # {}
        BY <1>1, <1>5, SeenStays, NewResults DEF LegacySound
    <2>3. QED
        BY <2>1, <2>2 DEF LegacySound
<1>6. ASSUME r.stage = "row"
      PROVE  /\ r.report_result = NoReport
             /\ \A result \in ContractResults(row)' : SeenResult(row, result)'
             /\ ContractResults(row)' = {} => LegacySound(a, row)'
    <2>1. \A result \in ContractResults(row) : SeenResult(row, result)'
        BY <1>6, SeenStays DEF SnapshotSound
    <2>2. ContractResults(row)' = {} => ContractResults(row) = {}
        BY <1>1, NewResults
    <2>3. QED
        BY <1>3, <1>5, <1>6, <2>1, <2>2 DEF SnapshotSound
<1>7. ASSUME r.stage = "reports"
      PROVE  IF r.report_result = NoReport THEN LegacySound(a, row)'
             ELSE SeenResult(row, r.report_result)'
    BY <1>5, <1>7, SeenStays DEF SnapshotSound
<1>8. ASSUME r.stage = "answered"
      PROVE  IF r.report_result = NoReport THEN SeenBare(row)'
             ELSE \/ SeenResult(row, r.report_result)'
                  \/ SeenLater(row, r.report_result)'
    BY <1>8, SeenStays DEF SnapshotSound
<1>9. QED
    BY <1>2, <1>6, <1>7, <1>8 DEF SnapshotSound

LEMMA ReadingStays ==
    ASSUME TypeOK, AssignmentsSound, TypeOK', AssignmentsSound', [Next]_vars,
           NEW r \in ReadRecord, ReadingSound(r),
           seen \subseteq seen', MomentOf(r.enrollment_id)' \in seen'
    PROVE  ReadingSound(r)'
<1>1. r.call \in {"assignment", "blob"} => LookupSound(r)'
    BY LookupStays DEF ReadingSound
<1>2. r.call = "assignment" /\ r.stage = "answered" =>
          \/ r.row # Absent
          \/ r.active_revision # NoRevision /\ SeenHead(r.active_revision)'
    BY SeenStays DEF ReadingSound
<1>3. r.call = "rollouts" => SnapshotSound(r)'
    BY SnapshotStays DEF ReadingSound
<1>4. QED
    BY <1>1, <1>2, <1>3 DEF ReadingSound

----------------------------------------------------------------------------
(* A step of the reader *)

\* Where a statement takes the reader that goes on.
Continues(r, next) ==
    /\ next \in ReadRecord
    /\ next.enrollment_id = r.enrollment_id
    /\ ReadingSound(next)

LEMMA RowWasRead ==
    ASSUME TypeOK, AssignmentsSound, NEW r \in ReadRecord, reading = r, ReadingSound(r),
           MomentOf(r.enrollment_id) \in seen, NEW next, reading' = next, next # Idle,
           ReadRow
    PROVE  Continues(r, next)
<1> DEFINE e == r.enrollment_id
           row == assignments[e]
<1>1. /\ r.call \in {"assignment", "blob"} /\ r.stage = "authenticated"
      /\ e \in Enrollment /\ e \in Addressee /\ IsEnrolled(e) /\ r.row = Absent
      /\ SeenAlive
      /\ Assigned(e) => SeenLive(row)
    BY DEF ReadRow, At, ReadingSound, LookupSound, IsEnrolled, Addressee
<1>2. Assigned(e) => row \in AssignmentRow /\ row.channel = enrollments[e].channel
    BY <1>1 DEF TypeOK, Assigned, AssignmentsSound, RowSound, RowMatchesDocument,
                RowFitsEnrollment
<1>3. StoredFor(e) = IF Assigned(e) THEN {row} ELSE {}
    BY <1>2 DEF StoredFor, Assigned
<1>4. CASE Assigned(e)
    <2>1. next = [r EXCEPT !.stage = IF r.call = "assignment" THEN "answered" ELSE "row",
                           !.row = row]
        BY <1>1, <1>3, <1>4 DEF ReadRow, At
    <2>2. next \in ReadRecord /\ next.call = r.call /\ next.row = row
          /\ next.enrollment_id = e
          /\ next.stage = IF r.call = "assignment" THEN "answered" ELSE "row"
        BY <1>2, <1>4, <2>1 DEF ReadRecord, Stage
    <2>3. QED
        BY <1>1, <1>4, <2>2 DEF Continues, ReadingSound, LookupSound, Assigned
<1>5. CASE ~Assigned(e)
    <2>1. r.call = "assignment" /\ next = [r EXCEPT !.stage = "no row"]
        BY <1>1, <1>3, <1>5 DEF ReadRow, At
    <2>2. next \in ReadRecord /\ next.call = r.call /\ next.row = Absent
          /\ next.enrollment_id = e /\ next.stage = "no row"
        BY <1>1, <2>1 DEF ReadRecord, Stage
    <2>3. SeenNoRow /\ SeenHead(active_revision[enrollments[e].channel])
        BY <1>1, <1>5 DEF MomentOf, SeenNoRow, SeenHead, Assigned
    <2>4. QED
        BY <1>1, <2>1, <2>2, <2>3 DEF Continues, ReadingSound, LookupSound
<1>6. QED
    BY <1>4, <1>5

LEMMA HeadWasRead ==
    ASSUME TypeOK, NEW r \in ReadRecord, reading = r, ReadingSound(r),
           NEW next, reading' = next, next # Idle, ReadHead
    PROVE  Continues(r, next)
<1> DEFINE e == r.enrollment_id
           head == active_revision[enrollments[e].channel]
<1>1. /\ r.call = "assignment" /\ r.stage = "no row" /\ IsEnrolled(e)
      /\ r.row = Absent /\ SeenAlive /\ SeenNoRow /\ SeenHead(head)
    BY DEF ReadHead, At, ReadingSound, LookupSound
<1>2. head # NoRevision
      /\ next = [r EXCEPT !.stage = "answered", !.active_revision = head]
    BY DEF ReadHead, ActiveHead
<1>3. head \in HeadRevision
    BY <1>1 DEF TypeOK, FleetTypeOK, IsEnrolled, Enrolled, EnrollmentRow, HeadRevision
<1>4. next \in ReadRecord /\ next.call = "assignment" /\ next.stage = "answered"
      /\ next.enrollment_id = e /\ next.row = Absent /\ next.active_revision = head
    BY <1>1, <1>2, <1>3 DEF ReadRecord, Stage
<1>5. QED
    BY <1>1, <1>2, <1>4 DEF Continues, ReadingSound, LookupSound

LEMMA ManifestWasRead ==
    ASSUME NEW r \in ReadRecord, reading = r, ReadingSound(r),
           NEW next, reading' = next, next # Idle, ReadManifest
    PROVE  Continues(r, next)
<1>1. /\ r.call = "blob" /\ r.stage = "row" /\ r.row # Absent /\ LookupSound(r)
      /\ r.row.revision_id \in Referring
      /\ next = [r EXCEPT !.stage = "answered"]
    BY DEF ReadManifest, At, ReadingSound
<1>2. next \in ReadRecord /\ next.call = "blob" /\ next.stage = "answered"
      /\ next.enrollment_id = r.enrollment_id /\ next.row = r.row
    BY <1>1 DEF ReadRecord, Stage
<1>3. QED
    BY <1>1, <1>2 DEF Continues, ReadingSound, LookupSound

LEMMA ContractReportsWereRead ==
    ASSUME TypeOK, NEW r \in ReadRecord, reading = r, ReadingSound(r),
           NEW next, reading' = next, next # Idle, ReadAssignmentReports
    PROVE  Continues(r, next)
<1> DEFINE row == r.row
           a == r.enrollment_id
           results == ContractResults(row)
<1>1. /\ r.call = "rollouts" /\ r.stage = "row" /\ OwnRow(a, row)
      /\ r.report_result = NoReport
      /\ \A result \in results : SeenResult(row, result)
      /\ results = {} => LegacySound(a, row)
    BY DEF ReadAssignmentReports, At, ReadingSound, SnapshotSound
<1>2. CASE results # {}
    <2>1. PICK result \in results :
              next = [r EXCEPT !.stage = "reports", !.report_result = result]
        BY <1>2 DEF ReadAssignmentReports
    <2>2. result \in ReportResult
        BY DEF ContractResults, TypeOK, AssignmentReportRow
    <2>3. next \in ReadRecord /\ next.call = "rollouts" /\ next.stage = "reports"
          /\ next.enrollment_id = a /\ next.row = row /\ next.report_result = result
        BY <1>1, <2>1, <2>2 DEF ReadRecord, Stage
    <2>4. result # NoReport
        BY <2>2, NoReportAssumption
    <2> HIDE DEF results, row
    <2>5. QED
        BY <1>1, <2>3, <2>4 DEF Continues, ReadingSound, SnapshotSound
<1>3. CASE results = {}
    <2>1. next = [r EXCEPT !.stage = "reports"]
        BY <1>3 DEF ReadAssignmentReports
    <2>2. next \in ReadRecord /\ next.call = "rollouts" /\ next.stage = "reports"
          /\ next.enrollment_id = a /\ next.row = row /\ next.report_result = NoReport
        BY <1>1, <2>1 DEF ReadRecord, Stage
    <2>3. QED
        BY <1>1, <1>3, <2>2 DEF Continues, ReadingSound, SnapshotSound
<1>4. QED
    BY <1>2, <1>3

LEMMA LegacyReportsWereRead ==
    ASSUME TypeOK, NEW r \in ReadRecord, reading = r, ReadingSound(r),
           NEW next, reading' = next, next # Idle, ReadReports
    PROVE  Continues(r, next)
<1> DEFINE row == r.row
           a == r.enrollment_id
           results == LegacyResults(a, row)
<1>1. /\ r.call = "rollouts" /\ r.stage = "reports" /\ OwnRow(a, row)
      /\ IF r.report_result = NoReport THEN LegacySound(a, row)
         ELSE SeenResult(row, r.report_result)
    BY DEF ReadReports, At, ReadingSound, SnapshotSound
<1>2. CASE r.report_result = NoReport /\ results # {}
    <2>1. PICK result \in results :
              next = [r EXCEPT !.stage = "answered", !.report_result = result]
        BY <1>2 DEF ReadReports
    <2>2. result \in ReportResult
        BY DEF LegacyResults, TypeOK, ReportRow
    <2>3. SeenResult(row, result) \/ SeenLater(row, result)
        BY <1>1, <1>2 DEF LegacySound
    <2>4. next \in ReadRecord /\ next.call = "rollouts" /\ next.stage = "answered"
          /\ next.enrollment_id = a /\ next.row = row /\ next.report_result = result
        BY <1>1, <2>1, <2>2 DEF ReadRecord, Stage
    <2>5. result # NoReport
        BY <2>2, NoReportAssumption
    <2> HIDE DEF results, row
    <2>6. QED
        BY <1>1, <2>3, <2>4, <2>5 DEF Continues, ReadingSound, SnapshotSound
<1>3. CASE ~(r.report_result = NoReport /\ results # {})
    <2>1. next = [r EXCEPT !.stage = "answered"]
        BY <1>3 DEF ReadReports
    <2>2. next \in ReadRecord /\ next.call = "rollouts" /\ next.stage = "answered"
          /\ next.enrollment_id = a /\ next.row = row
          /\ next.report_result = r.report_result
        BY <1>1, <2>1 DEF ReadRecord, Stage
    <2>3. r.report_result = NoReport => SeenBare(row)
        BY <1>1, <1>3 DEF LegacySound
    <2>4. QED
        BY <1>1, <2>2, <2>3 DEF Continues, ReadingSound, SnapshotSound
<1>4. QED
    BY <1>2, <1>3

\* What is known of a record is known of the reader that is at it.
LEMMA SoundReader ==
    ASSUME NEW next, reading' = next, ReadingSound(next)'
    PROVE  ReadingSound(reading)'
<1>1. LookupSound(next)' => LookupSound(reading)'
    BY DEF LookupSound, SeenAlive, SeenNoRow, SeenLive, SeenHead, IsEnrolled, Enrolled,
           Assigned
<1>2. SnapshotSound(next)' => SnapshotSound(reading)'
    BY DEF SnapshotSound, OwnRow, LegacySound, SeenResult, SeenLater, SeenBare,
           ContractResults, LegacyResults
<1>3. SeenHead(next.active_revision)' => SeenHead(reading.active_revision)'
    BY DEF SeenHead
<1>4. QED
    BY <1>1, <1>2, <1>3 DEF ReadingSound

\* A lookup or a blob begins with the check of a live token.
LEMMA Authenticated ==
    ASSUME NEW call \in {"assignment", "blob"}, NEW e \in Enrollment,
           Authenticate(call, e), UNCHANGED rollouts, MomentOf(e)' \in seen'
    PROVE  /\ reading' \in ReadRecord
           /\ reading'.enrollment_id = e
           /\ ReadingSound(reading)'
<1> DEFINE next == [call |-> call, enrollment_id |-> e, stage |-> "authenticated",
                    row |-> Absent, active_revision |-> NoRevision,
                    report_result |-> NoReport]
<1>1. reading' = next /\ Live(e)
    BY DEF Authenticate, Begin
<1>2. next \in ReadRecord
    BY DEF ReadRecord, ReadCall, Stage, Addressee, HeadRevision
<1>3. /\ next.call = call /\ next.enrollment_id = e /\ next.stage = "authenticated"
      /\ next.row = Absent
    OBVIOUS
<1> HIDE DEF next
<1>4. IsEnrolled(e)' /\ Live(e)'
    BY <1>1 DEF rollouts, vars, IsEnrolled, Live, Enrolled
<1>5. SeenAlive' /\ (Assigned(e)' => SeenLive(assignments[e])')
    BY <1>4 DEF MomentOf, SeenAlive, SeenLive
<1>6. QED
    BY <1>1, <1>2, <1>3, <1>4, <1>5 DEF ReadingSound, LookupSound

\* The snapshot begins with an assignment that is there.
LEMMA AssignmentWasRead ==
    ASSUME TypeOK', AssignmentsSound', NEW a \in Addressee,
           ReadAssignments(a), UNCHANGED rollouts, MomentOf(a)' \in seen'
    PROVE  /\ reading' \in ReadRecord
           /\ reading'.enrollment_id = a
           /\ ReadingSound(reading)'
<1> DEFINE m == MomentOf(a)'
<1>1. PICK row : assignments[a] = row
    OBVIOUS
<1>2. PICK next : next = [call |-> "rollouts", enrollment_id |-> a, stage |-> "row",
                          row |-> row, active_revision |-> NoRevision,
                          report_result |-> NoReport]
    OBVIOUS
<1>3. reading' = next /\ Assigned(a)' /\ assignments'[a] = row
    BY <1>1, <1>2 DEF ReadAssignments, Begin, rollouts, vars, Assigned
<1>4. row \in AssignmentRow /\ OwnRow(a, row)'
    BY <1>3 DEF TypeOK, Assigned, AssignmentsSound, RowSound, RowMatchesDocument, OwnRow
<1>5. next \in ReadRecord
    BY <1>2, <1>4 DEF ReadRecord, ReadCall, Stage, HeadRevision
<1>6. /\ next.call = "rollouts" /\ next.enrollment_id = a /\ next.stage = "row"
      /\ next.row = row /\ next.report_result = NoReport
    BY <1>2
<1>7. /\ m \in seen' /\ m.row = row
      /\ ContractResults(row)' # {} => m.results = ContractResults(row)'
      /\ ContractResults(row)' = {} => m.results = LegacyResults(a, row)'
    BY <1>3, NextMomentResults DEF ContractResults, LegacyResults
<1>8. \A result \in ContractResults(row)' : SeenResult(row, result)'
    BY <1>7 DEF SeenResult
<1>9. ContractResults(row)' = {} => LegacySound(a, row)'
    BY <1>7 DEF LegacySound, SeenResult, SeenBare
<1>10. SnapshotSound(next)'
    BY <1>4, <1>6, <1>8, <1>9 DEF SnapshotSound
<1>11. ReadingSound(next)'
    BY <1>6, <1>10 DEF ReadingSound
<1>12. QED
    BY <1>3, <1>5, <1>6, <1>11, SoundReader

LEMMA IdleIsNoRead == \A r \in ReadRecord : r # Idle
<1> SUFFICES ASSUME NEW r \in ReadRecord PROVE r # Idle
    OBVIOUS
<1>1. r.stage \in Stage
    BY DEF ReadRecord
<1>2. Idle.stage \notin Stage
    BY DEF Idle, Stage
<1>3. QED
    BY <1>1, <1>2

LEMMA ReadersInvInit == ReadersInit => ReadersInv
BY DEF ReadersInit, ReadersInv

LEMMA ReadersInvStep ==
    /\ TypeOK /\ AssignmentsSound /\ TypeOK' /\ AssignmentsSound' /\ ReadersInv
    /\ [ReadersNext]_<<rollouts, reading, seen>>
    => ReadersInv'
<1> SUFFICES ASSUME TypeOK, AssignmentsSound, TypeOK', AssignmentsSound', ReadersInv,
                    [ReadersNext]_<<rollouts, reading, seen>>, reading' # Idle
             PROVE  reading' \in ReadRecord /\ Moment' \in seen' /\ ReadingSound(reading)'
    BY DEF ReadersInv
<1>1. [Next]_vars
    BY ReadersAreRequests, RequestsAreRollout
<1>2. Moment = MomentOf(reading.enrollment_id)
      /\ Moment' = MomentOf(reading.enrollment_id)'
    BY DEF Moment, MomentOf
<1>3. ASSUME ReadersNext
      PROVE  Moment' \in seen' /\ (reading # Idle => seen \subseteq seen')
    BY <1>3 DEF ReadersNext, Observe
<1>4. ASSUME NEW now \in ReadRecord, reading = now,
             NEW next, reading' = next, Continues(now, next),
             ReadersNext, UNCHANGED rollouts
      PROVE  reading' \in ReadRecord /\ Moment' \in seen' /\ ReadingSound(reading)'
    <2>1. next \in ReadRecord /\ ReadingSound(next)
        BY <1>4 DEF Continues
    <2>2. MomentOf(next.enrollment_id)' \in seen' /\ seen \subseteq seen'
        BY <1>2, <1>3, <1>4, IdleIsNoRead DEF MomentOf
    <2>3. ReadingSound(next)'
        BY <1>1, <2>1, <2>2, ReadingStays
    <2>4. QED
        BY <1>3, <1>4, <2>1, <2>3, SoundReader
<1>5. CASE UNCHANGED reading
    <2>0. Moment' \in seen' /\ seen \subseteq seen'
        <3>1. CASE ReadersNext
            BY <1>3, <1>5, <3>1
        <3>2. CASE UNCHANGED <<rollouts, reading, seen>>
            <4>1. Moment' = Moment
                BY <3>2 DEF Moment, ContractResults, LegacyResults, IsEnrolled, Enrolled,
                            Live, rollouts, vars, heads, reported
            <4>2. QED
                BY <3>2, <4>1 DEF ReadersInv
        <3>3. QED
            BY <3>1, <3>2
    <2>1. PICK now \in ReadRecord : reading = now /\ reading' = now
        BY <1>5 DEF ReadersInv
    <2>2. /\ ReadingSound(now) /\ seen \subseteq seen'
          /\ MomentOf(now.enrollment_id)' \in seen'
        BY <1>2, <1>5, <2>0, <2>1, IdleIsNoRead DEF ReadersInv, MomentOf
    <2>3. ReadingSound(now)'
        BY <1>1, <2>2, ReadingStays
    <2>4. QED
        BY <1>5, <2>0, <2>1, <2>3, SoundReader
<1>6. ASSUME ReadersNext, UNCHANGED rollouts, NEW call \in {"assignment", "blob"},
             NEW e \in Enrollment, Authenticate(call, e)
      PROVE  reading' \in ReadRecord /\ Moment' \in seen' /\ ReadingSound(reading)'
    <2>1. reading'.enrollment_id = e
        BY <1>6 DEF Authenticate, Begin
    <2>2. MomentOf(e)' \in seen'
        BY <1>2, <1>3, <1>6, <2>1 DEF MomentOf
    <2>3. QED
        BY <1>3, <1>6, <2>2, Authenticated
<1>7. ASSUME ReadersNext, UNCHANGED rollouts, NEW a \in Addressee, ReadAssignments(a)
      PROVE  reading' \in ReadRecord /\ Moment' \in seen' /\ ReadingSound(reading)'
    <2>1. reading'.enrollment_id = a
        BY <1>7 DEF ReadAssignments, Begin
    <2>2. MomentOf(a)' \in seen'
        BY <1>2, <1>3, <1>7, <2>1 DEF MomentOf
    <2>3. QED
        BY <1>3, <1>7, <2>2, AssignmentWasRead
<1>8. ASSUME ReadersNext, UNCHANGED rollouts,
             \/ ReadRow \/ ReadHead \/ ReadManifest
             \/ ReadAssignmentReports \/ ReadReports
      PROVE  reading' \in ReadRecord /\ Moment' \in seen' /\ ReadingSound(reading)'
    <2>1. reading # Idle
        BY <1>8 DEF ReadRow, ReadHead, ReadManifest, ReadAssignmentReports, ReadReports, At
    <2>2. PICK now \in ReadRecord : reading = now
        BY <2>1 DEF ReadersInv
    <2>3. ReadingSound(now) /\ MomentOf(now.enrollment_id) \in seen
        BY <1>2, <2>1, <2>2 DEF ReadersInv
    <2>4. PICK next : reading' = next
        OBVIOUS
    <2>5. Continues(now, next)
        BY <1>8, <2>2, <2>3, <2>4, RowWasRead, HeadWasRead, ManifestWasRead,
           ContractReportsWereRead, LegacyReportsWereRead
    <2>6. QED
        BY <1>4, <1>8, <2>2, <2>4, <2>5
<1>9. QED
    BY <1>5, <1>6, <1>7, <1>8 DEF ReadersNext, Deliver

LEMMA ReadersInvariant == ReadersSpec => []ReadersInv
BY ReadersInvInit, ReadersInvStep, ReadersSoundAlways, PTL DEF ReadersSpec

(* The stored answers and the locals of a read keep their types, and a lookup that
   answers has something to answer. *)
THEOREM ReadersTypeCorrect == ReadersSpec => []ReadersTypeOK
<1>1. RequestsInv /\ ReadersInv => ReadersTypeOK
    BY DEF RequestsInv, ReadersInv, ReadersTypeOK, Answering, At, ReadingSound
<1>2. QED
    BY <1>1, ReadersInvariant, ReadersSoundAlways, PTL

(* A lookup answers what one moment of the call would have answered to the live
   device, whatever is published, promoted and revoked between its SELECTs, except
   that a device without a row may be told the head of a moment at which it was
   revoked, or a head without the contract that came with it. *)
THEOREM LookupsAlwaysAnswerOneMoment == ReadersSpec => []LookupsAnswerOneMoment
<1>1. ReadersInv => LookupsAnswerOneMoment
    <2> SUFFICES ASSUME ReadersInv, Answering("assignment")
                 PROVE  \/ \E m \in seen : AnswerAt(m)
                        \/ RevokedDuringLookup
                        \/ PromotedDuringLookup
        BY DEF LookupsAnswerOneMoment
    <2>1. LookupSound(reading) /\ (reading.row # Absent \/ SeenHead(reading.active_revision))
        BY DEF ReadersInv, Answering, At, ReadingSound
    <2>2. CASE reading.row # Absent
        BY <2>1, <2>2 DEF LookupSound, SeenLive, AnswerAt
    <2>3. CASE reading.row = Absent
        <3>1. CASE \E m \in seen : m.row = Absent /\ m.active_revision = reading.active_revision
            BY <2>1, <2>3, <3>1 DEF LookupSound, SeenAlive, AnswerAt, RevokedDuringLookup
        <3>2. CASE ~\E m \in seen : m.row = Absent /\ m.active_revision = reading.active_revision
            BY <2>1, <2>3, <3>2 DEF SeenHead, PromotedDuringLookup
        <3>3. QED
            BY <3>1, <3>2
    <2>4. QED
        BY <2>2, <2>3
<1>2. QED
    BY <1>1, ReadersInvariant, PTL

(* A blob is handed out only to a device that was live and assigned a revision that
   refers to it at one moment of the call. *)
THEOREM BlobsAreAlwaysReachable == ReadersSpec => []BlobsAreReachable
<1>1. ReadersInv => BlobsAreReachable
    BY DEF ReadersInv, BlobsAreReachable, Answering, At, ReadingSound, LookupSound,
           SeenLive
<1>2. QED
    BY <1>1, ReadersInvariant, PTL

(* The snapshot shows an assignment with the result it had at one moment of the call,
   or with that of a schema 1 assignment of the same revision which replaced it. *)
THEOREM SnapshotsAlwaysShowOneMoment == ReadersSpec => []SnapshotsShowOneMoment
<1>1. ReadersInv => SnapshotsShowOneMoment
    BY DEF ReadersInv, SnapshotsShowOneMoment, Answering, At, ReadingSound,
           SnapshotSound, SeenResult, SeenLater, SeenBare
<1>2. QED
    BY <1>1, ReadersInvariant, PTL

============================================================================
