-------------------------- MODULE ConvergenceProofs --------------------------
(***************************************************************************)
(* Proofs about Convergence for every key registry, every set of devices   *)
(* and bundles, every clock skew and validity, and every bound.            *)
(***************************************************************************)
EXTENDS Convergence, FleetProofs

\* A step of the contracts changes the registry as Fleet says.
LEMMA ConvergenceStepIsFleetStep == Next => [FleetNext]_enrollments
<1> SUFFICES ASSUME Next PROVE [FleetNext]_enrollments
    OBVIOUS
<1>1. CASE Pair
    BY <1>1 DEF Pair, FleetNext
<1>2. ASSUME NEW e \in Enrollment, Revoke(e) PROVE FleetNext
    BY <1>2 DEF Revoke, FleetNext
<1>3. QED
    BY <1>1, <1>2 DEF Next, SignIntent, AcceptAssignment, AcceptReport, Tick

\* An enrollment keeps the columns a contract names.
LEMMA NamedColumnsStay ==
    ASSUME FleetTypeOK, [Next]_vars, NEW e \in Enrollment, Enrolled(e)
    PROVE  /\ Enrolled(e)'
           /\ enrollments'[e].logical_device_id = enrollments[e].logical_device_id
           /\ enrollments'[e].generation = enrollments[e].generation
<1>1. ASSUME NEW f \in Enrollment, RevokeEnrollment(f)
      PROVE  /\ Enrolled(e)'
             /\ enrollments'[e].logical_device_id = enrollments[e].logical_device_id
             /\ enrollments'[e].generation = enrollments[e].generation
    BY <1>1, RevocationKeepsRows
<1>2. ASSUME NEW f \in Enrollment, NEW d \in Device, NEW c \in Channel,
             NEW tags \in TagSet, NEW g \in EnrollmentGeneration,
             Enroll(f, d, c, tags, g)
      PROVE  Enrolled(e)' /\ enrollments'[e] = enrollments[e]
    BY <1>2, EnrollmentAddsRow DEF Enrolled
<1>3. [FleetNext]_enrollments
    BY ConvergenceStepIsFleetStep DEF vars
<1>4. QED
    BY <1>1, <1>2, <1>3 DEF FleetNext, Enrolled

----------------------------------------------------------------------------
(* The validators *)

\* An intent that holds was signed by a promoter: only keys held offline are good
\* for intents, and their holders sign what they decide.
LEMMA IntentsAreSigned ==
    ASSUME NEW intent, IntentHolds(intent)
    PROVE  intent \in signed
BY PromotersAreOffline DEF IntentHolds, Verified, Genuine

\* What an accepted assignment says, in the terms of its own intent.
Bounded(a) ==
    LET d == a.assignment
        i == d.release_intent
    IN  /\ i \in signed
        /\ d.signature.key_id = i.assignment_key_id
        /\ d.bundle_id = i.bundle_id
        /\ d.channel = i.channel
        /\ d.logical_device_id \in i.allowed_logical_devices
        /\ i.issued_at <= d.issued_at
        /\ d.expires_at <= i.expires_at
        /\ a.at \in i.issued_at - Skew .. i.expires_at
        /\ a.at \in d.issued_at - Skew .. d.expires_at
        /\ d.expires_at <= a.at + Skew + MaxAssignmentLife
        /\ a.row.logical_device_id = d.logical_device_id
        /\ ~a.row.revoked

\* The enrollment it names is still the installation it was accepted for.
StillAddressed(a) ==
    LET d == a.assignment
        e == d.enrollment_id
    IN  /\ Enrolled(e)
        /\ enrollments[e].logical_device_id = d.logical_device_id
        /\ enrollments[e].generation = d.enrollment_generation

LEMMA AcceptedIsBounded ==
    ASSUME ConvergenceTypeOK, NEW d \in ConvergenceAssignment(Intents),
           AssignmentHolds(d),
           NEW a, a = [assignment |-> d, at |-> now, row |-> enrollments[d.enrollment_id]]
    PROVE  /\ a \in [assignment : ConvergenceAssignment(signed), at : Time,
                     row : EnrollmentRow]
           /\ Bounded(a)
           /\ StillAddressed(a)
<1> DEFINE i == d.release_intent
           e == d.enrollment_id
<1>1. i \in signed
    BY IntentsAreSigned DEF AssignmentHolds
<1>2. d \in ConvergenceAssignment(signed)
    BY <1>1 DEF ConvergenceAssignment
<1>3. e \in Enrollment
    BY DEF ConvergenceAssignment
<1>4. /\ Enrolled(e) /\ ~enrollments[e].revoked
      /\ enrollments[e].generation = d.enrollment_generation
      /\ enrollments[e].logical_device_id = d.logical_device_id
    BY DEF AssignmentHolds, Addressed, Live
<1>5. enrollments[e] \in EnrollmentRow
    BY <1>3, <1>4 DEF ConvergenceTypeOK, FleetTypeOK, Enrolled
<1>6. /\ now \in Nat /\ Skew \in Nat
      /\ i.issued_at \in Nat /\ i.expires_at \in Nat
      /\ d.issued_at \in Nat /\ d.expires_at \in Nat
      /\ MaxAssignmentLife \in Nat
    BY <1>1, ClockAssumption
       DEF ConvergenceTypeOK, ReleaseIntent, ConvergenceAssignment, Time
<1>7. /\ i.issued_at <= now + Skew
      /\ now <= i.expires_at
      /\ d.issued_at <= now + Skew
      /\ now <= d.expires_at
      /\ d.expires_at - d.issued_at <= MaxAssignmentLife
    BY DEF AssignmentHolds, IntentHolds, Valid
<1>8. /\ now \in i.issued_at - Skew .. i.expires_at
      /\ now \in d.issued_at - Skew .. d.expires_at
      /\ d.expires_at <= now + Skew + MaxAssignmentLife
    BY <1>6, <1>7
<1>9. /\ d.signature.key_id = i.assignment_key_id
      /\ d.bundle_id = i.bundle_id
      /\ d.channel = i.channel
      /\ d.logical_device_id \in i.allowed_logical_devices
      /\ i.issued_at <= d.issued_at
      /\ d.expires_at <= i.expires_at
    BY DEF AssignmentHolds, Within
<1>10. a.assignment = d /\ a.at = now /\ a.row = enrollments[e]
    OBVIOUS
<1>11. a \in [assignment : ConvergenceAssignment(signed), at : Time,
              row : EnrollmentRow]
    BY <1>2, <1>5 DEF ConvergenceTypeOK
<1>12. Bounded(a)
    BY <1>1, <1>4, <1>8, <1>9, <1>10 DEF Bounded
<1>13. StillAddressed(a)
    BY <1>4, <1>10 DEF StillAddressed
<1>14. QED
    BY <1>11, <1>12, <1>13

----------------------------------------------------------------------------
(* The invariant *)

\* What a report was accepted on.
Traced(p) ==
    /\ Registry[p.signature.key_id].enrollment_id \in {Unbound, p.enrollment_id}
    /\ \E a \in accepted :
          /\ a.assignment = p.assignment_id
          /\ a.assignment.bundle_id = p.bundle_id
          /\ a.assignment.wave = p.wave
          /\ a.assignment.enrollment_id = p.enrollment_id
          /\ a.assignment.enrollment_generation = p.enrollment_generation

ContractsInv ==
    /\ ConvergenceTypeOK
    /\ \A a \in accepted : Bounded(a) /\ StillAddressed(a)
    /\ \A p \in reported : Traced(p)

LEMMA ContractsInit == Init => ContractsInv
BY FleetTypeInit, ClockAssumption DEF Init, ContractsInv, ConvergenceTypeOK, Time

\* Accepted assignments stay what they are while more is signed and accepted.
LEMMA AcceptedStays ==
    ASSUME ContractsInv, [Next]_vars, signed \subseteq signed', NEW a \in accepted
    PROVE  /\ a \in [assignment : ConvergenceAssignment(signed'), at : Time,
                     row : EnrollmentRow]
           /\ Bounded(a)'
           /\ StillAddressed(a)'
<1>1. a \in [assignment : ConvergenceAssignment(signed), at : Time,
             row : EnrollmentRow]
    BY DEF ContractsInv, ConvergenceTypeOK
<1>2. a.assignment \in ConvergenceAssignment(signed')
    BY <1>1 DEF ConvergenceAssignment
<1>3. a.assignment.enrollment_id \in Enrollment
    BY <1>1 DEF ConvergenceAssignment
<1>4. Bounded(a)'
    BY DEF ContractsInv, Bounded
<1>5. StillAddressed(a)'
    BY <1>3, NamedColumnsStay DEF ContractsInv, ConvergenceTypeOK, StillAddressed
<1>6. QED
    BY <1>1, <1>2, <1>4, <1>5

\* Steps that accept nothing.
LEMMA NothingAccepted ==
    ASSUME ContractsInv, [Next]_vars, UNCHANGED <<accepted, reported>>,
           signed \subseteq signed', signed' \subseteq ReleaseIntent, now' \in Time
    PROVE  ContractsInv'
<1>1. FleetTypeOK'
    BY ConvergenceStepIsFleetStep, FleetTypeStep
       DEF ContractsInv, ConvergenceTypeOK, vars
<1>2. accepted' \subseteq [assignment : ConvergenceAssignment(signed'), at : Time,
                           row : EnrollmentRow]
    BY AcceptedStays
<1>3. reported' \subseteq ConvergenceReport({a.assignment : a \in accepted'})
    BY DEF ContractsInv, ConvergenceTypeOK
<1>4. ConvergenceTypeOK'
    BY <1>1, <1>2, <1>3 DEF ConvergenceTypeOK
<1>5. \A a \in accepted' : Bounded(a)' /\ StillAddressed(a)'
    BY AcceptedStays
<1>6. \A p \in reported' : Traced(p)'
    BY DEF ContractsInv, Traced
<1>7. QED
    BY <1>4, <1>5, <1>6 DEF ContractsInv

LEMMA AcceptAssignmentStep ==
    ASSUME ContractsInv, AcceptAssignment
    PROVE  ContractsInv'
<1>1. PICK d \in ConvergenceAssignment(Intents) :
          /\ AssignmentHolds(d)
          /\ accepted' = accepted \cup
                {[assignment |-> d, at |-> now, row |-> enrollments[d.enrollment_id]]}
    BY DEF AcceptAssignment
<1> DEFINE new == [assignment |-> d, at |-> now, row |-> enrollments[d.enrollment_id]]
<1>2. UNCHANGED <<enrollments, signed, now, reported>>
    BY DEF AcceptAssignment
<1>3. /\ new \in [assignment : ConvergenceAssignment(signed), at : Time,
                  row : EnrollmentRow]
      /\ Bounded(new)
      /\ StillAddressed(new)
    BY <1>1, AcceptedIsBounded DEF ContractsInv
<1>4. \A a \in accepted' : Bounded(a)' /\ StillAddressed(a)'
    BY <1>1, <1>2, <1>3 DEF ContractsInv, Bounded, StillAddressed, Enrolled
<1>5. reported' \subseteq ConvergenceReport({a.assignment : a \in accepted'})
    <2>1. {a.assignment : a \in accepted} \subseteq {a.assignment : a \in accepted'}
        BY <1>1
    <2>2. QED
        BY <1>2, <2>1 DEF ContractsInv, ConvergenceTypeOK, ConvergenceReport
<1>6. ConvergenceTypeOK'
    BY <1>1, <1>2, <1>3, <1>5 DEF ContractsInv, ConvergenceTypeOK, FleetTypeOK
<1>7. \A p \in reported' : Traced(p)'
    BY <1>1, <1>2 DEF ContractsInv, Traced
<1>8. QED
    BY <1>4, <1>6, <1>7 DEF ContractsInv

LEMMA AcceptReportStep ==
    ASSUME ContractsInv, AcceptReport
    PROVE  ContractsInv'
<1>1. PICK a \in accepted, p \in ConvergenceReport({x.assignment : x \in accepted}) :
          /\ ReportHolds(p, a.assignment)
          /\ reported' = reported \cup {p}
    BY DEF AcceptReport
<1>2. UNCHANGED <<enrollments, signed, now, accepted>>
    BY DEF AcceptReport
<1>3. ConvergenceTypeOK'
    BY <1>1, <1>2 DEF ContractsInv, ConvergenceTypeOK, FleetTypeOK
<1>4. \A x \in accepted' : Bounded(x)' /\ StillAddressed(x)'
    BY <1>2 DEF ContractsInv, Bounded, StillAddressed, Enrolled
<1>5. Registry[p.signature.key_id].enrollment_id \in {Unbound, p.enrollment_id}
    BY <1>1 DEF ReportHolds, Verified, Speaks
<1>6. Traced(p)
    BY <1>1, <1>5 DEF ReportHolds, Traced
<1>7. \A x \in reported' : Traced(x)'
    BY <1>1, <1>2, <1>6 DEF ContractsInv, Traced
<1>8. QED
    BY <1>3, <1>4, <1>7 DEF ContractsInv

LEMMA ContractsStep == ContractsInv /\ [Next]_vars => ContractsInv'
<1> SUFFICES ASSUME ContractsInv, [Next]_vars PROVE ContractsInv'
    OBVIOUS
<1>1. signed \subseteq ReleaseIntent /\ now \in Time
    BY DEF ContractsInv, ConvergenceTypeOK
<1>2. CASE SignIntent
    BY <1>1, <1>2, NothingAccepted DEF SignIntent
<1>3. CASE Tick
    <2>1. now' \in Time
        BY <1>1, <1>3, ClockAssumption DEF Tick, Time
    <2>2. QED
        BY <1>1, <1>3, <2>1, NothingAccepted DEF Tick
<1>4. CASE Pair \/ \E e \in Enrollment : Revoke(e)
    BY <1>1, <1>4, NothingAccepted DEF Pair, Revoke
<1>5. CASE UNCHANGED vars
    BY <1>1, <1>5, NothingAccepted DEF vars
<1>6. QED
    BY <1>2, <1>3, <1>4, <1>5, AcceptAssignmentStep, AcceptReportStep DEF Next

LEMMA ContractsInvariant == Spec => []ContractsInv
BY ContractsInit, ContractsStep, PTL DEF Spec

----------------------------------------------------------------------------

(* Accepted documents have their types, and every accepted assignment carries an
   intent that was signed offline, whatever the online keys put into it. *)
THEOREM ConvergenceTypeCorrect == Spec => []ConvergenceTypeOK
BY ContractsInvariant, PTL DEF ContractsInv

(* No registry that keeps intents to offline keys lets an online key accept an
   assignment outside an intent, or for a revoked installation. *)
THEOREM AssignmentsAlwaysStayWithinTheIntent ==
    Spec => []AssignmentsStayWithinTheIntent
<1>1. ContractsInv => AssignmentsStayWithinTheIntent
    BY DEF ContractsInv, Bounded, AssignmentsStayWithinTheIntent
<1>2. QED
    BY <1>1, ContractsInvariant, PTL

(* Every accepted report leads back, through the assignment it names, to an intent
   of a promoter for the device and the bundle. *)
THEOREM ReportsAlwaysTraceToThePromoter == Spec => []ReportsTraceToThePromoter
<1>1. ContractsInv => ReportsTraceToThePromoter
    <2> SUFFICES ASSUME ContractsInv, NEW p \in reported
                 PROVE  /\ Registry[p.signature.key_id].enrollment_id
                              \in {Unbound, p.enrollment_id}
                        /\ \E a \in accepted :
                              /\ a.assignment = p.assignment_id
                              /\ a.assignment.wave = p.wave
                              /\ a.assignment.enrollment_id = p.enrollment_id
                              /\ enrollments[p.enrollment_id].generation
                                    = p.enrollment_generation
                        /\ \E i \in signed :
                              /\ p.bundle_id = i.bundle_id
                              /\ enrollments[p.enrollment_id].logical_device_id
                                    \in i.allowed_logical_devices
        BY DEF ReportsTraceToThePromoter
    <2>1. Traced(p)
        BY DEF ContractsInv
    <2>2. PICK a \in accepted :
              /\ a.assignment = p.assignment_id
              /\ a.assignment.bundle_id = p.bundle_id
              /\ a.assignment.wave = p.wave
              /\ a.assignment.enrollment_id = p.enrollment_id
              /\ a.assignment.enrollment_generation = p.enrollment_generation
        BY <2>1 DEF Traced
    <2>3. Bounded(a) /\ StillAddressed(a)
        BY DEF ContractsInv
    <2>4. QED
        BY <2>1, <2>2, <2>3 DEF Traced, Bounded, StillAddressed
<1>2. QED
    BY <1>1, ContractsInvariant, PTL

=============================================================================
