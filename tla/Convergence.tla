---------------------------- MODULE Convergence ----------------------------
(***************************************************************************)
(* The contracts of the next rollout phase.  An offline promoter signs a   *)
(* release intent; an online key, which the intent delegates to, signs     *)
(* assignments that carry the intent; the device reports on an assignment. *)
(* The validators of convergence.py are pure functions; what is accepted   *)
(* here is what they return, given the registry, the enrollment's row and  *)
(* the clock of that moment.  Neither tables nor endpoints exist for the   *)
(* contracts yet, so the caller that keeps them is external.               *)
(*                                                                         *)
(* A document is its own content id.  `wave` is rollout_id with wave_id.   *)
(***************************************************************************)
EXTENDS Fleet, Signatures, FiniteSets

CONSTANTS
    Bundle,             \* content-addressed bundles
    Wave,               \* rollouts and their waves
    Skew,               \* how far issued_at may be ahead of the clock: 300 s
    MaxIntentLife,      \* validity of an intent: 30 days
    MaxAssignmentLife,  \* validity of an assignment: 24 hours
    MaxTime,            \* bound: the last moment
    MaxIntents,         \* bound: intents signed
    MaxAccepted         \* bound: assignments accepted

ASSUME ClockAssumption ==
    /\ Skew \in Nat /\ MaxIntentLife \in Nat /\ MaxAssignmentLife \in Nat
    /\ MaxTime \in Nat /\ MaxIntents \in Nat /\ MaxAccepted \in Nat

\* How the keys are handed out: intents are a matter of offline promoters.
ASSUME PromotersAreOffline ==
    \A k \in DOMAIN Registry :
        "release_intent" \in Registry[k].allowed_kinds => k \in Offline

VARIABLES
    now,       \* the clock
    accepted,  \* history: assignments accepted, when and for which row
    reported   \* history: reports accepted, and about which of them

vars == <<enrollments, signed, now, accepted, reported>>

Time == 0 .. MaxTime

ReleaseIntent ==
    [bundle_id : Bundle, channel : Channel, assignment_key_id : KeyId,
     allowed_logical_devices : SUBSET Device \ {{}},
     issued_at : Time, expires_at : Time, signature : Signature]

ConvergenceAssignment(intents) ==
    [release_intent : intents, bundle_id : Bundle, enrollment_id : Enrollment,
     enrollment_generation : EnrollmentGeneration, logical_device_id : Device,
     channel : Channel, target_tags : TagSet, wave : Wave,
     issued_at : Time, expires_at : Time, signature : Signature]

ConvergenceReport(assignments) ==
    [assignment_id : assignments, bundle_id : Bundle, enrollment_id : Enrollment,
     enrollment_generation : EnrollmentGeneration, wave : Wave,
     signature : Signature]

Init ==
    /\ FleetInit
    /\ signed = {}
    /\ now = 0
    /\ accepted = {}
    /\ reported = {}

----------------------------------------------------------------------------
(* The validators *)

Valid(document, life) ==
    /\ document.issued_at < document.expires_at
    /\ document.expires_at - document.issued_at <= life
    /\ document.issued_at <= now + Skew
    /\ now <= document.expires_at

\* `validate_release_intent`
IntentHolds(intent) ==
    Verified("release_intent", intent) /\ Valid(intent, MaxIntentLife)

\* Fault: the device only has to be the enrollment's.
WithinButAnyDevice(d, intent) ==
    /\ d.signature.key_id = intent.assignment_key_id
    /\ d.bundle_id = intent.bundle_id
    /\ d.channel = intent.channel
    /\ intent.issued_at <= d.issued_at
    /\ d.expires_at <= intent.expires_at

\* The bounds an assignment may not exceed.
Within(d, intent) ==
    /\ d.signature.key_id = intent.assignment_key_id
    /\ d.bundle_id = intent.bundle_id
    /\ d.channel = intent.channel
    /\ d.logical_device_id \in intent.allowed_logical_devices
    /\ intent.issued_at <= d.issued_at
    /\ d.expires_at <= intent.expires_at

\* The enrollment is eligible.
Addressed(d) ==
    LET e == d.enrollment_id
    IN  /\ Live(e)
        /\ enrollments[e].generation = d.enrollment_generation
        /\ enrollments[e].logical_device_id = d.logical_device_id
        /\ enrollments[e].channel = d.channel
        /\ enrollments[e].target_tags = d.target_tags

\* `validate_convergence_assignment`
AssignmentHolds(d) ==
    /\ Verified("convergence_assignment", d)
    /\ IntentHolds(d.release_intent)
    /\ Within(d, d.release_intent)
    /\ Addressed(d)
    /\ Valid(d, MaxAssignmentLife)

\* `validate_convergence_report`
ReportHolds(p, d) ==
    /\ Verified("convergence_report", p)
    /\ p.assignment_id = d
    /\ p.bundle_id = d.bundle_id
    /\ p.enrollment_id = d.enrollment_id
    /\ p.enrollment_generation = d.enrollment_generation
    /\ p.wave = d.wave

----------------------------------------------------------------------------
(* The actors *)

SignIntent ==
    /\ Cardinality(signed) < MaxIntents
    /\ \E intent \in ReleaseIntent :
          /\ intent.signature.key_id \in Offline
          /\ signed' = signed \cup {intent}
    /\ UNCHANGED <<enrollments, now, accepted, reported>>

\* What is put into assignments as their intent: those that were signed offline,
\* and such as the online key would like them, signed by itself.
Intents ==
    signed \cup
    {[i EXCEPT !.signature.key_id = i.assignment_key_id,
               !.allowed_logical_devices = Device] : i \in signed}

AcceptAssignment ==
    /\ Cardinality(accepted) < MaxAccepted
    /\ \E d \in ConvergenceAssignment(Intents) :
          /\ AssignmentHolds(d)
          /\ accepted' = accepted \cup
                {[assignment |-> d, at |-> now, row |-> enrollments[d.enrollment_id]]}
    /\ UNCHANGED <<enrollments, signed, now, reported>>

AcceptReport ==
    /\ \E a \in accepted, p \in ConvergenceReport({x.assignment : x \in accepted}) :
          /\ ReportHolds(p, a.assignment)
          /\ reported' = reported \cup {p}
    /\ UNCHANGED <<enrollments, signed, now, accepted>>

Pair ==
    /\ \E e \in Enrollment, d \in Device, c \in Channel, tags \in TagSet,
          g \in EnrollmentGeneration : Enroll(e, d, c, tags, g)
    /\ UNCHANGED <<signed, now, accepted, reported>>

Revoke(e) ==
    /\ RevokeEnrollment(e)
    /\ UNCHANGED <<signed, now, accepted, reported>>

Tick ==
    /\ now < MaxTime
    /\ now' = now + 1
    /\ UNCHANGED <<enrollments, signed, accepted, reported>>

Next ==
    \/ SignIntent
    \/ AcceptAssignment
    \/ AcceptReport
    \/ Pair
    \/ \E e \in Enrollment : Revoke(e)
    \/ Tick

Spec == Init /\ [][Next]_vars

----------------------------------------------------------------------------

ConvergenceTypeOK ==
    /\ FleetTypeOK
    /\ signed \subseteq ReleaseIntent
    /\ now \in Time
    /\ accepted \subseteq [assignment : ConvergenceAssignment(signed), at : Time,
                           row : EnrollmentRow]
    /\ reported \subseteq ConvergenceReport({a.assignment : a \in accepted})

(* Whatever the online keys sign, each accepted assignment is within an intent
   that a promoter signed offline: the delegated key, the bundle, the channel, a
   device of the list and a window inside that of the intent (README "The online key
   cannot change those bounds").  It was accepted at a moment of both windows, and
   runs out within a day of that moment, the skew of the clocks aside; and for an
   installation that was not yet revoked, though the intent is for the device. *)
AssignmentsStayWithinTheIntent ==
    \A a \in accepted :
        /\ \E i \in signed :
              /\ a.assignment.signature.key_id = i.assignment_key_id
              /\ a.assignment.bundle_id = i.bundle_id
              /\ a.assignment.channel = i.channel
              /\ a.row.logical_device_id \in i.allowed_logical_devices
              /\ i.issued_at <= a.assignment.issued_at
              /\ a.assignment.expires_at <= i.expires_at
              /\ a.at \in i.issued_at - Skew .. i.expires_at
        /\ a.at \in a.assignment.issued_at - Skew .. a.assignment.expires_at
        /\ a.assignment.expires_at <= a.at + Skew + MaxAssignmentLife
        /\ ~a.row.revoked

(* An accepted report comes from the one installation that the assignment it names
   was accepted for, and through it, although the device's key and the promoter's
   know nothing of each other, from a bundle that a promoter intended for the
   device (README "a device report is bound to the exact assignment, enrollment
   generation, rollout and wave"). *)
ReportsTraceToThePromoter ==
    \A p \in reported :
        /\ Registry[p.signature.key_id].enrollment_id \in {Unbound, p.enrollment_id}
        /\ \E a \in accepted :
              /\ a.assignment = p.assignment_id
              /\ a.assignment.wave = p.wave
              /\ a.assignment.enrollment_id = p.enrollment_id
              /\ enrollments[p.enrollment_id].generation = p.enrollment_generation
        /\ \E i \in signed :
              /\ p.bundle_id = i.bundle_id
              /\ enrollments[p.enrollment_id].logical_device_id
                    \in i.allowed_logical_devices

============================================================================
