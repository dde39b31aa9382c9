------------------------------- MODULE Fleet -------------------------------
(***************************************************************************)
(* The enrollment registry as the rollout handlers see it: the rows of the *)
(* SQLite table `enrollments` cut down to the columns they read.  A row is *)
(* written once, by `pair`, and afterwards only its `revoked` flag rises.  *)
(* Pairing.tla has the protocol that creates the rows and implements this  *)
(* module.                                                                 *)
(***************************************************************************)
EXTENDS Naturals

CONSTANTS
    Enrollment,        \* random enrollment ids, "enr:" + token_urlsafe(18)
    Device,            \* logical device ids
    Channel,           \* channel names
    TagSet,            \* sets of target tags, each one a value here
    MaxInstallations,  \* bound: installations of one device
    Absent             \* the value of a table at a key with no row

ASSUME InstallationsAssumption == MaxInstallations \in Nat \ {0}

VARIABLE enrollments   \* enrollment id -> row or Absent

EnrollmentGeneration == 1 .. MaxInstallations

\* The columns of an enrollment row that decide what the device may receive.
EnrollmentRow ==
    [logical_device_id : Device, generation : EnrollmentGeneration,
     channel : Channel, target_tags : TagSet, revoked : BOOLEAN]

ASSUME AbsentEnrollmentAssumption == Absent \notin EnrollmentRow

Enrolled(e) == enrollments[e] # Absent

Live(e) == Enrolled(e) /\ ~enrollments[e].revoked

Installations(d) ==
    {e \in Enrollment : Enrolled(e) /\ enrollments[e].logical_device_id = d}

\* Fault: SELECT COUNT of the live installations, where the code takes MAX.
NextGenerationOfLive(d, g) ==
    LET live == {e \in Installations(d) : Live(e)}
    IN  g \in 1 .. MaxInstallations
        /\ g - 1 \in {enrollments[e].generation : e \in live} \cup {0}
        /\ \A e \in live : enrollments[e].generation < g

\* g is COALESCE(MAX(generation), 0) + 1 over the installations of d.
IsNextGeneration(d, g) ==
    /\ g \in EnrollmentGeneration
    /\ g - 1 \in {enrollments[e].generation : e \in Installations(d)} \cup {0}
    /\ \A e \in Installations(d) : enrollments[e].generation < g

----------------------------------------------------------------------------

FleetInit == enrollments = [e \in Enrollment |-> Absent]

\* The effect of a successful `pair`: a new row under a fresh random id.
Enroll(e, d, c, tags, g) ==
    /\ ~Enrolled(e)
    /\ IsNextGeneration(d, g)
    /\ enrollments' = [enrollments EXCEPT ![e] =
          [logical_device_id |-> d, generation |-> g, channel |-> c,
           target_tags |-> tags, revoked |-> FALSE]]

\* `revoke_enrollment`; revoking twice succeeds and changes nothing.
RevokeEnrollment(e) ==
    /\ Enrolled(e)
    /\ enrollments' = [enrollments EXCEPT ![e].revoked = TRUE]

FleetNext ==
    \E e \in Enrollment :
        \/ RevokeEnrollment(e)
        \/ \E d \in Device, c \in Channel, tags \in TagSet,
              g \in EnrollmentGeneration : Enroll(e, d, c, tags, g)

FleetSpec == FleetInit /\ [][FleetNext]_enrollments

----------------------------------------------------------------------------

FleetTypeOK == enrollments \in [Enrollment -> EnrollmentRow \cup {Absent}]

\* No two installations of a device share a number ...
GenerationsAreUnique ==
    \A e, f \in Enrollment :
        /\ Enrolled(e) /\ Enrolled(f)
        /\ enrollments[e].logical_device_id = enrollments[f].logical_device_id
        /\ enrollments[e].generation = enrollments[f].generation
        => e = f

\* ... and none is skipped.
NoGenerationIsSkipped ==
    \A e \in Enrollment : Enrolled(e) =>
        \A g \in 1 .. enrollments[e].generation :
            \E x \in Installations(enrollments[e].logical_device_id) :
                enrollments[x].generation = g

(* The installations of a device are numbered 1, 2, 3, ..., revoked ones
   included: a signed document that names (device, generation) can only ever
   mean one enrollment.  `pair` computes the number under the write lock,
   store.py 755-763. *)
GenerationsAreDense == GenerationsAreUnique /\ NoGenerationIsSkipped

(* An enrollment keeps the device, generation, channel and tags it was paired
   with, and a revoked one is never live again. *)
RowsAreFrozen ==
    [][\A e \in Enrollment : Enrolled(e) =>
        /\ Enrolled(e)'
        /\ enrollments'[e] \in {enrollments[e],
                                [enrollments[e] EXCEPT !.revoked = TRUE]}
      ]_enrollments

============================================================================
