---------------------------- MODULE FleetProofs ----------------------------
(***************************************************************************)
(* Proofs about Fleet for every set of enrollments, devices, channels and  *)
(* tag sets, and every bound on installations.                             *)
(***************************************************************************)
EXTENDS Fleet, Integers, TLAPS

LEMMA FleetTypeInit == FleetInit => FleetTypeOK
BY DEF FleetInit, FleetTypeOK

LEMMA FleetTypeStep == FleetTypeOK /\ [FleetNext]_enrollments => FleetTypeOK'
<1> SUFFICES ASSUME FleetTypeOK, [FleetNext]_enrollments PROVE FleetTypeOK'
    OBVIOUS
<1>1. ASSUME NEW e \in Enrollment, RevokeEnrollment(e) PROVE FleetTypeOK'
    <2>1. enrollments[e] \in EnrollmentRow
        BY <1>1 DEF FleetTypeOK, RevokeEnrollment, Enrolled
    <2>2. QED
        BY <1>1, <2>1 DEF FleetTypeOK, RevokeEnrollment, EnrollmentRow
<1>2. ASSUME NEW e \in Enrollment, NEW d \in Device, NEW c \in Channel,
             NEW tags \in TagSet, NEW g \in EnrollmentGeneration,
             Enroll(e, d, c, tags, g)
      PROVE  FleetTypeOK'
    BY <1>2 DEF FleetTypeOK, Enroll, EnrollmentRow
<1>3. QED
    BY <1>1, <1>2 DEF FleetNext, FleetTypeOK

(* The registry keeps its schema. *)
THEOREM FleetTypeCorrect == FleetSpec => []FleetTypeOK
BY FleetTypeInit, FleetTypeStep, PTL DEF FleetSpec

----------------------------------------------------------------------------
(* Generations *)

\* Revoking keeps what the numbering depends on.
LEMMA RevocationKeepsRows ==
    ASSUME FleetTypeOK, NEW e \in Enrollment, RevokeEnrollment(e),
           NEW x \in Enrollment
    PROVE  /\ Enrolled(x)' <=> Enrolled(x)
           /\ Enrolled(x) =>
                /\ enrollments'[x].logical_device_id = enrollments[x].logical_device_id
                /\ enrollments'[x].generation = enrollments[x].generation
BY AbsentEnrollmentAssumption
   DEF FleetTypeOK, RevokeEnrollment, Enrolled, EnrollmentRow

\* The new row, and every other row, after an enrollment.
LEMMA EnrollmentAddsRow ==
    ASSUME FleetTypeOK, NEW e \in Enrollment, NEW d \in Device, NEW c \in Channel,
           NEW tags \in TagSet, NEW g \in EnrollmentGeneration,
           Enroll(e, d, c, tags, g)
    PROVE  /\ ~Enrolled(e)
           /\ Enrolled(e)'
           /\ enrollments'[e].logical_device_id = d
           /\ enrollments'[e].generation = g
           /\ \A x \in Enrollment \ {e} : enrollments'[x] = enrollments[x]
<1>1. enrollments'[e] \in EnrollmentRow
    BY DEF Enroll, FleetTypeOK, EnrollmentRow
<1>2. QED
    BY <1>1, AbsentEnrollmentAssumption DEF Enroll, FleetTypeOK, Enrolled

LEMMA DenseInit == FleetInit => GenerationsAreDense
BY DEF FleetInit, GenerationsAreDense, GenerationsAreUnique,
       NoGenerationIsSkipped, Enrolled

LEMMA DenseStep ==
    FleetTypeOK /\ GenerationsAreDense /\ [FleetNext]_enrollments
        => GenerationsAreDense'
<1> SUFFICES ASSUME FleetTypeOK, GenerationsAreDense, [FleetNext]_enrollments
             PROVE  GenerationsAreDense'
    OBVIOUS
<1> USE DEF GenerationsAreDense
<1>1. CASE UNCHANGED enrollments
    BY <1>1 DEF GenerationsAreUnique, NoGenerationIsSkipped, Enrolled, Installations
<1>2. ASSUME NEW e \in Enrollment, RevokeEnrollment(e) PROVE GenerationsAreDense'
    <2>1. GenerationsAreUnique'
        BY <1>2, RevocationKeepsRows DEF GenerationsAreUnique
    <2>2. NoGenerationIsSkipped'
        BY <1>2, RevocationKeepsRows DEF NoGenerationIsSkipped, Installations
    <2>3. QED
        BY <2>1, <2>2
<1>3. ASSUME NEW e \in Enrollment, NEW d \in Device, NEW c \in Channel,
             NEW tags \in TagSet, NEW g \in EnrollmentGeneration,
             Enroll(e, d, c, tags, g)
      PROVE  GenerationsAreDense'
    <2>1. /\ ~Enrolled(e)
          /\ Enrolled(e)'
          /\ enrollments'[e].logical_device_id = d
          /\ enrollments'[e].generation = g
          /\ \A x \in Enrollment \ {e} : enrollments'[x] = enrollments[x]
        BY <1>3, EnrollmentAddsRow
    <2>2. \A x \in Installations(d) : enrollments[x].generation \in Int
                                      /\ enrollments[x].generation < g
        BY <1>3 DEF Enroll, IsNextGeneration, Installations, Enrolled, FleetTypeOK,
                    EnrollmentRow, EnrollmentGeneration
    <2>3. GenerationsAreUnique'
        BY <2>1, <2>2 DEF GenerationsAreUnique, Installations, Enrolled
    <2>4. ASSUME NEW f \in Enrollment, Enrolled(f)',
                 NEW h \in 1 .. enrollments'[f].generation
          PROVE  (\E x \in Installations(enrollments[f].logical_device_id) :
                     enrollments[x].generation = h)'
        <3>1. CASE f # e
            <4>1. PICK x \in Installations(enrollments[f].logical_device_id) :
                      enrollments[x].generation = h
                BY <2>1, <2>4, <3>1 DEF NoGenerationIsSkipped, Enrolled
            <4>2. QED
                BY <2>1, <3>1, <4>1 DEF Installations, Enrolled
        <3>2. CASE f = e /\ h = g
            BY <2>1, <3>2 DEF Installations
        <3>3. CASE f = e /\ h # g
            <4>1. g \in Int /\ h \in Int /\ 1 <= h /\ h <= g - 1
                BY <2>1, <2>4, <3>3 DEF EnrollmentGeneration
            <4>2. PICK y \in Installations(d) : enrollments[y].generation = g - 1
                BY <1>3, <4>1 DEF Enroll, IsNextGeneration
            <4>3. PICK x \in Installations(d) : enrollments[x].generation = h
                BY <4>1, <4>2 DEF NoGenerationIsSkipped, Installations
            <4>4. QED
                BY <2>1, <3>3, <4>3 DEF Installations, Enrolled
        <3>4. QED
            BY <3>1, <3>2, <3>3
    <2>5. QED
        BY <2>3, <2>4 DEF NoGenerationIsSkipped
<1>4. QED
    BY <1>1, <1>2, <1>3 DEF FleetNext

(* A device's installations are numbered without gap or repetition, so that a
   (device, generation) pair means one enrollment for ever. *)
THEOREM GenerationsStayDense == FleetSpec => []GenerationsAreDense
BY FleetTypeCorrect, DenseInit, DenseStep, PTL DEF FleetSpec

(* An enrollment keeps what it was paired with, and revocation is for good. *)
THEOREM RowsStayFrozen == FleetSpec => RowsAreFrozen
<1>1. FleetTypeOK /\ [FleetNext]_enrollments =>
        [\A e \in Enrollment : Enrolled(e) =>
            /\ Enrolled(e)'
            /\ enrollments'[e] \in {enrollments[e],
                                    [enrollments[e] EXCEPT !.revoked = TRUE]}
        ]_enrollments
    <2> SUFFICES ASSUME FleetTypeOK, FleetNext, NEW e \in Enrollment, Enrolled(e)
                 PROVE  /\ Enrolled(e)'
                        /\ enrollments'[e] \in {enrollments[e],
                               [enrollments[e] EXCEPT !.revoked = TRUE]}
        OBVIOUS
    <2>1. ASSUME NEW f \in Enrollment, RevokeEnrollment(f)
          PROVE  /\ Enrolled(e)'
                 /\ enrollments'[e] \in {enrollments[e],
                        [enrollments[e] EXCEPT !.revoked = TRUE]}
        BY <2>1, RevocationKeepsRows DEF RevokeEnrollment, FleetTypeOK
    <2>2. ASSUME NEW f \in Enrollment, NEW d \in Device, NEW c \in Channel,
                 NEW tags \in TagSet, NEW g \in EnrollmentGeneration,
                 Enroll(f, d, c, tags, g)
          PROVE  Enrolled(e)' /\ enrollments'[e] = enrollments[e]
        BY <2>2, EnrollmentAddsRow DEF Enrolled
    <2>3. QED
        BY <2>1, <2>2 DEF FleetNext
<1>2. QED
    BY <1>1, FleetTypeCorrect, PTL DEF FleetSpec, RowsAreFrozen

============================================================================
