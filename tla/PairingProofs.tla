---------------------------- MODULE PairingProofs ----------------------------
(***************************************************************************)
(* Proofs about Pairing and PairingHistory for every set of codes, devices,*)
(* keys and role sets, every bound and every number of waiting calls.      *)
(***************************************************************************)
EXTENDS PairingHistory, FleetProofs, SequenceTheorems

\* A step of the protocol changes the registry as Fleet says.
LEMMA PairingStepIsFleetStep == TypeOK /\ Next => [FleetNext]_enrollments
<1> SUFFICES ASSUME TypeOK, Next PROVE [FleetNext]_enrollments
    OBVIOUS
<1>1. ASSUME NEW call \in waiting, NEW e \in Enrollment, NEW g \in EnrollmentGeneration,
             Pair(call, e, g)
      PROVE  FleetNext
    <2>1. /\ call.logical_device_id \in Device
          /\ call.channel \in Channel
          /\ call.code \in Code
        BY DEF TypeOK, Call
    <2>2. pairing_codes[call.code].target_tags \in TagSet
        BY <1>1, <2>1 DEF Pair, Acceptable, Usable, TypeOK, PairingCodeRow
    <2>3. QED
        BY <1>1, <2>1, <2>2 DEF Pair, FleetNext
<1>2. ASSUME NEW e \in Enrollment, Revoke(e) PROVE FleetNext
    BY <1>2 DEF Revoke, FleetNext
<1>3. QED
    BY <1>1, <1>2 DEF Next, CreatePairingCode, BeginPair, RefusePair, Tick

----------------------------------------------------------------------------
(* Types *)

LEMMA PairingTypeInit == Init => TypeOK
BY FleetTypeInit, PairingAssumption DEF Init, TypeOK, Time

LEMMA PurgedType ==
    ASSUME TypeOK
    PROVE  Purged \in [Code -> PairingCodeRow \cup {Absent}]
BY DEF TypeOK, Purged

LEMMA PairingTypeStep == TypeOK /\ [Next]_vars => TypeOK'
<1> SUFFICES ASSUME TypeOK, [Next]_vars PROVE TypeOK'
    OBVIOUS
<1>0. FleetTypeOK'
    BY PairingStepIsFleetStep, FleetTypeStep DEF TypeOK, vars
<1>1. ASSUME NEW k \in Code, NEW d \in Device, NEW c \in Channel, NEW roles \in RoleSet,
             NEW tags \in TagSet, NEW asked \in Time, NEW ttl \in Lifetime,
             NEW attempts \in Attempts,
             CreatePairingCode(k, d, c, roles, tags, asked, ttl, attempts)
      PROVE  TypeOK'
    <2>1. asked + ttl \in Nat /\ attempts \in Nat
        BY PairingAssumption DEF Time
    <2>2. pairing_codes' \in [Code -> PairingCodeRow \cup {Absent}]
        BY <1>1, <2>1, PurgedType DEF CreatePairingCode, PairingCodeRow
    <2>3. QED
        BY <1>0, <1>1, <2>2 DEF CreatePairingCode, TypeOK
<1>2. ASSUME NEW call \in Call, BeginPair(call) PROVE TypeOK'
    BY <1>0, <1>2 DEF BeginPair, TypeOK
<1>3. ASSUME NEW call \in waiting, NEW e \in Enrollment, NEW g \in EnrollmentGeneration,
             Pair(call, e, g)
      PROVE  TypeOK'
    <2>1. /\ call.code \in Code
          /\ call.key_id \in KeyId
          /\ call.now \in Time
        BY DEF TypeOK, Call
    <2>2. pairing_codes[call.code] \in PairingCodeRow
        BY <1>3, <2>1 DEF Pair, Acceptable, Usable, TypeOK
    <2>3. pairing_codes' \in [Code -> PairingCodeRow \cup {Absent}]
        BY <1>3, <2>2 DEF Pair, TypeOK, PairingCodeRow
    <2>4. credentials' \in [Enrollment -> Credential \cup {Absent}]
        BY <1>3, <2>1, <2>2 DEF Pair, TypeOK, PairingCodeRow, Credential
    <2>5. QED
        BY <1>0, <1>3, <2>3, <2>4 DEF Pair, TypeOK
<1>4. ASSUME NEW call \in waiting, RefusePair(call) PROVE TypeOK'
    BY <1>0, <1>4 DEF RefusePair, TypeOK
<1>5. ASSUME NEW e \in Enrollment, Revoke(e) PROVE TypeOK'
    BY <1>0, <1>5 DEF Revoke, TypeOK
<1>6. CASE Tick
    BY <1>0, <1>6, PairingAssumption DEF Tick, TypeOK, Time
<1>7. CASE UNCHANGED vars
    BY <1>0, <1>7 DEF vars, TypeOK
<1>8. QED
    BY <1>1, <1>2, <1>3, <1>4, <1>5, <1>6, <1>7 DEF Next

(* The registry, the table of codes and the calls keep their types. *)
THEOREM PairingTypeCorrect == Spec => []TypeOK
BY PairingTypeInit, PairingTypeStep, PTL DEF Spec

----------------------------------------------------------------------------
(* Refinement *)

\* By the shape of Pair and Revoke, which contain Fleet's actions.
LEMMA PairingIsFleet == Spec => FleetSpec
<1>1. Init => FleetInit
    BY DEF Init
<1>2. TypeOK /\ [Next]_vars => [FleetNext]_enrollments
    BY PairingStepIsFleetStep DEF vars
<1>3. QED
    BY <1>1, <1>2, PairingTypeCorrect, PTL DEF Spec, FleetSpec

\* PairingHistory only observes Pairing.
LEMMA HistoryObserves == HistorySpec => Spec
<1>1. HistoryInit => Init
    BY DEF HistoryInit
<1>2. [HistoryNext]_<<vars, history>> => [Next]_vars
    BY DEF HistoryNext, Next, Grant, Use, Miss, vars
<1>3. QED
    BY <1>1, <1>2, PTL DEF HistorySpec, Spec

(* The installations of a device stay numbered 1, 2, 3, ... under the pairing
   protocol. *)
THEOREM PairedGenerationsStayDense == HistorySpec => []GenerationsAreDense
BY HistoryObserves, PairingIsFleet, GenerationsStayDense, PTL

----------------------------------------------------------------------------
(* Grants.  The invariant ties the table of codes to the grants: a row stands for
   the last grant of its digits, different digits for different grants, and a row
   that is not consumed for a grant nobody has used. *)

GrantIndex == 0 .. Len(grants)

GrantsTypeOK ==
    /\ grants \in Seq(PairingCodeRow)
    /\ current \in [Code -> GrantIndex]
    /\ used \in [Enrollment -> GrantIndex]

SameGrant(row, grant) ==
    /\ row.logical_device_id = grant.logical_device_id
    /\ row.channel = grant.channel
    /\ row.roles = grant.roles
    /\ row.target_tags = grant.target_tags
    /\ row.expires_at = grant.expires_at

CodesAreGrants ==
    \A k \in Code : pairing_codes[k] # Absent =>
        /\ current[k] # 0
        /\ SameGrant(pairing_codes[k], grants[current[k]])
        /\ ~pairing_codes[k].consumed => \A e \in Enrollment : used[e] # current[k]

DigitsDiffer ==
    \A k1, k2 \in Code : current[k1] # 0 /\ current[k1] = current[k2] => k1 = k2

EnrolledByGrant == \A e \in Enrollment : Enrolled(e) <=> used[e] # 0

GrantsInv ==
    /\ GrantsTypeOK
    /\ CodesAreGrants
    /\ DigitsDiffer
    /\ EnrolledByGrant
    /\ GrantsAreUsedOnce
    /\ EnrollmentsMatchGrants

LEMMA GrantsInit == HistoryInit => GrantsInv
<1> SUFFICES ASSUME HistoryInit PROVE GrantsInv
    OBVIOUS
<1>1. GrantsTypeOK
    BY EmptySeq DEF HistoryInit, GrantsTypeOK, GrantIndex
<1>2. \A e \in Enrollment : ~Enrolled(e) /\ used[e] = 0
    BY DEF HistoryInit, Init, FleetInit, Enrolled
<1>3. CodesAreGrants
    BY DEF HistoryInit, Init, CodesAreGrants
<1>4. DigitsDiffer
    BY DEF HistoryInit, DigitsDiffer
<1>5. QED
    BY <1>1, <1>2, <1>3, <1>4
       DEF GrantsInv, EnrolledByGrant, GrantsAreUsedOnce, EnrollmentsMatchGrants

\* Steps that keep the codes, the grants, and what an enrollment was paired with.
LEMMA GrantsKept ==
    ASSUME GrantsInv, UNCHANGED <<pairing_codes, credentials, grants, current, used>>,
           \A e \in Enrollment :
               /\ Enrolled(e)' <=> Enrolled(e)
               /\ Enrolled(e) =>
                    /\ enrollments'[e].logical_device_id
                         = enrollments[e].logical_device_id
                    /\ enrollments'[e].channel = enrollments[e].channel
                    /\ enrollments'[e].target_tags = enrollments[e].target_tags
    PROVE  GrantsInv'
<1>1. GrantsTypeOK' /\ DigitsDiffer' /\ GrantsAreUsedOnce' /\ EnrolledByGrant'
    BY DEF GrantsInv, GrantsTypeOK, GrantIndex, DigitsDiffer, GrantsAreUsedOnce,
           EnrolledByGrant
<1>2. CodesAreGrants'
    BY DEF GrantsInv, CodesAreGrants, SameGrant
<1>3. EnrollmentsMatchGrants'
    BY DEF GrantsInv, EnrollmentsMatchGrants
<1>4. QED
    BY <1>1, <1>2, <1>3 DEF GrantsInv

LEMMA GrantStep ==
    ASSUME TypeOK, GrantsInv, TypeOK', NEW k \in Code, NEW d \in Device,
           NEW c \in Channel, NEW roles \in RoleSet, NEW tags \in TagSet,
           NEW asked \in Time, NEW ttl \in Lifetime, NEW attempts \in Attempts,
           Grant(k, d, c, roles, tags, asked, ttl, attempts)
    PROVE  GrantsInv'
<1> DEFINE n == Len(grants) + 1
           row == pairing_codes'[k]
<1>1. /\ pairing_codes' = [Purged EXCEPT ![k] =
              [logical_device_id |-> d, channel |-> c, roles |-> roles,
               target_tags |-> tags, expires_at |-> asked + ttl,
               attempts_remaining |-> attempts, consumed |-> FALSE]]
      /\ grants' = Append(grants, row)
      /\ current' = [current EXCEPT ![k] = Len(grants')]
      /\ UNCHANGED <<enrollments, credentials, used>>
    BY DEF Grant, CreatePairingCode
<1>2. row \in PairingCodeRow
    <2>1. asked + ttl \in Nat /\ attempts \in Nat
        BY PairingAssumption DEF Time
    <2>2. QED
        BY <1>1, <2>1, PurgedType DEF PairingCodeRow
<1>3. /\ grants' \in Seq(PairingCodeRow)
      /\ Len(grants) \in Nat
      /\ Len(grants') = n
      /\ DOMAIN grants = 1 .. Len(grants)
      /\ DOMAIN grants' = 1 .. n
      /\ \A i \in 1 .. Len(grants) : grants'[i] = grants[i]
      /\ grants'[n] = row
    BY <1>1, <1>2, AppendProperties, LenProperties DEF GrantsInv, GrantsTypeOK
<1>4. /\ current \in [Code -> 0 .. Len(grants)]
      /\ used \in [Enrollment -> 0 .. Len(grants)]
      /\ current' = [current EXCEPT ![k] = n]
    BY <1>1, <1>3 DEF GrantsInv, GrantsTypeOK, GrantIndex
<1>5. GrantsTypeOK'
    BY <1>1, <1>3, <1>4 DEF GrantsTypeOK, GrantIndex
<1>6. DigitsDiffer'
    BY <1>3, <1>4 DEF GrantsInv, DigitsDiffer
<1>7. CodesAreGrants'
    <2> SUFFICES ASSUME NEW x \in Code, pairing_codes'[x] # Absent
                 PROVE  /\ current'[x] # 0
                        /\ SameGrant(pairing_codes'[x], grants'[current'[x]])
                        /\ ~pairing_codes'[x].consumed =>
                             \A e \in Enrollment : used'[e] # current'[x]
        BY DEF CodesAreGrants, SameGrant
    <2>1. CASE x = k
        <3>1. current'[x] = n
            BY <1>4, <2>1
        <3>2. SameGrant(pairing_codes'[x], grants'[n])
            BY <1>3, <2>1 DEF SameGrant
        <3>3. \A e \in Enrollment : used'[e] # n
            BY <1>1, <1>3, <1>4
        <3>4. QED
            BY <1>3, <3>1, <3>2, <3>3
    <2>2. CASE x # k
        <3>1. pairing_codes'[x] = pairing_codes[x] /\ pairing_codes[x] # Absent
            BY <1>1, <2>2, PurgedType DEF Purged
        <3>2. current'[x] = current[x] /\ current[x] \in 0 .. Len(grants)
            BY <1>4, <2>2
        <3>3. /\ current[x] # 0
              /\ SameGrant(pairing_codes[x], grants[current[x]])
              /\ ~pairing_codes[x].consumed =>
                   \A e \in Enrollment : used[e] # current[x]
            BY <3>1 DEF GrantsInv, CodesAreGrants
        <3>4. grants'[current[x]] = grants[current[x]]
            BY <1>3, <3>2, <3>3
        <3>5. QED
            BY <1>1, <3>1, <3>2, <3>3, <3>4
    <2>3. QED
        BY <2>1, <2>2
<1>8. EnrolledByGrant' /\ GrantsAreUsedOnce'
    BY <1>1 DEF GrantsInv, EnrolledByGrant, GrantsAreUsedOnce, Enrolled
<1>9. EnrollmentsMatchGrants'
    <2> SUFFICES ASSUME NEW e \in Enrollment, Enrolled(e)
                 PROVE  used[e] \in DOMAIN grants' /\ grants'[used[e]] = grants[used[e]]
        BY <1>1 DEF GrantsInv, EnrollmentsMatchGrants, Enrolled
    <2>1. QED
        BY <1>3 DEF GrantsInv, EnrollmentsMatchGrants
<1>10. QED
    BY <1>5, <1>6, <1>7, <1>8, <1>9 DEF GrantsInv

LEMMA UseStep ==
    ASSUME TypeOK, GrantsInv, NEW call \in waiting, NEW e \in Enrollment,
           NEW g \in EnrollmentGeneration, Use(call, e, g)
    PROVE  GrantsInv'
<1> DEFINE k == call.code
           pairing == pairing_codes[k]
<1>1. k \in Code /\ call.logical_device_id \in Device /\ call.channel \in Channel
    BY DEF TypeOK, Call
<1>2. /\ pairing \in PairingCodeRow
      /\ pairing # Absent
      /\ ~pairing.consumed
      /\ pairing.expires_at >= call.now
      /\ pairing.logical_device_id = call.logical_device_id
      /\ pairing.channel = call.channel
    BY <1>1 DEF Use, Pair, Acceptable, Usable, Meant, TypeOK
<1>3. /\ Enroll(e, call.logical_device_id, call.channel, pairing.target_tags, g)
      /\ credentials' = [credentials EXCEPT ![e] =
             [key_id |-> call.key_id, roles |-> pairing.roles,
              created_at |-> call.now]]
      /\ pairing_codes' = [pairing_codes EXCEPT ![k].consumed = TRUE]
      /\ used' = [used EXCEPT ![e] = current[k]]
      /\ UNCHANGED <<grants, current>>
    BY DEF Use, Pair
<1>4. pairing.target_tags \in TagSet
    BY <1>2 DEF PairingCodeRow
<1>5. /\ ~Enrolled(e)
      /\ Enrolled(e)'
      /\ \A x \in Enrollment \ {e} : enrollments'[x] = enrollments[x]
    BY <1>1, <1>3, <1>4, EnrollmentAddsRow DEF TypeOK
<1>6. /\ enrollments'[e].logical_device_id = call.logical_device_id
      /\ enrollments'[e].channel = call.channel
      /\ enrollments'[e].target_tags = pairing.target_tags
    BY <1>3 DEF Enroll, TypeOK, FleetTypeOK
<1>7. /\ current[k] # 0
      /\ current[k] \in GrantIndex
      /\ SameGrant(pairing, grants[current[k]])
      /\ \A x \in Enrollment : used[x] # current[k]
    BY <1>1, <1>2 DEF GrantsInv, GrantsTypeOK, CodesAreGrants
<1>8. /\ used'[e] = current[k]
      /\ \A x \in Enrollment \ {e} : used'[x] = used[x]
    BY <1>3 DEF GrantsInv, GrantsTypeOK
<1>9. GrantsTypeOK'
    BY <1>3, <1>7 DEF GrantsInv, GrantsTypeOK, GrantIndex
<1>10. DigitsDiffer'
    BY <1>3 DEF GrantsInv, DigitsDiffer
<1>11. EnrolledByGrant'
    <2> SUFFICES ASSUME NEW x \in Enrollment PROVE Enrolled(x)' <=> used'[x] # 0
        BY DEF EnrolledByGrant
    <2>1. CASE x = e
        BY <1>5, <1>7, <1>8, <2>1
    <2>2. CASE x # e
        BY <1>5, <1>8, <2>2 DEF GrantsInv, EnrolledByGrant, Enrolled
    <2>3. QED
        BY <2>1, <2>2
<1>12. GrantsAreUsedOnce'
    BY <1>7, <1>8 DEF GrantsInv, GrantsAreUsedOnce
<1>13. CodesAreGrants'
    <2> SUFFICES ASSUME NEW x \in Code, pairing_codes'[x] # Absent
                 PROVE  /\ current[x] # 0
                        /\ SameGrant(pairing_codes'[x], grants[current[x]])
                        /\ ~pairing_codes'[x].consumed =>
                             \A f \in Enrollment : used'[f] # current[x]
        BY <1>3 DEF CodesAreGrants, SameGrant
    <2>1. CASE x = k
        <3>1. pairing_codes'[x] = [pairing EXCEPT !.consumed = TRUE]
            BY <1>1, <1>3, <2>1 DEF TypeOK
        <3>2. pairing_codes'[x].consumed
            BY <1>2, <3>1 DEF PairingCodeRow
        <3>3. SameGrant(pairing_codes'[x], grants[current[x]])
            BY <1>2, <1>7, <2>1, <3>1 DEF SameGrant, PairingCodeRow
        <3>4. QED
            BY <1>7, <2>1, <3>2, <3>3
    <2>2. CASE x # k
        <3>1. pairing_codes'[x] = pairing_codes[x]
            BY <1>3, <2>2 DEF TypeOK
        <3>2. current[x] # 0 /\ current[x] # current[k]
            BY <1>1, <2>2, <3>1 DEF GrantsInv, CodesAreGrants, DigitsDiffer
        <3>3. ~pairing_codes'[x].consumed =>
                  \A f \in Enrollment : used'[f] # current[x]
            BY <1>8, <3>1, <3>2 DEF GrantsInv, CodesAreGrants
        <3>4. QED
            BY <3>1, <3>2, <3>3 DEF GrantsInv, CodesAreGrants
    <2>3. QED
        BY <2>1, <2>2
<1>14. EnrollmentsMatchGrants'
    <2> SUFFICES ASSUME NEW x \in Enrollment, Enrolled(x)'
                 PROVE  /\ used'[x] \in DOMAIN grants
                        /\ enrollments'[x].logical_device_id
                              = grants[used'[x]].logical_device_id
                        /\ enrollments'[x].channel = grants[used'[x]].channel
                        /\ enrollments'[x].target_tags = grants[used'[x]].target_tags
                        /\ credentials'[x].roles = grants[used'[x]].roles
                        /\ credentials'[x].created_at <= grants[used'[x]].expires_at
        BY <1>3 DEF EnrollmentsMatchGrants
    <2>1. CASE x = e
        <3>1. used'[x] \in DOMAIN grants
            BY <1>7, <1>8, <2>1, LenProperties DEF GrantsInv, GrantsTypeOK, GrantIndex
        <3>2. credentials'[x].roles = pairing.roles /\ credentials'[x].created_at = call.now
            BY <1>3, <2>1 DEF TypeOK
        <3>3. call.now \in Nat /\ pairing.expires_at \in Nat
            BY <1>2 DEF TypeOK, Call, Time, PairingCodeRow
        <3>4. QED
            BY <1>2, <1>6, <1>7, <1>8, <2>1, <3>1, <3>2, <3>3 DEF SameGrant
    <2>2. CASE x # e
        <3>1. credentials'[x] = credentials[x] /\ enrollments'[x] = enrollments[x]
            BY <1>3, <1>5, <2>2 DEF TypeOK
        <3>2. Enrolled(x)
            BY <3>1 DEF Enrolled
        <3>3. QED
            BY <1>8, <2>2, <3>1, <3>2 DEF GrantsInv, EnrollmentsMatchGrants
    <2>3. QED
        BY <2>1, <2>2
<1>15. QED
    BY <1>9, <1>10, <1>11, <1>12, <1>13, <1>14 DEF GrantsInv

LEMMA GrantsStep ==
    TypeOK /\ TypeOK' /\ GrantsInv /\ [HistoryNext]_<<vars, history>> => GrantsInv'
<1> SUFFICES ASSUME TypeOK, TypeOK', GrantsInv, [HistoryNext]_<<vars, history>>
             PROVE  GrantsInv'
    OBVIOUS
<1>1. ASSUME UNCHANGED <<pairing_codes, enrollments, credentials, grants, current, used>>
      PROVE  GrantsInv'
    BY <1>1, GrantsKept DEF Enrolled
<1>2. ASSUME NEW call \in waiting, Miss(call) PROVE GrantsInv'
    BY <1>1, <1>2 DEF Miss, RefusePair
<1>3. ASSUME NEW e \in Enrollment, Revoke(e), UNCHANGED history PROVE GrantsInv'
    <2>1. ASSUME NEW x \in Enrollment, Enrolled(x)
          PROVE  /\ enrollments'[x].channel = enrollments[x].channel
                 /\ enrollments'[x].target_tags = enrollments[x].target_tags
        BY <1>3, <2>1 DEF Revoke, RevokeEnrollment, TypeOK, FleetTypeOK, Enrolled,
                          EnrollmentRow
    <2>2. QED
        BY <1>3, <2>1, RevocationKeepsRows, GrantsKept DEF Revoke, TypeOK, history
<1>4. CASE UNCHANGED history /\ (Tick \/ \E call \in Call : BeginPair(call))
    BY <1>1, <1>4 DEF Tick, BeginPair, history
<1>5. CASE UNCHANGED <<vars, history>>
    BY <1>1, <1>5 DEF vars, history
<1>6. QED
    BY <1>2, <1>3, <1>4, <1>5, GrantStep, UseStep DEF HistoryNext

LEMMA GrantsInvariant == HistorySpec => []GrantsInv
<1>1. HistorySpec => []TypeOK
    BY HistoryObserves, PairingTypeCorrect, PTL
<1>2. QED
    BY <1>1, GrantsInit, GrantsStep, PTL DEF HistorySpec

(* One creation of a code enrolls at most one installation, however many calls
   with it wait for the lock and whatever is purged and drawn again meanwhile. *)
THEOREM GrantsAreAlwaysUsedOnce == HistorySpec => []GrantsAreUsedOnce
BY GrantsInvariant, PTL DEF GrantsInv

(* An installation has the device, channel, tags and roles of the grant it used,
   and asked before that grant expired. *)
THEOREM EnrollmentsAlwaysMatchGrants == HistorySpec => []EnrollmentsMatchGrants
BY GrantsInvariant, PTL DEF GrantsInv

=============================================================================
