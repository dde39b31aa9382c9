--------------------------- MODULE SessionsProofs ---------------------------
(***************************************************************************)
(* Proofs about Sessions for every set of installations, every number of   *)
(* key pairs, changes and requests on their way, and every interleaving.   *)
(***************************************************************************)
EXTENDS Sessions, FleetProofs

\* What a step of a session leaves in the registry is a step of the registry.
LEMMA SessionStepIsFleetStep == Next => [FleetNext]_enrollments
<1> SUFFICES ASSUME Next PROVE [FleetNext]_enrollments
    OBVIOUS
<1>1. ASSUME NEW e \in Enrollment, Pair(e) PROVE FleetNext
    BY <1>1 DEF Pair, FleetNext
<1>2. ASSUME NEW e \in Enrollment, Revoke(e) PROVE FleetNext
    BY <1>2 DEF Revoke, FleetNext
<1>3. ASSUME NEW e \in Enrollment, Change(e) PROVE UNCHANGED enrollments
    BY <1>3 DEF Change
<1>4. ASSUME NEW r, Send(r) PROVE UNCHANGED enrollments
    BY <1>4 DEF Send
<1>5. ASSUME NEW r \in requests, Lose(r) \/ Serve(r) PROVE UNCHANGED enrollments
    BY <1>5 DEF Lose, Serve, Heartbeat, RegisterEncryptionKey, Ask, Handle
<1>6. ASSUME NEW i \in asking, Answer(i) \/ Hang(i) \/ TimeOut(i)
      PROVE  UNCHANGED enrollments
    BY <1>6 DEF Answer, Hang, TimeOut, EndCall
<1>7. QED
    BY <1>1, <1>2, <1>3, <1>4, <1>5, <1>6, SteadyAssumption
       DEF Next, SendHeartbeat, SendEncryptionKey, SendSecretRequest

----------------------------------------------------------------------------
(* Types *)

LEMMA SessionsTypeInit == Init => SessionsTypeOK
BY FleetTypeInit, SessionsAssumption
   DEF Init, SessionsTypeOK, Session, Client, EncryptionKey

\* A request of any of the three operations is well-formed when it is sent.
LEMMA SentRequestsAreTyped ==
    ASSUME SessionsTypeOK, NEW e \in Enrollment, NEW named \in Enrollment,
           \/ SendHeartbeat(e, named)
           \/ SendEncryptionKey(e, named)
           \/ SendSecretRequest(e, named)
    PROVE  requests' \subseteq Request
<1>1. Enrolled(e) => enrollments[e].generation \in EnrollmentGeneration
    BY DEF SessionsTypeOK, FleetTypeOK, Enrolled, EnrollmentRow
<1>2. client[e].capable \in BOOLEAN /\ client[e].encryption_key \in EncryptionKey
    BY DEF SessionsTypeOK, Client
<1>3. CASE SendHeartbeat(e, named)
    BY <1>1, <1>2, <1>3 DEF SendHeartbeat, Names, Send, SessionsTypeOK, Request
<1>4. CASE SendEncryptionKey(e, named)
    BY <1>1, <1>2, <1>4 DEF SendEncryptionKey, Names, Send, SessionsTypeOK, Request
<1>5. CASE SendSecretRequest(e, named)
    BY <1>5 DEF SendSecretRequest, Send, SessionsTypeOK, Request
<1>6. QED
    BY <1>3, <1>4, <1>5

\* What the thread of an accepted request takes to the broker is well-formed.
LEMMA IdentitiesAreTyped ==
    ASSUME SessionsTypeOK, NEW e \in Enrollment, Live(e),
           sessions[e].encryption_key # NoKey
    PROVE  IdentityOf(e) \in Identity
<1>1. enrollments[e] \in EnrollmentRow
    BY DEF SessionsTypeOK, FleetTypeOK, Live, Enrolled
<1>2. sessions[e].encryption_key \in EncryptionKey
    BY DEF SessionsTypeOK, Session
<1>3. QED
    BY <1>1, <1>2 DEF IdentityOf, Identity, EnrollmentRow

LEMMA SessionsTypeStep == SessionsTypeOK /\ [Next]_vars => SessionsTypeOK'
<1> SUFFICES ASSUME SessionsTypeOK, [Next]_vars PROVE SessionsTypeOK'
    OBVIOUS
<1>0. FleetTypeOK'
    BY SessionStepIsFleetStep, FleetTypeStep DEF SessionsTypeOK, vars
<1> USE DEF SessionsTypeOK, devices, broker
<1>1. ASSUME NEW e \in Enrollment, Pair(e) PROVE SessionsTypeOK'
    <2>1. PICK k \in {NoKey, client[e].encryption_key} :
              sessions' = [sessions EXCEPT ![e].encryption_key = k]
        BY <1>1 DEF Pair
    <2>2. k \in EncryptionKey \cup {NoKey}
        BY DEF Client
    <2>3. sessions' \in [Enrollment -> Session]
        BY <2>1, <2>2 DEF Session
    <2>4. QED
        BY <1>0, <1>1, <2>3 DEF Pair
<1>2. ASSUME NEW e \in Enrollment, Revoke(e) PROVE SessionsTypeOK'
    BY <1>0, <1>2 DEF Revoke
<1>3. ASSUME NEW e \in Enrollment, Change(e) PROVE SessionsTypeOK'
    <2>1. client' \in [Enrollment -> Client]
        <3>1. client[e] \in Client
            OBVIOUS
        <3>2. CASE client' = [client EXCEPT ![e].capable = ~@]
            <4>1. [client[e] EXCEPT !.capable = ~@] \in Client
                BY <3>1 DEF Client
            <4>2. QED
                BY <3>2, <4>1
        <3>3. ASSUME NEW n \in 1 .. MaxKeys,
                     client' = [client EXCEPT ![e].encryption_key.number = n]
              PROVE  client' \in [Enrollment -> Client]
            <4>1. [client[e] EXCEPT !.encryption_key.number = n] \in Client
                BY <3>1 DEF Client, EncryptionKey
            <4>2. QED
                BY <3>3, <4>1
        <3>4. QED
            BY <1>3, <3>2, <3>3 DEF Change
    <2>2. changes' \in 0 .. MaxChanges
        BY <1>3, SessionsAssumption DEF Change
    <2>3. QED
        BY <1>0, <1>3, <2>1, <2>2 DEF Change
<1>4. ASSUME NEW e \in Enrollment, NEW named \in Enrollment,
             \/ SendHeartbeat(e, named)
             \/ SendEncryptionKey(e, named)
             \/ SendSecretRequest(e, named)
      PROVE  SessionsTypeOK'
    <2>1. UNCHANGED <<enrollments, sessions, devices, broker>>
        BY <1>4 DEF SendHeartbeat, SendEncryptionKey, SendSecretRequest, Send
    <2>2. QED
        BY <1>0, <1>4, <2>1, SentRequestsAreTyped
<1>5. ASSUME NEW r \in requests, Lose(r) PROVE SessionsTypeOK'
    BY <1>0, <1>5 DEF Lose
<1>6. ASSUME NEW r \in requests, Heartbeat(r) PROVE SessionsTypeOK'
    <2>1. r.capable \in BOOLEAN
        BY <1>6 DEF Heartbeat, Request
    <2>2. sessions' \in [Enrollment -> Session]
        BY <1>6, <2>1 DEF Heartbeat, Session
    <2>3. QED
        BY <1>0, <1>6, <2>2 DEF Heartbeat, Handle
<1>7. ASSUME NEW r \in requests, RegisterEncryptionKey(r) PROVE SessionsTypeOK'
    <2>1. r.encryption_key \in EncryptionKey
        BY <1>7 DEF RegisterEncryptionKey, Request
    <2>2. sessions' \in [Enrollment -> Session]
        BY <1>7, <2>1 DEF RegisterEncryptionKey, Session
    <2>3. QED
        BY <1>0, <1>7, <2>2 DEF RegisterEncryptionKey, Handle
<1>8. ASSUME NEW r \in requests, Ask(r) PROVE SessionsTypeOK'
    <2>1. r.enrollment_id \in Enrollment
        BY DEF Request
    <2>2. asking' \subseteq Identity /\ asking \subseteq asking'
        BY <1>8, <2>1, IdentitiesAreTyped DEF Ask, Authentic
    <2>3. QED
        BY <1>0, <1>8, <2>2 DEF Ask
<1>9. ASSUME NEW i \in asking, Answer(i) \/ Hang(i) \/ TimeOut(i)
      PROVE  SessionsTypeOK'
    BY <1>0, <1>9 DEF Answer, Hang, TimeOut, EndCall
<1>10. CASE UNCHANGED vars
    BY <1>0, <1>10 DEF vars
<1>11. QED
    BY <1>1, <1>2, <1>3, <1>4, <1>5, <1>6, <1>7, <1>8, <1>9, <1>10,
       SteadyAssumption DEF Next, Serve

(* The sessions keep their types: whatever is sent, lost, overtaken or repeated,
   the columns and the calls to the broker hold what the schema says. *)
THEOREM SessionsTypeCorrect == Spec => []SessionsTypeOK
BY SessionsTypeInit, SessionsTypeStep, PTL DEF Spec

----------------------------------------------------------------------------
(* Whose keys they are *)

\* A device has its own key pairs and registers them with its own token ...
SentKeysAreOwn ==
    /\ \A e \in Enrollment : client[e].encryption_key.made_by = e
    /\ \A r \in requests : r.operation = "encryption_key" =>
          r.encryption_key.made_by = r.token

\* ... so that a stored key is the installation's own, and there is none before
\* the enrollment.
StoredKeysAreOwn ==
    \A e \in Enrollment : sessions[e].encryption_key # NoKey =>
        /\ Enrolled(e)
        /\ sessions[e].encryption_key.made_by = e

KeysInv == SentKeysAreOwn /\ StoredKeysAreOwn /\ EnvelopesFitTheEnrollment

LEMMA KeysInit == Init => KeysInv
BY DEF Init, KeysInv, SentKeysAreOwn, StoredKeysAreOwn, EnvelopesFitTheEnrollment

LEMMA SentKeysStep ==
    SessionsTypeOK /\ SentKeysAreOwn /\ [Next]_vars => SentKeysAreOwn'
<1> SUFFICES ASSUME SessionsTypeOK, SentKeysAreOwn, [Next]_vars
             PROVE  SentKeysAreOwn'
    OBVIOUS
<1> USE DEF SentKeysAreOwn, devices
<1>1. ASSUME NEW e \in Enrollment, Change(e) PROVE SentKeysAreOwn'
    <2>1. \A x \in Enrollment :
              client'[x].encryption_key.made_by = client[x].encryption_key.made_by
        BY <1>1 DEF Change, SessionsTypeOK, Client, EncryptionKey
    <2>2. QED
        BY <1>1, <2>1 DEF Change
<1>2. ASSUME NEW e \in Enrollment, NEW named \in Enrollment,
             SendEncryptionKey(e, named)
      PROVE  SentKeysAreOwn'
    BY <1>2 DEF SendEncryptionKey, Send
<1>3. ASSUME NEW e \in Enrollment, NEW named \in Enrollment,
             SendHeartbeat(e, named) \/ SendSecretRequest(e, named)
      PROVE  SentKeysAreOwn'
    BY <1>3 DEF SendHeartbeat, SendSecretRequest, Send
<1>4. ASSUME NEW r \in requests, Lose(r) \/ Serve(r) PROVE SentKeysAreOwn'
    BY <1>4 DEF Lose, Serve, Heartbeat, RegisterEncryptionKey, Ask, Handle
<1>5. ASSUME NEW e \in Enrollment, Pair(e) \/ Revoke(e) PROVE SentKeysAreOwn'
    BY <1>5 DEF Pair, Revoke
<1>6. ASSUME NEW i \in asking, Answer(i) \/ Hang(i) \/ TimeOut(i)
      PROVE  SentKeysAreOwn'
    BY <1>6 DEF Answer, Hang, TimeOut, EndCall
<1>7. CASE UNCHANGED vars
    BY <1>7 DEF vars
<1>8. QED
    BY <1>1, <1>2, <1>3, <1>4, <1>5, <1>6, <1>7, SteadyAssumption DEF Next

\* The stored key of an installation changes only from NULL to its own key; and
\* an installation that has one stays enrolled, with the columns an identity names.
LEMMA KeyColumnStep ==
    ASSUME SessionsTypeOK, KeysInv, [Next]_vars, NEW e \in Enrollment
    PROVE  /\ Enrolled(e) => /\ Enrolled(e)'
                             /\ enrollments'[e].logical_device_id
                                  = enrollments[e].logical_device_id
                             /\ enrollments'[e].generation = enrollments[e].generation
           /\ \/ sessions'[e].encryption_key = sessions[e].encryption_key
              \/ /\ sessions[e].encryption_key = NoKey
                 /\ sessions'[e].encryption_key \in EncryptionKey
                 /\ sessions'[e].encryption_key.made_by = e
                 /\ Enrolled(e)'
<1> USE DEF SessionsTypeOK
<1> DEFINE RowKept == Enrolled(e) =>
               /\ Enrolled(e)'
               /\ enrollments'[e].logical_device_id = enrollments[e].logical_device_id
               /\ enrollments'[e].generation = enrollments[e].generation
           KeyKept == sessions'[e].encryption_key = sessions[e].encryption_key
           KeyWritten ==
               /\ sessions[e].encryption_key = NoKey
               /\ sessions'[e].encryption_key \in EncryptionKey
               /\ sessions'[e].encryption_key.made_by = e
               /\ Enrolled(e)'
<1>0. UNCHANGED enrollments => RowKept
    BY DEF Enrolled
<1>1. ASSUME NEW f \in Enrollment, Pair(f) PROVE RowKept /\ (KeyKept \/ KeyWritten)
    <2>1. PICK d \in Device, c \in Channel, tags \in TagSet,
               g \in EnrollmentGeneration : Enroll(f, d, c, tags, g)
        BY <1>1 DEF Pair
    <2>2. /\ ~Enrolled(f)
          /\ Enrolled(f)'
          /\ \A x \in Enrollment \ {f} : enrollments'[x] = enrollments[x]
        BY <2>1, EnrollmentAddsRow
    <2>3. PICK k \in {NoKey, client[f].encryption_key} :
              sessions' = [sessions EXCEPT ![f].encryption_key = k]
        BY <1>1 DEF Pair
    <2>4. client[f].encryption_key \in EncryptionKey
          /\ client[f].encryption_key.made_by = f
        BY DEF KeysInv, SentKeysAreOwn, Client
    <2>5. sessions[f].encryption_key = NoKey
        BY <2>2 DEF KeysInv, StoredKeysAreOwn
    <2>6. RowKept
        BY <2>2 DEF Enrolled
    <2>7. KeyKept \/ KeyWritten
        <3>1. CASE e # f
            BY <2>3, <3>1
        <3>2. CASE e = f
            <4>1. sessions'[e].encryption_key = k
                BY <2>3, <3>2 DEF Session
            <4>2. QED
                BY <2>2, <2>4, <2>5, <3>2, <4>1
        <3>3. QED
            BY <3>1, <3>2
    <2>8. QED
        BY <2>6, <2>7
<1>2. ASSUME NEW f \in Enrollment, Revoke(f) PROVE RowKept /\ KeyKept
    BY <1>2, RevocationKeepsRows DEF Revoke
<1>3. ASSUME NEW r \in requests, RegisterEncryptionKey(r)
      PROVE  RowKept /\ (KeyKept \/ KeyWritten)
    <2>1. UNCHANGED enrollments
        BY <1>3 DEF RegisterEncryptionKey, Handle
    <2>2. CASE sessions' = sessions
        BY <1>0, <2>1, <2>2
    <2>3. CASE sessions' # sessions
        <3>1. /\ Authentic(r)
              /\ sessions[r.enrollment_id].encryption_key = NoKey
              /\ sessions' = [sessions EXCEPT ![r.enrollment_id].encryption_key
                                  = r.encryption_key]
            BY <1>3, <2>3 DEF RegisterEncryptionKey
        <3>2. /\ r.encryption_key \in EncryptionKey
              /\ r.encryption_key.made_by = r.token
            BY <1>3 DEF RegisterEncryptionKey, Request, KeysInv, SentKeysAreOwn
        <3>3. CASE e # r.enrollment_id
            BY <1>0, <2>1, <3>1, <3>3
        <3>4. CASE e = r.enrollment_id
            <4>1. sessions'[e].encryption_key = r.encryption_key
                BY <3>1, <3>4 DEF Session
            <4>2. Enrolled(e)'
                BY <2>1, <3>1, <3>4 DEF Authentic, Live, Enrolled
            <4>3. QED
                BY <1>0, <2>1, <3>1, <3>2, <3>4, <4>1, <4>2 DEF Authentic
        <3>5. QED
            BY <3>3, <3>4
    <2>4. QED
        BY <2>2, <2>3
<1>4. ASSUME NEW r \in requests, Heartbeat(r) PROVE RowKept /\ KeyKept
    BY <1>0, <1>4 DEF Heartbeat, Handle, Session
<1>5. ASSUME NEW r \in requests, Lose(r) \/ Ask(r) PROVE RowKept /\ KeyKept
    BY <1>0, <1>5 DEF Lose, Ask
<1>6. ASSUME NEW i \in asking, Answer(i) \/ Hang(i) \/ TimeOut(i)
      PROVE  RowKept /\ KeyKept
    BY <1>0, <1>6 DEF Answer, Hang, TimeOut, EndCall
<1>7. ASSUME NEW f \in Enrollment, NEW named \in Enrollment,
             \/ Change(f)
             \/ SendHeartbeat(f, named)
             \/ SendEncryptionKey(f, named)
             \/ SendSecretRequest(f, named)
      PROVE  RowKept /\ KeyKept
    BY <1>0, <1>7 DEF Change, SendHeartbeat, SendEncryptionKey, SendSecretRequest, Send
<1>8. CASE UNCHANGED vars
    BY <1>0, <1>8 DEF vars
<1>9. QED
    BY <1>1, <1>2, <1>3, <1>4, <1>5, <1>6, <1>7, <1>8, SteadyAssumption
       DEF Next, Serve

LEMMA StoredKeysStep ==
    SessionsTypeOK /\ KeysInv /\ [Next]_vars => StoredKeysAreOwn'
<1> SUFFICES ASSUME SessionsTypeOK, KeysInv, [Next]_vars, NEW e \in Enrollment,
                    sessions'[e].encryption_key # NoKey
             PROVE  Enrolled(e)' /\ sessions'[e].encryption_key.made_by = e
    BY DEF StoredKeysAreOwn
<1>1. QED
    BY KeyColumnStep DEF KeysInv, StoredKeysAreOwn

\* An identity that fits the enrollment before a step fits it afterwards.
LEMMA IdentityStaysFit ==
    ASSUME SessionsTypeOK, KeysInv, [Next]_vars, NEW i \in asking
    PROVE  /\ Enrolled(i.enrollment_id)'
           /\ i = IdentityOf(i.enrollment_id)'
           /\ i.encryption_key.made_by = i.enrollment_id
<1> DEFINE e == i.enrollment_id
<1>1. /\ e \in Enrollment
      /\ Enrolled(e)
      /\ i = IdentityOf(e)
      /\ i.encryption_key.made_by = e
      /\ i.encryption_key \in EncryptionKey
    BY DEF SessionsTypeOK, Identity, KeysInv, EnvelopesFitTheEnrollment
<1>2. sessions[e].encryption_key = i.encryption_key
    BY <1>1 DEF IdentityOf
<1>3. sessions[e].encryption_key # NoKey
    BY <1>1, <1>2, NoKeyAssumption
<1>4. /\ Enrolled(e)'
      /\ enrollments'[e].logical_device_id = enrollments[e].logical_device_id
      /\ enrollments'[e].generation = enrollments[e].generation
      /\ sessions'[e].encryption_key = sessions[e].encryption_key
    BY <1>1, <1>3, KeyColumnStep
<1>5. QED
    BY <1>1, <1>4 DEF IdentityOf

LEMMA EnvelopesStep ==
    SessionsTypeOK /\ KeysInv /\ [Next]_vars => EnvelopesFitTheEnrollment'
<1> SUFFICES ASSUME SessionsTypeOK, KeysInv, [Next]_vars, NEW i \in asking'
             PROVE  /\ Enrolled(i.enrollment_id)'
                    /\ i = IdentityOf(i.enrollment_id)'
                    /\ i.encryption_key.made_by = i.enrollment_id
    BY DEF EnvelopesFitTheEnrollment
<1>1. CASE i \in asking
    BY <1>1, IdentityStaysFit
<1>2. CASE i \notin asking
    <2>1. PICK r \in requests : Ask(r)
        BY <1>2, SteadyAssumption
           DEF Next, vars, devices, broker, Pair, Revoke, Change, SendHeartbeat,
               SendEncryptionKey, SendSecretRequest, Send, Lose, Serve, Heartbeat,
               RegisterEncryptionKey, Handle, Answer, Hang, TimeOut, EndCall
    <2>2. /\ Authentic(r)
          /\ sessions[r.enrollment_id].encryption_key # NoKey
          /\ i = IdentityOf(r.enrollment_id)
        BY <1>2, <2>1 DEF Ask
    <2>3. /\ i.enrollment_id = r.enrollment_id
          /\ i.encryption_key = sessions[r.enrollment_id].encryption_key
        BY <2>2 DEF IdentityOf
    <2>4. r.enrollment_id \in Enrollment
        BY DEF SessionsTypeOK, Request
    <2>5. i.encryption_key.made_by = i.enrollment_id
        BY <2>2, <2>3, <2>4 DEF KeysInv, StoredKeysAreOwn
    <2>6. UNCHANGED <<enrollments, sessions>>
        BY <2>1 DEF Ask
    <2>7. QED
        BY <2>2, <2>3, <2>5, <2>6 DEF Authentic, Live, Enrolled, IdentityOf
<1>3. QED
    BY <1>1, <1>2

LEMMA KeysStep == SessionsTypeOK /\ KeysInv /\ [Next]_vars => KeysInv'
BY SentKeysStep, StoredKeysStep, EnvelopesStep DEF KeysInv

LEMMA KeysInvariant == Spec => []KeysInv
BY SessionsTypeCorrect, KeysInit, KeysStep, PTL DEF Spec

(* What the thread read before it called the broker is still true when the
   envelope comes, and the envelope is for the installation's own key. *)
THEOREM EnvelopesAlwaysFit == Spec => []EnvelopesFitTheEnrollment
BY KeysInvariant, PTL DEF KeysInv

----------------------------------------------------------------------------
(* What a step may never do *)

\* Every step changes at most the row of one installation.
LEMMA OneRowAtATime ==
    ASSUME SessionsTypeOK, Next, NEW e \in Enrollment,
           sessions'[e] # sessions[e], NEW x \in Enrollment \ {e}
    PROVE  sessions'[x] = sessions[x]
<1> SUFFICES ASSUME sessions'[x] # sessions[x] PROVE FALSE
    OBVIOUS
<1> USE DEF SessionsTypeOK
<1>1. ASSUME NEW f \in Enrollment, Pair(f) PROVE FALSE
    BY <1>1 DEF Pair
<1>2. ASSUME NEW r \in requests, Heartbeat(r) \/ RegisterEncryptionKey(r) PROVE FALSE
    BY <1>2 DEF Heartbeat, RegisterEncryptionKey
<1>3. ASSUME NEW r \in requests, Ask(r) \/ Lose(r) PROVE FALSE
    BY <1>3 DEF Ask, Lose
<1>4. ASSUME NEW i \in asking, Answer(i) \/ Hang(i) \/ TimeOut(i) PROVE FALSE
    BY <1>4 DEF Answer, Hang, TimeOut, EndCall
<1>5. ASSUME NEW f \in Enrollment, NEW named \in Enrollment,
             \/ Revoke(f)
             \/ Change(f)
             \/ SendHeartbeat(f, named)
             \/ SendEncryptionKey(f, named)
             \/ SendSecretRequest(f, named)
      PROVE  FALSE
    BY <1>5 DEF Revoke, Change, SendHeartbeat, SendEncryptionKey, SendSecretRequest,
                Send
<1>6. QED
    BY <1>1, <1>2, <1>3, <1>4, <1>5, SteadyAssumption DEF Next, Serve

(* The key column implements the write-once cell: no race and no repetition of
   registrations, with pair or among themselves, replaces a key. *)
THEOREM KeysAreWrittenOnce == Spec => EncryptionKeysAreWrittenOnce
<1> DEFINE key == [e \in Enrollment |-> sessions[e].encryption_key]
<1>1. Init => EncryptionKeys!CellsInit
    BY DEF Init, EncryptionKeys!CellsInit
<1>2. SessionsTypeOK /\ KeysInv /\ [Next]_vars
          => [EncryptionKeys!CellsNext]_key
    <2> SUFFICES ASSUME SessionsTypeOK, KeysInv, [Next]_vars, key' # key
                 PROVE  EncryptionKeys!CellsNext
        OBVIOUS
    <2>1. PICK e \in Enrollment :
              sessions'[e].encryption_key # sessions[e].encryption_key
        OBVIOUS
    <2>2. /\ sessions[e].encryption_key = NoKey
          /\ sessions'[e].encryption_key \in EncryptionKey
        BY <2>1, KeyColumnStep
    <2>3. PICK k \in EncryptionKey : k = sessions'[e].encryption_key
        BY <2>2
    <2>4. Next
        BY <2>1 DEF vars
    <2>5. \A x \in Enrollment \ {e} :
              sessions'[x].encryption_key = sessions[x].encryption_key
        BY <2>1, <2>4, OneRowAtATime
    <2>6. key' = [key EXCEPT ![e] = k]
        BY <2>3, <2>5
    <2>7. EncryptionKeys!Write(e, k)
        BY <2>2, <2>6 DEF EncryptionKeys!Write
    <2>8. QED
        BY <2>7 DEF EncryptionKeys!CellsNext
<1>3. QED
    BY <1>1, <1>2, SessionsTypeCorrect, KeysInvariant, PTL
       DEF Spec, EncryptionKeysAreWrittenOnce, EncryptionKeys!CellsSpec

\* Why nothing of a revoked installation changes in a step.
LEMMA RevokedSessionStep ==
    ASSUME SessionsTypeOK, [Next]_vars, NEW e \in Enrollment,
           Enrolled(e), enrollments[e].revoked
    PROVE  /\ sessions'[e] = sessions[e]
           /\ \A i \in asking' : i.enrollment_id = e => i \in asking
<1> USE DEF devices, broker
<1>1. ASSUME NEW f \in Enrollment, Pair(f)
      PROVE  sessions'[e] = sessions[e] /\ UNCHANGED asking
    <2>1. f # e
        BY <1>1 DEF Pair, Enroll
    <2>2. QED
        BY <1>1, <2>1 DEF Pair, SessionsTypeOK
<1>2. ASSUME NEW r \in requests, Heartbeat(r) \/ RegisterEncryptionKey(r)
      PROVE  sessions'[e] = sessions[e] /\ UNCHANGED asking
    <2>1. sessions' = sessions \/ r.enrollment_id # e
        BY <1>2 DEF Heartbeat, RegisterEncryptionKey, Authentic, Live
    <2>2. QED
        BY <1>2, <2>1 DEF Heartbeat, RegisterEncryptionKey, Handle, SessionsTypeOK
<1>3. ASSUME NEW r \in requests, Ask(r)
      PROVE  /\ UNCHANGED sessions
             /\ \A i \in asking' : i.enrollment_id = e => i \in asking
    BY <1>3 DEF Ask, Authentic, Live, IdentityOf
<1>4. ASSUME NEW i \in asking, Answer(i) \/ Hang(i) \/ TimeOut(i)
      PROVE  UNCHANGED sessions /\ asking' \subseteq asking
    BY <1>4 DEF Answer, Hang, TimeOut, EndCall
<1>5. ASSUME NEW f \in Enrollment, NEW named \in Enrollment,
             \/ Revoke(f)
             \/ Change(f)
             \/ SendHeartbeat(f, named)
             \/ SendEncryptionKey(f, named)
             \/ SendSecretRequest(f, named)
      PROVE  UNCHANGED <<sessions, asking>>
    BY <1>5 DEF Revoke, Change, SendHeartbeat, SendEncryptionKey, SendSecretRequest,
                Send
<1>6. ASSUME NEW r \in requests, Lose(r) PROVE UNCHANGED <<sessions, asking>>
    BY <1>6 DEF Lose
<1>7. CASE UNCHANGED vars
    BY <1>7 DEF vars
<1>8. QED
    BY <1>1, <1>2, <1>3, <1>4, <1>5, <1>6, <1>7, SteadyAssumption DEF Next, Serve

(* After its revocation nothing an installation sends has an effect: neither a
   request that was on its way nor one sent later. *)
THEOREM RevocationEndsSessions == Spec => RevocationEndsTheSession
<1>1. SessionsTypeOK /\ [Next]_vars =>
        [\A e \in Enrollment : Enrolled(e) /\ enrollments[e].revoked =>
            /\ sessions'[e] = sessions[e]
            /\ \A i \in asking' : i.enrollment_id = e => i \in asking
        ]_vars
    BY RevokedSessionStep
<1>2. QED
    BY <1>1, SessionsTypeCorrect, PTL DEF Spec, RevocationEndsTheSession

=============================================================================
