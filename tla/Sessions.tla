------------------------------ MODULE Sessions ------------------------------
(***************************************************************************)
(* The session of a paired device: its heartbeats, the registration of its *)
(* encryption key and the delivery of secret envelopes through the broker. *)
(*                                                                         *)
(* heartbeat and register_encryption_key are BEGIN IMMEDIATE transactions  *)
(* and one action each.  An envelope takes two steps: the database is      *)
(* released before the broker is asked.  Requests are on their way from    *)
(* the moment the device sends them until a thread has the lock; they      *)
(* overtake each other, and some are lost.                                 *)
(*                                                                         *)
(* An enrollment stands for its access token as well: the holder of the    *)
(* token is the installation that paired.  Every pairing code has the role *)
(* "read", which the command line gives by default.                        *)
(***************************************************************************)
EXTENDS Fleet, FiniteSets

CONSTANTS
    NoKey,        \* SQL NULL in the key columns
    MaxKeys,      \* bound: key pairs one installation makes
    MaxChanges,   \* bound: changes of the clients
    MaxInFlight,  \* bound: requests on their way when another one is sent
    Steady        \* installations that keep sending; of others nothing is assumed

ASSUME SessionsAssumption ==
    MaxKeys \in Nat \ {0} /\ MaxChanges \in Nat /\ MaxInFlight \in Nat

ASSUME SteadyAssumption == Steady \subseteq Enrollment

VARIABLES
    sessions,  \* enrollment id -> the columns a device reports
    client,    \* outside: enrollment id -> what runs on the device
    changes,   \* outside: changes of the clients so far
    requests,  \* requests on their way
    asking,    \* identities for which a thread waits for the broker
    hung       \* outside: those of them the broker will not answer

devices == <<client, changes>>
broker == <<asking, hung>>
vars == <<enrollments, sessions, devices, requests, broker>>

\* Key pairs are made at random on the device, so a key tells who made it.
EncryptionKey == [made_by : Enrollment, number : 1 .. MaxKeys]

ASSUME NoKeyAssumption == NoKey \notin EncryptionKey

\* capable: client_capabilities contains "secret-envelope-v1".
Session == [capable : BOOLEAN, encryption_key : EncryptionKey \cup {NoKey}]

Client == [capable : BOOLEAN, encryption_key : EncryptionKey]

Identity ==
    [logical_device_id : Device, enrollment_id : Enrollment,
     enrollment_generation : EnrollmentGeneration,
     encryption_key : EncryptionKey]

\* `token` is the installation whose token the request carries.
Request ==
    [operation : {"heartbeat"}, token : Enrollment, enrollment_id : Enrollment,
     enrollment_generation : EnrollmentGeneration, capable : BOOLEAN]
    \cup
    [operation : {"encryption_key"}, token : Enrollment,
     enrollment_id : Enrollment, enrollment_generation : EnrollmentGeneration,
     encryption_key : EncryptionKey]
    \cup
    [operation : {"secret"}, token : Enrollment, enrollment_id : Enrollment]

Init ==
    /\ FleetInit
    /\ sessions = [e \in Enrollment |-> [capable |-> FALSE, encryption_key |-> NoKey]]
    /\ client = [e \in Enrollment |->
          [capable |-> TRUE, encryption_key |-> [made_by |-> e, number |-> 1]]]
    /\ changes = 0
    /\ requests = {}
    /\ asking = {}
    /\ hung = {}

----------------------------------------------------------------------------
(* The devices *)

\* An upgrade, a downgrade or the loss of the key pair, followed for the steady
\* installations only.
Change(e) ==
    /\ Enrolled(e)
    /\ changes < MaxChanges
    /\ changes' = changes + 1
    /\ \/ client' = [client EXCEPT ![e].capable = ~@]
       \/ \E n \in 1 .. MaxKeys :
             client' = [client EXCEPT ![e].encryption_key.number = n]
    /\ UNCHANGED <<enrollments, sessions, requests, broker>>

\* The bound is not for what a steady installation says of itself.
Send(r) ==
    /\ r \notin requests
    /\ \/ Cardinality(requests) < MaxInFlight
       \/ r.token = r.enrollment_id /\ r.token \in Steady
    /\ requests' = requests \cup {r}
    /\ UNCHANGED <<enrollments, sessions, devices, broker>>

\* Installation e speaks of itself, or names an earlier installation of its device
\* that some file still has.
Names(e, named) ==
    /\ Enrolled(e) /\ Enrolled(named)
    /\ enrollments[named].logical_device_id = enrollments[e].logical_device_id
    /\ enrollments[named].generation <= enrollments[e].generation

SendHeartbeat(e, named) ==
    /\ Names(e, named)
    /\ Send([operation |-> "heartbeat", token |-> e, enrollment_id |-> named,
             enrollment_generation |-> enrollments[e].generation,
             capable |-> client[e].capable])

SendEncryptionKey(e, named) ==
    /\ Names(e, named)
    /\ Send([operation |-> "encryption_key", token |-> e, enrollment_id |-> named,
             enrollment_generation |-> enrollments[e].generation,
             encryption_key |-> client[e].encryption_key])

\* One call at a time.
SendSecretRequest(e, named) ==
    /\ Names(e, named)
    /\ \A i \in asking : i.enrollment_id # e
    /\ Send([operation |-> "secret", token |-> e, enrollment_id |-> named])

\* The connection breaks, the lock is not had in time, or the process dies.
Lose(r) ==
    /\ requests' = requests \ {r}
    /\ UNCHANGED <<enrollments, sessions, devices, broker>>

----------------------------------------------------------------------------
(* The handlers *)

\* Fault: `revoked` is not read.
AuthenticThoughRevoked(r) ==
    Enrolled(r.enrollment_id) /\ r.token = r.enrollment_id

\* `_authenticate`
Authentic(r) == Live(r.enrollment_id) /\ r.token = r.enrollment_id

\* What every handler but Ask leaves as it is.
Handle(r) ==
    /\ requests' = requests \ {r}
    /\ UNCHANGED <<enrollments, devices, broker>>

\* Fault: a capability once reported is kept.
HeartbeatMerged(r) ==
    /\ r.operation = "heartbeat"
    /\ sessions' =
          IF /\ Authentic(r)
             /\ r.enrollment_generation = enrollments[r.enrollment_id].generation
          THEN [sessions EXCEPT ![r.enrollment_id].capable = @ \/ r.capable]
          ELSE sessions
    /\ Handle(r)

\* The last heartbeat to get the lock counts; others are refused.  The device and the
\* channel in it, which never change either, and the format of what it reports are
\* not looked at here.
Heartbeat(r) ==
    /\ r.operation = "heartbeat"
    /\ sessions' =
          IF /\ Authentic(r)
             /\ r.enrollment_generation = enrollments[r.enrollment_id].generation
          THEN [sessions EXCEPT ![r.enrollment_id].capable = r.capable]
          ELSE sessions
    /\ Handle(r)

\* Fault: the UPDATE runs whatever key is stored.
RegisterOverKey(r) ==
    /\ r.operation = "encryption_key"
    /\ sessions' =
          IF /\ Authentic(r)
             /\ r.enrollment_generation = enrollments[r.enrollment_id].generation
          THEN [sessions EXCEPT ![r.enrollment_id].encryption_key = r.encryption_key]
          ELSE sessions
    /\ Handle(r)

\* The same key again is "unchanged", another one a Conflict.
RegisterEncryptionKey(r) ==
    /\ r.operation = "encryption_key"
    /\ sessions' =
          IF /\ Authentic(r)
             /\ r.enrollment_generation = enrollments[r.enrollment_id].generation
             /\ sessions[r.enrollment_id].encryption_key = NoKey
          THEN [sessions EXCEPT ![r.enrollment_id].encryption_key = r.encryption_key]
          ELSE sessions
    /\ Handle(r)

IdentityOf(e) ==
    [logical_device_id |-> enrollments[e].logical_device_id, enrollment_id |-> e,
     enrollment_generation |-> enrollments[e].generation,
     encryption_key |-> sessions[e].encryption_key]

\* Fault: the broker is asked although there is no key yet.
AskWithoutKey(r) ==
    /\ r.operation = "secret"
    /\ requests' = requests \ {r}
    /\ asking' = IF Authentic(r) /\ sessions[r.enrollment_id].capable
                 THEN asking \cup {IdentityOf(r.enrollment_id)} ELSE asking
    /\ UNCHANGED <<enrollments, sessions, devices, hung>>

\* secret_envelope_request reads the row; the thread then calls the broker.
\* Without a key or the capability the request is a Conflict.
Ask(r) ==
    /\ r.operation = "secret"
    /\ requests' = requests \ {r}
    /\ asking' = IF /\ Authentic(r)
                    /\ sessions[r.enrollment_id].encryption_key # NoKey
                    /\ sessions[r.enrollment_id].capable
                 THEN asking \cup {IdentityOf(r.enrollment_id)} ELSE asking
    /\ UNCHANGED <<enrollments, sessions, devices, hung>>

\* The broker's answer, or the error it stands for, ends the call.
EndCall(i) ==
    /\ asking' = asking \ {i}
    /\ hung' = hung \ {i}
    /\ UNCHANGED <<enrollments, sessions, devices, requests>>

\* The broker answers with an envelope, encrypted to the key of the identity, or
\* with what becomes "not available" or "unavailable" to the device.
Answer(i) ==
    /\ i \in asking \ hung
    /\ EndCall(i)

\* The broker accepts the connection and is silent.
Hang(i) ==
    /\ i \in asking \ hung
    /\ hung' = hung \cup {i}
    /\ UNCHANGED <<enrollments, sessions, devices, requests, asking>>

\* Fault: urlopen without a timeout.
WaitForBroker(i) == FALSE

\* The client of the broker gives up.
TimeOut(i) ==
    /\ i \in hung
    /\ EndCall(i)

\* `pair` may bring the first encryption key.
Pair(e) ==
    /\ \E d \in Device, c \in Channel, tags \in TagSet,
          g \in EnrollmentGeneration : Enroll(e, d, c, tags, g)
    /\ \E k \in {NoKey, client[e].encryption_key} :
          sessions' = [sessions EXCEPT ![e].encryption_key = k]
    /\ UNCHANGED <<devices, requests, broker>>

Revoke(e) ==
    /\ RevokeEnrollment(e)
    /\ UNCHANGED <<sessions, devices, requests, broker>>

Serve(r) == Heartbeat(r) \/ RegisterEncryptionKey(r) \/ Ask(r)

Next ==
    \/ \E e \in Enrollment : Pair(e) \/ Revoke(e)
    \/ \E e \in Steady : Change(e)
    \/ \E e, named \in Enrollment :
          \/ SendHeartbeat(e, named)
          \/ SendEncryptionKey(e, named)
          \/ SendSecretRequest(e, named)
    \/ \E r \in requests : Lose(r) \/ Serve(r)
    \/ \E i \in asking : Answer(i) \/ Hang(i) \/ TimeOut(i)

Spec == Init /\ [][Next]_vars

\* Some own request of installation e, of one operation, is served.
ServeOwn(e, Handler(_)) ==
    \E r \in requests : r.token = e /\ r.enrollment_id = e /\ Handler(r)

(* The server: of the requests that an installation repeats not all fall to a
   busy lock or a dead process, and the socket timeout of the broker's client
   ends a call that hangs.  The steady devices: they repeat themselves.  The
   broker: a device it is asked for again and again it answers some day.
   Nothing is assumed of administrators, changes, losses and other devices. *)
Fairness ==
    \A e \in Steady :
        /\ WF_vars(SendHeartbeat(e, e))
        /\ WF_vars(SendEncryptionKey(e, e))
        /\ WF_vars(SendSecretRequest(e, e))
        /\ SF_vars(ServeOwn(e, Heartbeat))
        /\ SF_vars(ServeOwn(e, RegisterEncryptionKey))
        /\ SF_vars(ServeOwn(e, Ask))
        /\ SF_vars(\E i \in asking : i.enrollment_id = e /\ Answer(i))
        /\ WF_vars(\E i \in asking : i.enrollment_id = e /\ TimeOut(i))

FairSpec == Spec /\ Fairness

----------------------------------------------------------------------------

SessionsTypeOK ==
    /\ FleetTypeOK
    /\ sessions \in [Enrollment -> Session]
    /\ client \in [Enrollment -> Client]
    /\ changes \in 0 .. MaxChanges
    /\ requests \subseteq Request
    /\ hung \subseteq asking
    /\ asking \subseteq Identity

(* For as long as the broker is asked for an envelope, up to its delivery, the
   envelope is for the device and generation its enrollment has now and for a key
   that this very installation made and that is still the one on record: what
   the thread read before the call does not go stale, and nobody else's key gets
   in (store.py 818-841, broker.py 32-63). *)
EnvelopesFitTheEnrollment ==
    \A i \in asking :
        /\ Enrolled(i.enrollment_id)
        /\ i = IdentityOf(i.enrollment_id)
        /\ i.encryption_key.made_by = i.enrollment_id

EncryptionKeys ==
    INSTANCE WriteOnce WITH
        Cell <- Enrollment,
        Value <- EncryptionKey,
        Empty <- NoKey,
        cells <- [e \in Enrollment |-> sessions[e].encryption_key]

(* An enrollment's encryption key is written once, by pair or by the first
   registration to get the lock, whatever registrations race or are repeated:
   store.py 877 "enrollment encryption key already exists". *)
EncryptionKeysAreWrittenOnce == EncryptionKeys!CellsSpec

(* After its revocation nothing an installation sends has an effect: its row
   stays as it is and no call of it reaches the broker; only the calls that had
   read the row before may still bring their envelope. *)
RevocationEndsTheSession ==
    [][\A e \in Enrollment : Enrolled(e) /\ enrollments[e].revoked =>
        /\ sessions'[e] = sessions[e]
        /\ \A i \in asking' : i.enrollment_id = e => i \in asking
      ]_vars

(* When the client of a device no longer changes, the capabilities on record
   become the client's and stay so, although delayed heartbeats of before the
   change arrive after later ones and carry no number (store.py 913-962). *)
CapabilitiesConverge ==
    \A e \in Steady :
        <>[](Live(e) => sessions[e].capable = client[e].capable)

\* A call for the envelope of e, for the key its client has, is answered.
EnvelopeCall(e) ==
    \E i \in asking : /\ i.enrollment_id = e
                      /\ i.encryption_key = client[e].encryption_key
                      /\ Answer(i)

(* A live, capable installation whose key is not shut out by an earlier one gets
   through to the broker, for its own key, again and again: neither lost requests
   nor late heartbeats nor a broker that hangs can keep it out for ever. *)
EnvelopeCallsAreAnswered ==
    \A e \in Steady :
        <>[](/\ Live(e)
             /\ client[e].capable
             /\ sessions[e].encryption_key \in {NoKey, client[e].encryption_key})
        => []<><<EnvelopeCall(e)>>_vars

============================================================================
