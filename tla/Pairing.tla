------------------------------ MODULE Pairing ------------------------------
(***************************************************************************)
(* How an installation gets its row in the registry: the administrator     *)
(* creates a short-lived one-time code on the host, the device sends it    *)
(* back with the key it made.  `pair` reads the clock before it waits for  *)
(* the write lock, so a call is in `waiting` between the two, while codes  *)
(* are purged and issued again, other calls commit and time passes.        *)
(*                                                                         *)
(* A transaction that raises is rolled back: a refused call leaves nothing *)
(* behind, whatever it wrote before it raised.                             *)
(***************************************************************************)
EXTENDS Fleet, FiniteSets

CONSTANTS
    Code,         \* eight-digit codes, stored as digests
    KeyId,        \* enrollment signing key ids, chosen by devices
    RoleSet,      \* sets of roles a code can carry
    Lifetime,     \* values of ttl_seconds
    Attempts,     \* values of the attempt limit
    MaxTime,      \* bound: the clock
    MaxWaiting    \* bound: concurrent pair calls

ASSUME PairingAssumption ==
    /\ Lifetime \subseteq Nat \ {0}
    /\ Attempts \subseteq Nat \ {0}
    /\ MaxTime \in Nat

VARIABLES
    now,            \* the clock, in units of the shortest interval of interest
    pairing_codes,  \* code -> row or Absent
    credentials,    \* enrollment id -> the columns of its row Fleet leaves out
    waiting         \* pair calls that have read the clock

vars == <<now, pairing_codes, enrollments, credentials, waiting>>

Time == 0 .. MaxTime

PairingCodeRow ==
    [logical_device_id : Device, channel : Channel, roles : RoleSet,
     target_tags : TagSet, expires_at : Nat, attempts_remaining : Nat,
     consumed : BOOLEAN]

Credential == [key_id : KeyId, roles : RoleSet, created_at : Time]

ASSUME AbsentCodeAssumption == Absent \notin PairingCodeRow \cup Credential

Call ==
    [code : Code, logical_device_id : Device, channel : Channel,
     key_id : KeyId, now : Time]

Init ==
    /\ now = 0
    /\ pairing_codes = [k \in Code |-> Absent]
    /\ FleetInit
    /\ credentials = [e \in Enrollment |-> Absent]
    /\ waiting = {}

----------------------------------------------------------------------------

\* The table once expired and consumed codes are deleted.
Purged ==
    [k \in Code |->
        IF pairing_codes[k] # Absent /\ (\/ pairing_codes[k].expires_at < now
                                         \/ pairing_codes[k].consumed)
        THEN Absent ELSE pairing_codes[k]]

\* The call read the clock as `asked` before it had the write lock; the purge reads
\* it again.  A collision with a code that is still good is a Conflict.
CreatePairingCode(k, d, c, roles, tags, asked, ttl, attempts) ==
    /\ asked <= now
    /\ Purged[k] = Absent
    /\ pairing_codes' = [Purged EXCEPT ![k] =
          [logical_device_id |-> d, channel |-> c, roles |-> roles,
           target_tags |-> tags, expires_at |-> asked + ttl,
           attempts_remaining |-> attempts, consumed |-> FALSE]]
    /\ UNCHANGED <<now, enrollments, credentials, waiting>>

\* The call reads the clock and asks for the write lock.
BeginPair(call) ==
    /\ call.now = now
    /\ Cardinality(waiting) < MaxWaiting
    /\ waiting' = waiting \cup {call}
    /\ UNCHANGED <<now, pairing_codes, enrollments, credentials>>

\* Fault: `consumed` is not read.
UsableTwice(call) ==
    LET pairing == pairing_codes[call.code]
    IN  /\ pairing # Absent
        /\ pairing.expires_at >= call.now
        /\ pairing.attempts_remaining > 0

\* Fault: `expires_at` is not compared.
UsableForever(call) ==
    LET pairing == pairing_codes[call.code]
    IN  /\ pairing # Absent
        /\ ~pairing.consumed
        /\ pairing.attempts_remaining > 0

Usable(call) ==
    LET pairing == pairing_codes[call.code]
    IN  /\ pairing # Absent
        /\ ~pairing.consumed
        /\ pairing.expires_at >= call.now
        /\ pairing.attempts_remaining > 0

Meant(call) ==
    /\ pairing_codes[call.code].logical_device_id = call.logical_device_id
    /\ pairing_codes[call.code].channel = call.channel

KeyInUse(k) ==
    \E e \in Enrollment : credentials[e] # Absent /\ credentials[e].key_id = k

Acceptable(call) == Usable(call) /\ Meant(call) /\ ~KeyInUse(call.key_id)

\* The row, the credentials and the spent code are one transaction.
Pair(call, e, g) ==
    /\ call \in waiting
    /\ Acceptable(call)
    /\ LET pairing == pairing_codes[call.code]
       IN  /\ Enroll(e, call.logical_device_id, call.channel,
                     pairing.target_tags, g)
           /\ credentials' = [credentials EXCEPT ![e] =
                 [key_id |-> call.key_id, roles |-> pairing.roles,
                  created_at |-> call.now]]
    /\ pairing_codes' = [pairing_codes EXCEPT ![call.code].consumed = TRUE]
    /\ waiting' = waiting \ {call}
    /\ UNCHANGED now

\* Refused, or the lock was not had in time, or the process died.  For a device
\* or channel that is not the code's, the UPDATE of attempts_remaining is rolled
\* back when the handler raises Unauthorized.
RefusePair(call) ==
    /\ call \in waiting
    /\ waiting' = waiting \ {call}
    /\ UNCHANGED <<now, pairing_codes, enrollments, credentials>>

Revoke(e) ==
    /\ RevokeEnrollment(e)
    /\ UNCHANGED <<now, pairing_codes, credentials, waiting>>

Tick ==
    /\ now < MaxTime
    /\ now' = now + 1
    /\ UNCHANGED <<pairing_codes, enrollments, credentials, waiting>>

Next ==
    \/ \E k \in Code, d \in Device, c \in Channel, roles \in RoleSet,
          tags \in TagSet, asked \in Time, ttl \in Lifetime, attempts \in Attempts :
          CreatePairingCode(k, d, c, roles, tags, asked, ttl, attempts)
    \/ \E call \in Call : BeginPair(call)
    \/ \E call \in waiting, e \in Enrollment, g \in EnrollmentGeneration :
          Pair(call, e, g)
    \/ \E call \in waiting : RefusePair(call)
    \/ \E e \in Enrollment : Revoke(e)
    \/ Tick

Spec == Init /\ [][Next]_vars

----------------------------------------------------------------------------

TypeOK ==
    /\ now \in Time
    /\ pairing_codes \in [Code -> PairingCodeRow \cup {Absent}]
    /\ FleetTypeOK
    /\ credentials \in [Enrollment -> Credential \cup {Absent}]
    /\ waiting \subseteq Call

============================================================================
