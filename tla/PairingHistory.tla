--------------------------- MODULE PairingHistory ---------------------------
(***************************************************************************)
(* Pairing with the history the table of codes forgets, since a code is    *)
(* purged once consumed or expired and its digits may be drawn again.  A   *)
(* grant is one creation of a code.                                        *)
(***************************************************************************)
EXTENDS Pairing, Sequences

CONSTANTS
    MaxGrants,  \* bound: codes created
    MaxMisses   \* bound: refused guesses counted

VARIABLES
    grants,   \* the rows as created, in order
    current,  \* code -> the grant its digits stand for, 0 before the first
    used,     \* enrollment id -> the grant it was paired with, 0 if not paired
    misses    \* code -> refused guesses of its device or channel

history == <<grants, current, used, misses>>

HistoryInit ==
    /\ Init
    /\ grants = <<>>
    /\ current = [k \in Code |-> 0]
    /\ used = [e \in Enrollment |-> 0]
    /\ misses = [k \in Code |-> 0]

Grant(k, d, c, roles, tags, asked, ttl, attempts) ==
    /\ Len(grants) < MaxGrants
    /\ CreatePairingCode(k, d, c, roles, tags, asked, ttl, attempts)
    /\ grants' = Append(grants, pairing_codes'[k])
    /\ current' = [current EXCEPT ![k] = Len(grants')]
    /\ misses' = [misses EXCEPT ![k] = 0]
    /\ UNCHANGED used

Use(call, e, g) ==
    /\ Pair(call, e, g)
    /\ used' = [used EXCEPT ![e] = current[call.code]]
    /\ UNCHANGED <<grants, current, misses>>

Miss(call) ==
    /\ RefusePair(call)
    /\ misses' = IF /\ Usable(call)
                    /\ ~Meant(call)
                    /\ misses[call.code] < MaxMisses
                 THEN [misses EXCEPT ![call.code] = @ + 1] ELSE misses
    /\ UNCHANGED <<grants, current, used>>

HistoryNext ==
    \/ \E k \in Code, d \in Device, c \in Channel, roles \in RoleSet,
          tags \in TagSet, asked \in Time, ttl \in Lifetime, attempts \in Attempts :
          Grant(k, d, c, roles, tags, asked, ttl, attempts)
    \/ \E call \in waiting, e \in Enrollment, g \in EnrollmentGeneration :
          Use(call, e, g)
    \/ \E call \in waiting : Miss(call)
    \/ /\ UNCHANGED history
       /\ \/ \E call \in Call : BeginPair(call)
          \/ \E e \in Enrollment : Revoke(e)
          \/ Tick

HistorySpec == HistoryInit /\ [][HistoryNext]_<<vars, history>>

----------------------------------------------------------------------------

(* A code is good for one enrollment: README "one-time, TTL-bound pairing codes".
   Two calls with the same code that both wait for the lock, or a call repeated
   because its answer was lost, cannot both enroll. *)
GrantsAreUsedOnce ==
    \A e, f \in Enrollment : used[e] # 0 /\ used[e] = used[f] => e = f

(* Every enrollment has the device, channel, tags and roles its code was created
   with, and the device asked before the code expired; also when the call waited
   while the code was purged and its digits issued again. *)
EnrollmentsMatchGrants ==
    \A e \in Enrollment : Enrolled(e) =>
        /\ used[e] \in DOMAIN grants
        /\ LET grant == grants[used[e]]
           IN  /\ enrollments[e].logical_device_id = grant.logical_device_id
               /\ enrollments[e].channel = grant.channel
               /\ enrollments[e].target_tags = grant.target_tags
               /\ credentials[e].roles = grant.roles
               /\ credentials[e].created_at <= grant.expires_at

(* No more guesses of a code's device and channel are answered than the limit
   it was created with: "invalid pairing attempt limit", store.py 658, and the
   column attempts_remaining that pair decrements. *)
AttemptsAreLimited ==
    \A k \in Code : current[k] # 0 =>
        misses[k] <= grants[current[k]].attempts_remaining

============================================================================
