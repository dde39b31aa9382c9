----------------------------- MODULE AdminGate -----------------------------
(***************************************************************************)
(* The two transactions every administrator's request goes through: the    *)
(* gate `authorize_admin_request`, which records the nonce of the signed   *)
(* request document, and the handler, which stores its answer under the    *)
(* Idempotency-Key.  The process may die between them, requests come twice *)
(* or late, and the gate reads the clock before it waits for the lock.     *)
(*                                                                         *)
(* What a handler does is abstracted to one effect; Requests.tla has it.   *)
(***************************************************************************)
EXTENDS Naturals, Sequences, FiniteSets

CONSTANTS
    Thread,       \* request threads
    Nonce,        \* pairs of actor key id and nonce
    Key,          \* idempotency keys
    Validity,     \* values of expires_at - issued_at
    MaxTime,      \* bound: the clock
    MaxDocuments, \* bound: documents signed
    Absent

ASSUME GateAssumption == Validity \subseteq Nat \ {0} /\ MaxTime \in Nat

VARIABLES
    now,             \* the clock
    signed,          \* request documents signed so far
    admin_requests,  \* nonce -> the document it was used for, or Absent
    idempotency,     \* key -> the operation it was used for, or Absent
    calls,           \* thread -> its call
    authorized,      \* history: documents let through the gate
    effects          \* history: what handlers did, in order

vars == <<now, signed, admin_requests, idempotency, calls, authorized, effects>>

Time == 0 .. MaxTime

\* Two operations that take effect under _idempotent.  put_revision and put_blob pass the
\* same gate; what they repeat is RevisionStore and BlobStore.
Operation == {"publish_candidate", "promote"}

RoleOperations ==
    [publish |-> {"publish_candidate"}, promote |-> {"promote"}, admin |-> Operation]

RequestDocument ==
    [nonce : Nonce, idempotency_key : Key, operation : Operation,
     actor_role : DOMAIN RoleOperations, expires_at : Nat]

Stage == {"idle", "checked", "admitted"}

ASSUME AbsentRequestAssumption == Absent \notin RequestDocument \cup Operation

CallRecord ==
    [stage : Stage, document : RequestDocument \cup {Absent}, now : Time]

Idle == [stage |-> "idle", document |-> Absent, now |-> 0]

Init ==
    /\ now = 0
    /\ signed = {}
    /\ admin_requests = [n \in Nonce |-> Absent]
    /\ idempotency = [k \in Key |-> Absent]
    /\ calls = [t \in Thread |-> Idle]
    /\ authorized = {}
    /\ effects = <<>>

----------------------------------------------------------------------------

\* Outside the server: an administrator signs a request.
Sign(d, validity) ==
    /\ Cardinality(signed) < MaxDocuments
    /\ d.expires_at = now + validity
    /\ signed' = signed \cup {d}
    /\ UNCHANGED <<now, admin_requests, idempotency, calls, authorized, effects>>

\* A signed document arrives, for the first time or again, at the endpoint of
\* an operation and under an Idempotency-Key; the checks before the transaction.
Receive(t, d, operation, key) ==
    /\ calls[t].stage = "idle"
    /\ operation \in RoleOperations[d.actor_role]
    /\ d.operation = operation
    /\ d.idempotency_key = key
    /\ d.expires_at >= now
    /\ calls' = [calls EXCEPT ![t] =
          [stage |-> "checked", document |-> d, now |-> now]]
    /\ UNCHANGED <<now, signed, admin_requests, idempotency, authorized, effects>>

\* Fault: a nonce is forgotten in the last second of its document's validity.
PurgedEarly(at) ==
    [n \in Nonce |->
        IF admin_requests[n] # Absent /\ admin_requests[n].expires_at <= at
        THEN Absent ELSE admin_requests[n]]

\* DELETE FROM admin_requests WHERE expires_at < at
PurgedRequests(at) ==
    [n \in Nonce |->
        IF admin_requests[n] # Absent /\ admin_requests[n].expires_at < at
        THEN Absent ELSE admin_requests[n]]

\* The gate's transaction.  The same document passes again; another one with
\* its nonce is a Conflict, and the purge is rolled back with it.
Authorize(t) ==
    LET d == calls[t].document
        kept == PurgedRequests(calls[t].now)
    IN  /\ calls[t].stage = "checked"
        /\ kept[d.nonce] \in {Absent, d}
        /\ admin_requests' = [kept EXCEPT ![d.nonce] = d]
        /\ authorized' = authorized \cup {d}
        /\ calls' = [calls EXCEPT ![t].stage = "admitted"]
        /\ UNCHANGED <<now, signed, idempotency, effects>>

\* Fault: the answer is stored in a transaction of its own, which may fail.
StoreOrNot(d) == idempotency' \in
    {idempotency, [idempotency EXCEPT ![d.idempotency_key] = d.operation]}

StoreAnswer(d) ==
    idempotency' = [idempotency EXCEPT ![d.idempotency_key] = d.operation]

\* Fault: an endpoint runs its handler without the gate.
Arrived(t) == calls[t].stage # "idle"

Admitted(t) == calls[t].stage = "admitted"

\* Fault: the key is not looked up, and its row is replaced.
AnyKey(d) == TRUE

KeyFresh(d) == idempotency[d.idempotency_key] = Absent

\* The handler's transaction: the effect and the row of its key together.
Execute(t) ==
    LET d == calls[t].document
    IN  /\ Admitted(t)
        /\ KeyFresh(d)
        /\ StoreAnswer(d)
        /\ effects' = Append(effects, d)
        /\ calls' = [calls EXCEPT ![t] = Idle]
        /\ UNCHANGED <<now, signed, admin_requests, authorized>>

\* The call ends with no effect of its own: a refusal by the gate or the handler,
\* a stored answer, or a lock not had in time.
Finish(t) ==
    /\ calls[t].stage # "idle"
    /\ calls' = [calls EXCEPT ![t] = Idle]
    /\ UNCHANGED <<now, signed, admin_requests, idempotency, authorized, effects>>

\* The process dies and starts again: every call is lost, every commit kept.
Crash ==
    /\ calls' = [t \in Thread |-> Idle]
    /\ UNCHANGED <<now, signed, admin_requests, idempotency, authorized, effects>>

Tick ==
    /\ now < MaxTime
    /\ now' = now + 1
    /\ UNCHANGED <<signed, admin_requests, idempotency, calls, authorized, effects>>

Next ==
    \/ \E n \in Nonce, k \in Key, operation \in Operation,
          role \in DOMAIN RoleOperations, validity \in Validity :
          Sign([nonce |-> n, idempotency_key |-> k, operation |-> operation,
                actor_role |-> role, expires_at |-> now + validity], validity)
    \/ \E t \in Thread, d \in signed, operation \in Operation, key \in Key :
          Receive(t, d, operation, key)
    \/ \E t \in Thread : Authorize(t) \/ Execute(t) \/ Finish(t)
    \/ Crash
    \/ Tick

Spec == Init /\ [][Next]_vars

----------------------------------------------------------------------------

TypeOK ==
    /\ now \in Time
    /\ signed \subseteq RequestDocument
    /\ admin_requests \in [Nonce -> RequestDocument \cup {Absent}]
    /\ idempotency \in [Key -> Operation \cup {Absent}]
    /\ calls \in [Thread -> CallRecord]
    /\ authorized \subseteq signed
    /\ effects \in Seq(authorized)

(* A document the gate has let through once keeps its nonce for as long as it
   is valid: no other document gets through under that nonce meanwhile, and the
   administrator who lost the answer, or whose request died between the two
   transactions, is let through again with the same document. *)
NonceIsHeld ==
    \A d \in authorized : d.expires_at >= now => admin_requests[d.nonce] = d

(* A key takes effect once, however many documents, threads, repetitions and
   crashes bring it. *)
KeysTakeEffectOnce ==
    \A i, j \in DOMAIN effects :
        effects[i].idempotency_key = effects[j].idempotency_key => i = j

(* Nothing takes effect without a document that the gate let through, and then
   only for the operation its key is stored with. *)
EffectsAreOnRecord ==
    \A i \in DOMAIN effects :
        /\ effects[i] \in authorized
        /\ idempotency[effects[i].idempotency_key] = effects[i].operation

============================================================================
