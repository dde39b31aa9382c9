--------------------------- MODULE AdminGateProofs ---------------------------
(***************************************************************************)
(* Proofs about AdminGate for every set of threads, nonces, keys and       *)
(* validities, and every interleaving of requests, deaths and the clock.   *)
(***************************************************************************)
EXTENDS AdminGate, SequenceTheorems, TLAPS

\* A call under way has read the clock in the past and carries a signed document;
\* once it is admitted, one that the gate let through.
CallsSound ==
    \A t \in Thread :
        /\ calls[t].now <= now
        /\ calls[t].stage # "idle" => calls[t].document \in signed
        /\ calls[t].stage = "admitted" => calls[t].document \in authorized

\* The gate's half and the handler's half rest on the same calls.
GateInv ==
    TypeOK /\ CallsSound /\ NonceIsHeld /\ KeysTakeEffectOnce /\ EffectsAreOnRecord

LEMMA IdleType == Idle \in CallRecord /\ Idle.stage = "idle" /\ Idle.now = 0
BY GateAssumption DEF Idle, CallRecord, Stage, Time

LEMMA GateInit == Init => GateInv
<1> SUFFICES ASSUME Init PROVE GateInv
    OBVIOUS
<1>1. TypeOK
    BY GateAssumption, IdleType DEF Init, TypeOK, Time
<1>2. CallsSound
    BY IdleType DEF Init, CallsSound
<1>3. NonceIsHeld /\ KeysTakeEffectOnce /\ EffectsAreOnRecord
    BY DEF Init, NonceIsHeld, KeysTakeEffectOnce, EffectsAreOnRecord
<1>4. QED
    BY <1>1, <1>2, <1>3 DEF GateInv

----------------------------------------------------------------------------
(* The steps *)

\* Steps that leave the tables and the history alone preserve what is said of them.
LEMMA TablesKept ==
    ASSUME GateInv, UNCHANGED <<admin_requests, idempotency, authorized, effects>>,
           now' \in Time, now <= now'
    PROVE  /\ NonceIsHeld'
           /\ KeysTakeEffectOnce'
           /\ EffectsAreOnRecord'
<1>1. NonceIsHeld'
    <2> SUFFICES ASSUME NEW d \in authorized, d.expires_at >= now'
                 PROVE  admin_requests[d.nonce] = d
        BY DEF NonceIsHeld
    <2>1. d.expires_at \in Nat
        BY DEF GateInv, TypeOK, RequestDocument
    <2>2. now \in Nat /\ now' \in Nat
        BY DEF GateInv, TypeOK, Time
    <2>3. d.expires_at >= now
        BY <2>1, <2>2
    <2>4. QED
        BY <2>3 DEF GateInv, NonceIsHeld
<1>2. QED
    BY <1>1 DEF GateInv, KeysTakeEffectOnce, EffectsAreOnRecord

\* Steps that only end calls.
LEMMA CallsEnd ==
    ASSUME GateInv,
           UNCHANGED <<now, signed, admin_requests, idempotency, authorized, effects>>,
           calls' \in [Thread -> CallRecord],
           \A t \in Thread : calls'[t] \in {calls[t], Idle}
    PROVE  GateInv'
<1>1. TypeOK'
    BY DEF GateInv, TypeOK
<1>2. CallsSound'
    BY IdleType DEF GateInv, CallsSound, TypeOK, Time
<1>3. now' \in Time /\ now <= now'
    BY DEF GateInv, TypeOK, Time
<1>4. QED
    BY <1>1, <1>2, <1>3, TablesKept DEF GateInv

LEMMA SignStep ==
    ASSUME GateInv, NEW d, NEW validity \in Validity, d \in RequestDocument,
           Sign(d, validity)
    PROVE  GateInv'
<1>1. signed \subseteq signed' /\ signed' \subseteq RequestDocument
    BY DEF Sign, GateInv, TypeOK
<1>2. TypeOK'
    BY <1>1 DEF Sign, GateInv, TypeOK
<1>3. CallsSound'
    BY <1>1 DEF Sign, GateInv, CallsSound
<1>4. now' \in Time /\ now <= now'
    BY DEF Sign, GateInv, TypeOK, Time
<1>5. QED
    BY <1>2, <1>3, <1>4, TablesKept DEF GateInv, Sign

LEMMA ReceiveStep ==
    ASSUME GateInv, NEW t \in Thread, NEW d \in signed, NEW operation, NEW key,
           Receive(t, d, operation, key)
    PROVE  GateInv'
<1> DEFINE call == [stage |-> "checked", document |-> d, now |-> now]
<1>1. call \in CallRecord
    BY DEF GateInv, TypeOK, CallRecord, Stage
<1>2. calls' = [calls EXCEPT ![t] = call]
    BY DEF Receive
<1>3. calls' \in [Thread -> CallRecord]
    BY <1>1, <1>2 DEF GateInv, TypeOK
<1>4. TypeOK'
    BY <1>3 DEF Receive, GateInv, TypeOK
<1>5. now' \in Time /\ now <= now'
    BY DEF Receive, GateInv, TypeOK, Time
<1>6. CallsSound'
    BY <1>2, <1>5 DEF Receive, GateInv, CallsSound, TypeOK
<1>7. QED
    BY <1>4, <1>5, <1>6, TablesKept DEF GateInv, Receive

\* The purge forgets no request that is valid now, since it uses a past clock.
LEMMA PurgeKeepsValid ==
    ASSUME GateInv, NEW t \in Thread, NEW d \in authorized, d.expires_at >= now
    PROVE  PurgedRequests(calls[t].now)[d.nonce] = d
<1>1. admin_requests[d.nonce] = d
    BY DEF GateInv, NonceIsHeld
<1>2. d \in RequestDocument /\ d.nonce \in Nonce /\ d.expires_at \in Nat
    BY DEF GateInv, TypeOK, RequestDocument
<1>3. /\ calls[t].now \in Nat /\ now \in Nat
      /\ calls[t].now <= now
    BY DEF GateInv, TypeOK, CallsSound, CallRecord, Time
<1>4. ~(d.expires_at < calls[t].now)
    BY <1>2, <1>3
<1>5. QED
    BY <1>1, <1>2, <1>4 DEF PurgedRequests

LEMMA AuthorizeStep ==
    ASSUME GateInv, NEW t \in Thread, Authorize(t)
    PROVE  GateInv'
<1> DEFINE d == calls[t].document
           kept == PurgedRequests(calls[t].now)
<1>1. /\ d \in signed
      /\ d \in RequestDocument
      /\ d.nonce \in Nonce
    BY DEF Authorize, GateInv, TypeOK, CallsSound, RequestDocument
<1>2. /\ kept[d.nonce] \in {Absent, d}
      /\ admin_requests' = [kept EXCEPT ![d.nonce] = d]
      /\ authorized' = authorized \cup {d}
      /\ calls' = [calls EXCEPT ![t].stage = "admitted"]
      /\ UNCHANGED <<now, signed, idempotency, effects>>
    BY DEF Authorize
<1>3. kept \in [Nonce -> RequestDocument \cup {Absent}]
    BY DEF PurgedRequests, GateInv, TypeOK
<1>4. TypeOK'
    <2>1. calls' \in [Thread -> CallRecord]
        BY <1>2 DEF GateInv, TypeOK, CallRecord, Stage
    <2>2. authorized' \subseteq signed'
        BY <1>1, <1>2 DEF GateInv, TypeOK
    <2>3. effects' \in Seq(authorized')
        BY <1>2, SeqMonotonic DEF GateInv, TypeOK
    <2>4. admin_requests' \in [Nonce -> RequestDocument \cup {Absent}]
        BY <1>1, <1>2, <1>3
    <2>5. QED
        BY <1>2, <2>1, <2>2, <2>3, <2>4 DEF GateInv, TypeOK
<1>5. CallsSound'
    BY <1>1, <1>2 DEF GateInv, CallsSound, TypeOK, CallRecord
<1>6. NonceIsHeld'
    <2> SUFFICES ASSUME NEW x \in authorized', x.expires_at >= now
                 PROVE  admin_requests'[x.nonce] = x
        BY <1>2 DEF NonceIsHeld
    <2>1. CASE x = d
        BY <1>1, <1>2, <1>3, <2>1
    <2>2. CASE x \in authorized
        <3>1. kept[x.nonce] = x
            BY <2>2, PurgeKeepsValid
        <3>2. x \in RequestDocument /\ x.nonce \in Nonce
            BY <2>2 DEF GateInv, TypeOK, RequestDocument
        <3>3. CASE x.nonce = d.nonce
            BY <1>1, <1>2, <1>3, <3>1, <3>2, <3>3, AbsentRequestAssumption
        <3>4. CASE x.nonce # d.nonce
            BY <1>2, <1>3, <3>1, <3>2, <3>4
        <3>5. QED
            BY <3>3, <3>4
    <2>3. QED
        BY <1>2, <2>1, <2>2
<1>7. KeysTakeEffectOnce' /\ EffectsAreOnRecord'
    BY <1>2 DEF GateInv, KeysTakeEffectOnce, EffectsAreOnRecord
<1>8. QED
    BY <1>4, <1>5, <1>6, <1>7 DEF GateInv

LEMMA ExecuteStep ==
    ASSUME GateInv, NEW t \in Thread, Execute(t)
    PROVE  GateInv'
<1> DEFINE d == calls[t].document
<1>1. /\ d \in authorized
      /\ d \in RequestDocument
      /\ d.idempotency_key \in Key
      /\ d.operation \in Operation
    BY DEF Execute, Admitted, GateInv, TypeOK, CallsSound, RequestDocument
<1>2. /\ idempotency[d.idempotency_key] = Absent
      /\ idempotency' = [idempotency EXCEPT ![d.idempotency_key] = d.operation]
      /\ effects' = Append(effects, d)
      /\ calls' = [calls EXCEPT ![t] = Idle]
      /\ UNCHANGED <<now, signed, admin_requests, authorized>>
    BY DEF Execute, KeyFresh, StoreAnswer
<1>3. /\ effects \in Seq(authorized)
      /\ effects' \in Seq(authorized)
      /\ Len(effects) \in Nat
      /\ DOMAIN effects = 1 .. Len(effects)
      /\ DOMAIN effects' = 1 .. Len(effects) + 1
      /\ \A i \in DOMAIN effects : effects'[i] = effects[i]
      /\ effects'[Len(effects) + 1] = d
    BY <1>1, <1>2, AppendProperties, LenProperties DEF GateInv, TypeOK
<1>4. TypeOK'
    BY <1>1, <1>2, <1>3, IdleType DEF GateInv, TypeOK
<1>5. CallsSound'
    BY <1>2, IdleType DEF GateInv, CallsSound, TypeOK, Time
<1>6. NonceIsHeld'
    BY <1>2 DEF GateInv, NonceIsHeld
<1>7. \A i \in DOMAIN effects :
          /\ effects[i] \in authorized
          /\ effects[i].idempotency_key \in Key
          /\ effects[i].operation \in Operation
          /\ effects[i].idempotency_key # d.idempotency_key
    <2> SUFFICES ASSUME NEW i \in DOMAIN effects
                 PROVE  /\ effects[i] \in authorized
                        /\ effects[i].idempotency_key \in Key
                        /\ effects[i].operation \in Operation
                        /\ effects[i].idempotency_key # d.idempotency_key
        OBVIOUS
    <2>1. /\ effects[i] \in authorized
          /\ idempotency[effects[i].idempotency_key] = effects[i].operation
        BY DEF GateInv, EffectsAreOnRecord
    <2>2. effects[i].idempotency_key \in Key /\ effects[i].operation \in Operation
        BY <2>1 DEF GateInv, TypeOK, RequestDocument
    <2>3. QED
        BY <1>2, <2>1, <2>2, AbsentRequestAssumption
<1>8. KeysTakeEffectOnce'
    <2> SUFFICES ASSUME NEW i \in DOMAIN effects', NEW j \in DOMAIN effects',
                        effects'[i].idempotency_key = effects'[j].idempotency_key
                 PROVE  i = j
        BY DEF KeysTakeEffectOnce
    <2>1. CASE i \in DOMAIN effects /\ j \in DOMAIN effects
        BY <1>3, <2>1 DEF GateInv, KeysTakeEffectOnce
    <2>2. CASE i = Len(effects) + 1 \/ j = Len(effects) + 1
        BY <1>3, <1>7, <2>2
    <2>3. QED
        BY <1>3, <2>1, <2>2
<1>9. EffectsAreOnRecord'
    <2> SUFFICES ASSUME NEW i \in DOMAIN effects'
                 PROVE  /\ effects'[i] \in authorized
                        /\ idempotency'[effects'[i].idempotency_key]
                              = effects'[i].operation
        BY <1>2 DEF EffectsAreOnRecord
    <2>1. CASE i \in DOMAIN effects
        BY <1>2, <1>3, <1>7, <2>1 DEF GateInv, EffectsAreOnRecord, TypeOK
    <2>2. CASE i = Len(effects) + 1
        BY <1>1, <1>2, <1>3, <2>2 DEF GateInv, TypeOK
    <2>3. QED
        BY <1>3, <2>1, <2>2
<1>10. QED
    BY <1>4, <1>5, <1>6, <1>8, <1>9 DEF GateInv

LEMMA GateStep == GateInv /\ [Next]_vars => GateInv'
<1> SUFFICES ASSUME GateInv, [Next]_vars PROVE GateInv'
    OBVIOUS
<1>1. ASSUME NEW n \in Nonce, NEW k \in Key, NEW operation \in Operation,
             NEW role \in DOMAIN RoleOperations, NEW validity \in Validity,
             Sign([nonce |-> n, idempotency_key |-> k, operation |-> operation,
                   actor_role |-> role, expires_at |-> now + validity], validity)
      PROVE  GateInv'
    <2>1. now + validity \in Nat
        BY GateAssumption DEF GateInv, TypeOK, Time
    <2>2. [nonce |-> n, idempotency_key |-> k, operation |-> operation,
           actor_role |-> role, expires_at |-> now + validity] \in RequestDocument
        BY <2>1 DEF RequestDocument
    <2>3. QED
        BY <1>1, <2>2, SignStep
<1>2. ASSUME NEW t \in Thread, Finish(t) PROVE GateInv'
    <2>1. calls' \in [Thread -> CallRecord]
        BY <1>2, IdleType DEF Finish, GateInv, TypeOK
    <2>2. \A x \in Thread : calls'[x] \in {calls[x], Idle}
        BY <1>2 DEF Finish, GateInv, TypeOK
    <2>3. QED
        BY <1>2, <2>1, <2>2, CallsEnd DEF Finish
<1>3. CASE Crash
    BY <1>3, CallsEnd, IdleType DEF Crash
<1>4. CASE Tick
    <2>1. now' \in Time /\ now <= now'
        BY <1>4, GateAssumption DEF Tick, GateInv, TypeOK, Time
    <2>2. TypeOK'
        BY <1>4, <2>1 DEF Tick, GateInv, TypeOK
    <2>3. \A t \in Thread : calls[t].now \in Nat
        BY DEF GateInv, TypeOK, CallRecord, Time
    <2>4. CallsSound'
        BY <1>4, <2>1, <2>3 DEF Tick, GateInv, TypeOK, CallsSound, Time
    <2>5. QED
        BY <1>4, <2>1, <2>2, <2>4, TablesKept DEF GateInv, Tick
<1>5. CASE UNCHANGED vars
    BY <1>5, CallsEnd DEF vars, GateInv, TypeOK
<1>6. QED
    BY <1>1, <1>2, <1>3, <1>4, <1>5, ReceiveStep, AuthorizeStep, ExecuteStep DEF Next

LEMMA GateInvariant == Spec => []GateInv
BY GateInit, GateStep, PTL DEF Spec

----------------------------------------------------------------------------

(* The tables keep their types, what has passed the gate was signed, and what took
   effect had passed the gate. *)
THEOREM GateTypeCorrect == Spec => []TypeOK
BY GateInvariant, PTL DEF GateInv

(* While an admitted document is valid no other passes under its nonce, although
   the purge runs with a clock that was read before the wait for the lock. *)
THEOREM NonceIsAlwaysHeld == Spec => []NonceIsHeld
BY GateInvariant, PTL DEF GateInv

(* An idempotency key takes effect at most once, for any number of threads,
   repetitions and deaths of the process. *)
THEOREM KeysAlwaysTakeEffectOnce == Spec => []KeysTakeEffectOnce
BY GateInvariant, PTL DEF GateInv

(* Every effect was let through the gate, and its key is stored with its
   operation. *)
THEOREM EffectsAreAlwaysOnRecord == Spec => []EffectsAreOnRecord
BY GateInvariant, PTL DEF GateInv

=============================================================================
