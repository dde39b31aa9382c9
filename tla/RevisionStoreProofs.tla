------------------------ MODULE RevisionStoreProofs ------------------------
(***************************************************************************)
(* Proofs about RevisionStore for every set of threads, revisions and      *)
(* encodings.                                                              *)
(***************************************************************************)
EXTENDS RevisionStore, TLAPS

LEMMA TypeInit == Init => TypeOK
BY DEF Init, TypeOK

LEMMA TypeStep == TypeOK /\ [Next]_vars => TypeOK'
<1> SUFFICES ASSUME TypeOK, [Next]_vars PROVE TypeOK'
    OBVIOUS
<1> USE DEF TypeOK, CallRecord, Stage
<1>1. ASSUME NEW k \in Caller, NEW r \in Revision, NEW b \in Encoding, Look(k, r, b)
      PROVE  TypeOK'
    BY <1>1 DEF Look
<1>2. ASSUME NEW k \in Caller, Insert(k) PROVE TypeOK'
    <2>1. calls[k].revision_id \in Revision /\ calls[k].payload \in Encoding
        OBVIOUS
    <2>2. manifests' \in [Revision -> Encoding \cup {Absent}]
        BY <1>2, <2>1 DEF Insert, Inserted
    <2>3. QED
        BY <1>2, <2>2 DEF Insert
<1>3. ASSUME NEW k \in Caller, Answer(k) PROVE TypeOK'
    BY <1>3 DEF Answer
<1>4. CASE Crash
    BY <1>4 DEF Crash
<1>5. CASE UNCHANGED vars
    BY <1>5 DEF vars
<1>6. QED
    BY <1>1, <1>2, <1>3, <1>4, <1>5 DEF Next

(* The table and the calls keep their shape. *)
THEOREM StoreTypeCorrect == Spec => []TypeOK
BY TypeInit, TypeStep, PTL DEF Spec

----------------------------------------------------------------------------
(* Immutability *)

LEMMA StepKeepsManifests ==
    ASSUME TypeOK, [Next]_vars, NEW r \in Revision, manifests[r] # Absent
    PROVE  manifests'[r] = manifests[r]
<1>1. ASSUME NEW k \in Caller, Insert(k) PROVE manifests'[r] = manifests[r]
    BY <1>1 DEF Insert, Inserted, TypeOK
<1>2. CASE UNCHANGED manifests
    BY <1>2
<1>3. QED
    BY <1>1, <1>2 DEF Next, Look, Answer, Crash, vars

(* However uploads interleave between their two statements, stored bytes are
   never replaced. *)
THEOREM ManifestsStayImmutable == Spec => ManifestsAreImmutable
<1>1. TypeOK /\ [Next]_vars =>
        [\A r \in Revision : manifests[r] # Absent => manifests'[r] = manifests[r]]_vars
    BY StepKeepsManifests
<1>2. QED
    BY <1>1, StoreTypeCorrect, PTL DEF Spec, ManifestsAreImmutable

----------------------------------------------------------------------------
(* Answers *)

LEMMA AnswersStep == TypeOK /\ AnswersAreGrounded /\ [Next]_vars => AnswersAreGrounded'
<1> SUFFICES ASSUME TypeOK, AnswersAreGrounded, [Next]_vars, NEW k \in Caller
             PROVE  LET stored == manifests'[calls'[k].revision_id]
                    IN  /\ calls'[k].stage = "stored" => stored # Absent
                        /\ calls'[k].stage = "conflict" =>
                              stored \notin {Absent, calls'[k].payload}
    BY DEF AnswersAreGrounded
<1>1. calls[k].revision_id \in Revision
    BY DEF TypeOK, CallRecord
<1>2. manifests[calls[k].revision_id] # Absent =>
          manifests'[calls[k].revision_id] = manifests[calls[k].revision_id]
    BY <1>1, StepKeepsManifests
<1>3. CASE calls'[k] = calls[k]
    BY <1>2, <1>3 DEF AnswersAreGrounded
<1>4. CASE calls'[k].stage \in {"idle", "looked"}
    BY <1>4
<1>5. ASSUME NEW j \in Caller, NEW r \in Revision, NEW b \in Encoding,
             Look(j, r, b), calls'[k] # calls[k], calls'[k].stage = "conflict"
      PROVE  manifests'[calls'[k].revision_id] \notin {Absent, calls'[k].payload}
    BY <1>5 DEF Look, Clashes, TypeOK, CallRecord
<1>6. ASSUME NEW j \in Caller, NEW r \in Revision, NEW b \in Encoding,
             Look(j, r, b), calls'[k] # calls[k]
      PROVE  calls'[k].stage # "stored"
    BY <1>6 DEF Look, TypeOK, CallRecord
<1>7. ASSUME NEW j \in Caller, Insert(j), calls'[k] # calls[k]
      PROVE  /\ calls'[k].stage = "stored"
             /\ manifests'[calls'[k].revision_id] # Absent
    <2>1. j = k /\ calls'[k] = [calls[k] EXCEPT !.stage = "stored"]
        BY <1>7 DEF Insert, TypeOK
    <2>2. calls'[k].stage = "stored" /\ calls'[k].revision_id = calls[k].revision_id
        BY <2>1 DEF TypeOK, CallRecord
    <2>3. calls[k].payload # Absent
        BY AbsentEncodingAssumption DEF TypeOK, CallRecord
    <2>4. QED
        BY <1>1, <1>7, <2>1, <2>2, <2>3 DEF Insert, Inserted, TypeOK
<1>8. ASSUME NEW j \in Caller, Answer(j) PROVE calls'[k] = calls[k] \/ calls'[k].stage = "idle"
    BY <1>8 DEF Answer, TypeOK, CallRecord
<1>9. CASE Crash
    <2>1. calls'[k].stage = "idle"
        BY <1>9 DEF Crash, TypeOK, CallRecord
    <2>2. QED
        BY <1>4, <2>1
<1>10. QED
    BY <1>3, <1>4, <1>5, <1>6, <1>7, <1>8, <1>9 DEF Next, vars

(* Success is only answered for a stored revision and Conflict only against
   other bytes. *)
THEOREM AnswersStayGrounded == Spec => []AnswersAreGrounded
<1>1. Init => AnswersAreGrounded
    BY DEF Init, AnswersAreGrounded, CallRecord
<1>2. QED
    BY <1>1, AnswersStep, StoreTypeCorrect, PTL DEF Spec

============================================================================
