----------------------------- MODULE Signatures -----------------------------
(***************************************************************************)
(* The registry of signing keys and what SignedDocumentVerifier makes of a *)
(* signature.  A document is a record; its field `signature` names a key.  *)
(* The payload that is signed begins with the kind of the document, as the *)
(* set of its fields does here, so a signature is good for one kind.       *)
(* Ed25519 is taken to do what it should.                                  *)
(***************************************************************************)
CONSTANTS
    KeyId,      \* ids of signing keys
    Registry,   \* the static registry: key id -> record
    Offline,    \* keys whose holders sign what they decide; others sign anything
    Unbound     \* None in the column enrollment_id of the registry

\* KINDS
Kinds == {"admin", "admin_promote", "admin_publish", "assignment",
          "convergence_assignment", "convergence_report", "promotion",
          "release_intent", "report", "revision"}

\* What __init__ makes sure of.
ASSUME RegistryAssumption ==
    /\ DOMAIN Registry \subseteq KeyId
    /\ \A k \in DOMAIN Registry :
          /\ DOMAIN Registry[k] = {"allowed_kinds", "enrollment_id"}
          /\ Registry[k].allowed_kinds \in SUBSET Kinds \ {{}}

VARIABLE signed   \* outside: documents signed with the keys in Offline

Signature == [key_id : KeyId]

\* verify_document_with_key: the holder of the key signed this very content.
Genuine(document) ==
    document.signature.key_id \in Offline => document \in signed

\* A key that belongs to an enrollment speaks for that enrollment only.
Speaks(record, document) ==
    record.enrollment_id # Unbound =>
        /\ "enrollment_id" \in DOMAIN document
        /\ document.enrollment_id = record.enrollment_id

\* Fault: `allowed_kinds` is not read.
VerifiedForAnyKind(kind, document) ==
    LET k == document.signature.key_id
    IN  /\ k \in DOMAIN Registry
        /\ Speaks(Registry[k], document)
        /\ Genuine(document)

\* Fault: `enrollment_id` of the key is not read.
VerifiedForAnyEnrollment(kind, document) ==
    LET k == document.signature.key_id
    IN  /\ k \in DOMAIN Registry
        /\ kind \in Registry[k].allowed_kinds
        /\ Genuine(document)

\* SignedDocumentVerifier.__call__
Verified(kind, document) ==
    LET k == document.signature.key_id
    IN  /\ k \in DOMAIN Registry
        /\ kind \in Registry[k].allowed_kinds
        /\ Speaks(Registry[k], document)
        /\ Genuine(document)

============================================================================
