\* Two threads, two nonces, two keys, two documents.
CONSTANTS
    Thread = {t1, t2}
    Nonce = {n1, n2}
    Key = {k1, k2}
    Validity = {1, 2}
    MaxTime = 3
    MaxDocuments = 2
    Absent = Absent
SPECIFICATION Spec
SYMMETRY Symmetry
CHECK_DEADLOCK FALSE
INVARIANTS
    TypeOK
    NonceIsHeld
    KeysTakeEffectOnce
    EffectsAreOnRecord
