\* Three threads upload two encodings of two revisions.
CONSTANTS
    Caller = {t1, t2, t3}
    Revision = {r1, r2}
    Encoding = {b1, b2}
    Absent = Absent
SPECIFICATION Spec
CHECK_DEADLOCK FALSE
INVARIANTS
    AnswersAreGrounded
PROPERTY ManifestsAreImmutable
