\* Two threads upload two encodings of a revision.
CONSTANTS
    Caller = {t1, t2}
    Revision = {r1, r2}
    Encoding = {b1, b2}
    Absent = Absent
SPECIFICATION Spec
CHECK_DEADLOCK FALSE
INVARIANT SuccessStoresTheUpload
