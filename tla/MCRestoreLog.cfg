\* Blobs stored after a backup, a killed server and a restore.
CONSTANTS
    Blob = {b1, b2, b3}
    Size <- Bytes
    Quota = 2
    Name = {night, day}
    Absent = Absent
SPECIFICATION Spec
SYMMETRY Symmetry
CHECK_DEADLOCK FALSE
INVARIANT RestoreGivesTheEpoch
