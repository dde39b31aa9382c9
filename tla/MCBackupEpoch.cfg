\* Three blobs, of which the quota admits two, and two backup destinations.
CONSTANTS
    Blob = {b1, b2, b3}
    Size <- Bytes
    Quota = 2
    Name = {night, day}
    Absent = Absent
SPECIFICATION Spec
SYMMETRY Symmetry
CHECK_DEADLOCK FALSE
INVARIANTS
    RowsHaveFiles
    BackupsFindTheirFiles
    EpochsAreConsistent
    CleanRestoreIsTheEpoch
