\* Four requests on two channels and one reader; only r1 refers to the blob.
CONSTANTS
    Enrollment = {e1}
    Legacy = {l1}
    Device = {tv}
    Channel = {home, lab}
    TagSet = {plain, tagged}
    Revision = {r1, r2}
    Nonce = {n1}
    Absent = Absent
    NoRevision = NoRevision
    Unused = Unused
    NoReport = NoReport
    Referring = {r1}
    Key = {k1, k2, k3, k4}
    MaxInstallations = 2
    MaxGeneration = 2
SPECIFICATION ReadersSpec
SYMMETRY Symmetry
CHECK_DEADLOCK FALSE
INVARIANTS
    ReadersTypeOK
    AnswersAreTheReleases
    ServedRevisionsWereAnswered
    AssignmentsFitEnrollment
    LookupServesHead
    LookupsAnswerOneMoment
    BlobsAreReachable
    SnapshotsShowOneMoment
