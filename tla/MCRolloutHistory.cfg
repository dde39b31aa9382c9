\* A paired and a static-registry device, re-assignments under two nonces, two
\* promotions of one channel.
CONSTANTS
    Enrollment = {e1}
    Legacy = {l1}
    Device = {tv}
    Channel = {home}
    TagSet = {plain}
    Revision = {r1, r2}
    Nonce = {n1, n2}
    Absent = Absent
    NoRevision = NoRevision
    MaxInstallations = 1
    MaxGeneration = 2
    MaxLog = 2
SPECIFICATION HistorySpec
SYMMETRY Symmetry
CHECK_DEADLOCK FALSE
INVARIANTS
    TypeOK
    AssignmentsFollowHeads
    ReportsAgreeWithContracts
    ActiveRevisionPerGeneration
    PromotionWasTested
    ActiveReportsWerePromoted
    PromotionsAreTheHistory
PROPERTIES
    RevokedIsFrozen
    ImplementsChannelHeads
