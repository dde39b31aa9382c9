\* Two installations of one device, two key pairs each, one change of a client.
CONSTANTS
    Enrollment = {e1, e2}
    Device = {tv}
    Channel = {home}
    TagSet = {plain}
    MaxInstallations = 2
    Absent = Absent
    NoKey = NoKey
    MaxKeys = 2
    MaxChanges = 1
    MaxInFlight = 1
    Steady = {e1}
SPECIFICATION FairSpec
CHECK_DEADLOCK FALSE
INVARIANTS
    SessionsTypeOK
    EnvelopesFitTheEnrollment
PROPERTIES
    EncryptionKeysAreWrittenOnce
    RevocationEndsTheSession
    CapabilitiesConverge
    EnvelopeCallsAreAnswered
