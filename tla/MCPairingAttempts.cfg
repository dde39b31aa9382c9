\* Guesses of a code with a limit of one attempt.
CONSTANTS
    Enrollment = {e1, e2}
    Device = {tv, box}
    Channel = {home}
    TagSet = {plain, tagged}
    MaxInstallations = 2
    Absent = Absent
    Code = {p1, p2}
    KeyId = {k1, k2}
    RoleSet = {reader}
    Lifetime = {1}
    Attempts = {1}
    MaxTime = 2
    MaxWaiting = 2
    MaxGrants = 2
    MaxMisses = 2
SPECIFICATION HistorySpec
SYMMETRY Symmetry
CHECK_DEADLOCK FALSE
INVARIANT AttemptsAreLimited
