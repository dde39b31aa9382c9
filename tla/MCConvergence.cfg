\* Two installations, one intent, three moments.
CONSTANTS
    e1 = e1
    e2 = e2
    p1 = p1
    k1 = k1
    k2 = k2
    d1 = d1
    d2 = d2
    Enrollment = {e1, e2}
    Device = {tv, box}
    Channel = {home}
    TagSet = {plain}
    MaxInstallations = 2
    Absent = Absent
    KeyId = {p1, k1, k2, d1, d2}
    Registry <- MCRegistry
    Offline = {p1}
    Unbound = Unbound
    Bundle = {b1, b2}
    Wave = {w1}
    Skew = 1
    MaxIntentLife = 2
    MaxAssignmentLife = 1
    MaxTime = 2
    MaxIntents = 1
    MaxAccepted = 2
SPECIFICATION Spec
SYMMETRY Symmetry
CHECK_DEADLOCK FALSE
INVARIANTS
    ConvergenceTypeOK
    AssignmentsStayWithinTheIntent
    ReportsTraceToThePromoter
