SPECIFICATION Spec
CONSTANTS
    Workers = {w1, w2}
    Analysts = {x1, x2}
    Alerts = {a1, a2}
    Keys = {k1, k2}
    Hints <- OneHint
    NoAlert = NoAlert
    NoPatch = NoPatch
    HistoryMax = 2
    DetectionLimit = 2
    MoveLimit = 3
INVARIANTS
    IInv
    AuditExplainsStatus
    HistoryIsAudited
SYMMETRY TeamSymmetry
CHECK_DEADLOCK FALSE
