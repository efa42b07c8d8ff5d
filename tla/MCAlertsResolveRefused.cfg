SPECIFICATION Spec
CONSTANTS
    Workers = {w1}
    Analysts = {x1}
    Alerts = {a1, a2}
    Keys = {k1}
    Hints <- OneHint
    NoAlert = NoAlert
    NoPatch = NoPatch
    HistoryMax = 2
    DetectionLimit = 2
    MoveLimit = 4
INVARIANTS
    FreshAlertNotBlocked
CHECK_DEADLOCK FALSE
