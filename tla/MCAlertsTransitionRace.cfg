SPECIFICATION Spec
CONSTANTS
    Workers = {w1}
    Analysts = {x1, x2}
    Alerts = {a1, a2}
    Keys = {k1}
    Hints <- OneHint
    NoAlert = NoAlert
    NoPatch = NoPatch
    HistoryMax = 2
    DetectionLimit = 1
    MoveLimit = 3
PROPERTIES
    OnlyAllowedTransitions
CHECK_DEADLOCK FALSE
