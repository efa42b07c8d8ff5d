SPECIFICATION FeedSpec
CONSTANTS
    Workers = {w1}
    Analysts = {x1}
    Browsers = {b1}
    Alerts = {a1, a2}
    Keys = {k1}
    Hints <- TwoHints
    NoAlert = NoAlert
    NoPatch = NoPatch
    HistoryMax = 2
    DetectionLimit = 3
    MoveLimit = 3
    MaxEvents = 2
    MaxAlerts = 1
    Plans <- FourPlans
INVARIANTS
    FeedTypeOK
    CountsEveryDetection
    TwoActiveMeansReopened
    ShownIsCommitted
    QuietFeedIsCurrent
    LiveTail
PROPERTIES
    OnlyAllowedTransitions
CHECK_DEADLOCK FALSE
