SPECIFICATION DashSpec
CONSTANTS
    Workers = {w1, w2}
    Clients = {c1}
    Metrics = 2
    MinuteTicks = 2
    WindowTicks = 1
    BeatTicks = 1
    MinSamples = 1
    BufferSize = 3
    MinBuffer = 1
    Retrain = 3
    Limit = 2
    BeatFresh = 2
    RollFresh = 3
    LagTtl = 4
    RollTtl = 5
    Budgets <- SmallBudgets
INVARIANTS
    TypeOK
    MinutesAddUp
    WindowsAddUp
    MinutesCloseOnce
    ModelIsRecent
    RateIsLimited
    LiveIsHealthy
    DeadIsBlank
CHECK_DEADLOCK FALSE
