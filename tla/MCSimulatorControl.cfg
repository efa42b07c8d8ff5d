SPECIFICATION FairSpec
CONSTANTS
    Operators = {o1, o2}
    Calls <- DashboardCalls
    Rates = {0, 20}
    Scenarios = {"normal", "mixed"}
    Defaults <- ApiDefaults
    Config <- Environment
    BurstTicks = 4
    SyncTicks = 2
    BeatTicks = 3
    Fresh = 6
    Ttl = 7
    Absent = Absent
    RequestLimit = 2
    FaultLimit = 2
    RestartLimit = 1
INVARIANTS
    TypeOK
    SettledSettings
    PulsesExplained
    ConnectedHasRun
PROPERTIES
    EngineConverges
    BurstsEnd
    StatusConverges
