SPECIFICATION Spec
CONSTANTS
    Addresses = {"10.svc", "10.bob", "10.svc2", "10.bob2", "10.int", "203.att"}
    MaxBytes = 1000
    Day = 50
    Params <- DemoParams
    PrivilegedNames = {"root", "admin"}
    OffHours = {0}
    LargeRowcount = 5000
    Users <- DemoUsers
    HomeOf <- DemoHome
    SecondOf <- DemoSecond
    InternalIps = {"10.int"}
    ExternalIps = {"203.att"}
    AttackIp = "203.att"
    FirewallPorts = {80, 443}
    ScanPorts <- DemoPorts
    Sizes <- DemoSizes
    Chunk = {2, 3}
    Slack = 2
    InFlight = 2
    MaxDrain = 3
    MaxLag = 2
    DedupTtl = 40
    Budgets <- DemoBudgets
INVARIANTS
    TypeOK
    CountsWindowExactly
    FiresWithinWindow
    AttackIsDetected
    BreachEscalates
    BackgroundIsQuiet
    AcceptedIsStored
    OnlyIdlessCountTwice
CHECK_DEADLOCK FALSE
