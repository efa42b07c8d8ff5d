\* The worker crashes once and is restarted; is every committed event stored?
SPECIFICATION Spec
CONSTANTS
    w1 = w1
    p1 = p1
    Workers = {w1}
    Partitions = {p1}
    e1 = e1
    e2 = e2
    Events = {e1, e2}
    Invalid = Invalid
    Undecodable = Undecodable
    NoWorker = NoWorker
    BatchMax = 2
    PublishCap = 1
    MaxLog = 3
    FaultLimit <- OneCrash
INVARIANTS
    CommittedAreStored
CHECK_DEADLOCK FALSE
