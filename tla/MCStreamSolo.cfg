\* One worker: what a redelivery does, and that nothing gets stuck.
SPECIFICATION FairSpec
CONSTANTS
    w1 = w1
    p1 = p1
    Workers = {w1}
    Partitions = {p1}
    e1 = e1
    e2 = e2
    Events = {e1, e2}
    Invalid = Invalid
    Undecodable = Undecodable
    NoWorker = NoWorker
    BatchMax = 2
    PublishCap = 1
    MaxLog = 3
    FaultLimit <- SoloFaults
INVARIANTS
    RedeliveryEvaluatesOnce
PROPERTIES
    EveryEventIsHandled
CHECK_DEADLOCK FALSE
