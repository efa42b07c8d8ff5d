\* Two workers share two partitions; every fault but a graceful stop may strike once.
SPECIFICATION Spec
CONSTANTS
    w1 = w1
    w2 = w2
    Workers = {w1, w2}
    p1 = p1
    p2 = p2
    Partitions = {p1, p2}
    e1 = e1
    e2 = e2
    Events = {e1, e2}
    Invalid = Invalid
    Undecodable = Undecodable
    NoWorker = NoWorker
    BatchMax = 2
    PublishCap = 1
    MaxLog = 2
    FaultLimit <- GroupFaults
SYMMETRY GroupSymmetry
INVARIANTS
    IInv
    NoSilentLoss
    PublishedAreStored
PROPERTIES
    OffsetsNeverRegress
    ImplementsDelivery
CHECK_DEADLOCK FALSE
