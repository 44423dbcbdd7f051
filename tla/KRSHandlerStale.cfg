\* One request spanning ticks: a document lives through both caches.
SPECIFICATION Spec
CONSTANTS
    Npm = {n1}
    Request = {r1}
    L1TTL = 1
    FileTTL = 1
    MaxLatency = 1
    ClientTimeout = 1
    CleanupPeriod = 9
    IoMayFail = FALSE
    MaxVersion = 2
    LastAsk = 4
    MaxTime = 6
    Empty = Empty
    Torn = Torn
    Error = Error
    None = None
PROPERTIES ImplementsRetrieval EveryRequestFinishes
CHECK_DEADLOCK FALSE
