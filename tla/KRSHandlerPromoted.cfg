\* Promotion gives a file an age beyond its ttl.
SPECIFICATION Spec
CONSTANTS
    Npm = {n1}
    Request = {r1}
    L1TTL = 1
    FileTTL = 2
    MaxLatency = 0
    ClientTimeout = 0
    CleanupPeriod = 2
    IoMayFail = FALSE
    MaxVersion = 2
    LastAsk = 5
    MaxTime = 5
    Empty = Empty
    Torn = Torn
    Error = Error
    None = None
PROPERTY ServedWithinFileTTL
CHECK_DEADLOCK FALSE
