\* Two students, one request at a time, crashes, no I/O errors.
SPECIFICATION Spec
CONSTANTS
    Npm = {n1, n2}
    Request = {r1}
    L1TTL = 1
    FileTTL = 2
    MaxLatency = 0
    ClientTimeout = 0
    CleanupPeriod = 2
    IoMayFail = FALSE
    MaxVersion = 1
    LastAsk = 4
    MaxTime = 4
    Empty = Empty
    Torn = Torn
    Error = Error
    None = None
PROPERTIES ImplementsRetrieval FetchOnlyWhenNeeded
CHECK_DEADLOCK FALSE
