\* Two concurrent requests of one student, I/O errors and crashes.
SPECIFICATION Spec
CONSTANTS
    Npm = {n1}
    Request = {r1, r2}
    L1TTL = 1
    FileTTL = 1
    MaxLatency = 0
    ClientTimeout = 0
    CleanupPeriod = 9
    IoMayFail = TRUE
    MaxVersion = 2
    LastAsk = 3
    MaxTime = 3
    Empty = Empty
    Torn = Torn
    Error = Error
    None = None
INVARIANT TypeOK
PROPERTY ImplementsRetrieval
SYMMETRY Interchangeable
CHECK_DEADLOCK FALSE
