\* Two goroutines in one directory, with I/O errors and crashes.
SPECIFICATION Spec
CONSTANTS
    Nis = {n1}
    Empty = Empty
    Torn = Torn
    None = None
    Kind = {"response"}
    Doc = {d1, d2}
    Caller = {c1, c2}
    FileTTL = 1
    MaxLatency = 1
    IoMayFail = TRUE
    MaxTime = 3
INVARIANTS TypeOK OpenFileKept
PROPERTIES RemovesOnlyExpired SettledIsFinal
SYMMETRY Interchangeable
CHECK_DEADLOCK FALSE
