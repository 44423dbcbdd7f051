\* Two goroutines on one student: one lists, the other removes.
SPECIFICATION Spec
CONSTANTS
    Nis = {n1}
    Empty = Empty
    Torn = Torn
    None = None
    Kind = {"response"}
    Doc = {d1}
    Caller = {c1, c2}
    FileTTL = 1
    MaxLatency = 1
    IoMayFail = FALSE
    MaxTime = 3
PROPERTY LiveFileServed
SYMMETRY Interchangeable
CHECK_DEADLOCK FALSE
