\* One address, two requests at the same time and the sweep.
SPECIFICATION Spec
CONSTANTS
    Ip = {a1}
    NotAnIp = NotAnIp
    TrustProxy = TRUE
    Request = {r1, r2}
    LimiterId = {l1, l2, l3}
    Rate = 1
    Burst = 2
    IdleLimit = 2
    CleanupPeriod = 2
    MaxLatency = 1
    MaxTime = 6
    None = None
INVARIANT TypeOK
PROPERTIES ImplementsTokenBucket ChargedToItsAddress VisitorForgotten
CHECK_DEADLOCK FALSE
