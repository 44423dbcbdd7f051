\* One configured process, its connections, their clients and the campus server.
SPECIFICATION Spec
CONSTANTS
    Host = {"campus", "campus:8443"}
    NoURL = NoURL
    Conn = {c1, c2}
    Environments <- SmallEnvironments
    Npm = {"2211700006", "x"}
    Student = {"2211700006"}
    TokenLife = 1
    NoToken = NoToken
    ClientTimeout = 2
    MaxLatency = 1
    ReadTimeout = 1
    WriteTimeout = 2
    IdleTimeout = 1
    Grace = 2
    NewGrace = 0
    MaxTokens = 1
    LastAsk = 1
    MaxTime = 6
INVARIANTS TypeOK Entitled TimeoutTold TimeBound DefaultHostAllowed
PROPERTIES CutOnlyHopeless ConnectionsFreed
CHECK_DEADLOCK FALSE
