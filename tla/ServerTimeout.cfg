\* One connection whose download times out.
SPECIFICATION Spec
CONSTANTS
    Host = {"campus", "campus:8443"}
    NoURL = NoURL
    Conn = {c1}
    Environments <- SmallEnvironments
    Npm = {"2211700006", "x"}
    Student = {"2211700006"}
    TokenLife = 1
    NoToken = NoToken
    ClientTimeout = 2
    MaxLatency = 1
    ReadTimeout = 1
    WriteTimeout = 2
    IdleTimeout = 1
    Grace = 2
    NewGrace = 0
    MaxTokens = 1
    LastAsk = 1
    MaxTime = 6
INVARIANT TimeoutReported
CHECK_DEADLOCK FALSE
