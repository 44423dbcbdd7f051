\* Two goroutines on one key, every property of the cache.
SPECIFICATION Spec
CONSTANTS
    Key = {k1}
    Doc = {d1, d2}
    Caller = {c1, c2}
    TTLs <- MCTTLs
    CleanupPeriod = 2
    MaxTime = 4
    None = None
INVARIANT TypeOK
PROPERTIES LiveDropOnlyByRace ExpiredSwept CleanupTerminates
CHECK_DEADLOCK FALSE
