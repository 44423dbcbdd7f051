\* The race of an expired Get with a Set, as a counterexample.
SPECIFICATION Spec
CONSTANTS
    Key = {k1}
    Doc = {d1, d2}
    Caller = {c1, c2}
    TTLs <- MCTTLs
    CleanupPeriod = 2
    MaxTime = 4
    None = None
PROPERTY LiveEntryKept
CHECK_DEADLOCK FALSE
