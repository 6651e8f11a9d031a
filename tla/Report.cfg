SPECIFICATION MCFairSpec
CONSTANTS
    f = f
    g = g
    m = m
    n = n
    o = o
    x = x
    Task = {f, g}
    Constant = {m, n, o, x}
    Value = {0, 1, 2}
    Worker = {w1, w2}
    NoTask = NoTask
    NoState = NoState
INVARIANTS
    Complete
    ArcsExpected
    EveryPairOnce
    PrintedExact
    FailsOnlyForEmptyCounter
    PairsExact
    JsonWellFormed
PROPERTY
    Ends
CHECK_DEADLOCK FALSE
