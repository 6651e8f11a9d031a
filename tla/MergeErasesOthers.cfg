SPECIFICATION MCSpec
CONSTANTS
    a = a
    b = b
    c = c
    d = d
    e = e
    Fsm = {a, b, c, d, e}
    Counters = {e}
INVARIANT
    OnlyMergedErased
CHECK_DEADLOCK FALSE
