SPECIFICATION MCSpec
CONSTANTS
    v = v
    w = w
    x = x
    c = c
    k = k
    Node = {v, w, x, c, k}
    NoAnswer = NoAnswer
INVARIANTS
    SourcesExact
    ResetStyleFound
    NoReentry
CHECK_DEADLOCK FALSE
