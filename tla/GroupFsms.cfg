SPECIFICATION MCFairSpec
CONSTANTS
    v = v
    w = w
    k = k
    Node = {v, w, k}
    Machines = {v, w}
    Task <- Pairs
    Worker = {w1, w2}
    NoTask = NoTask
INVARIANTS
    GroupsExact
    NoUseAfterReturn
PROPERTY
    Terminates
CHECK_DEADLOCK FALSE
