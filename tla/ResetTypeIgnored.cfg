SPECIFICATION MCSpec
CONSTANTS
    a = a
    b = b
    c = c
    d = d
    Name = {1, 2, 3, 4}
    ClockNames = {1}
    ResetNames = {3, 4}
    NegResetNames = {4}
    NoName = 0
    Sinks <- MCSinks
    Designs <- MCDesigns
    NoNode = NoNode
    NoDefinition = NoDefinition
    NoTop = NoTop
    TopNames = {"top", "sub", "u1", "u2", "typo"}
    Cores = {0, 1, 2, 4}
CHECK_DEADLOCK FALSE
INVARIANT
    ResetTypeHonoured
