SPECIFICATION FairSpec
CONSTANTS
    Task = {r1, r2, r3}
    Worker = {w1, w2}
    NoTask = NoTask
    Failure = Failure
    Analyses <- MCAnalyses
INVARIANTS
    Inv
    NoUseAfterReturn
PROPERTIES
    Implements
    Terminates
CHECK_DEADLOCK FALSE
