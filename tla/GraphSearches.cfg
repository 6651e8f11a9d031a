SPECIFICATION MCFairSpec
CONSTANTS
    r = 1
    s = 2
    k = 3
    Node = {1, 2, 3, 4}
    NoAnswer = NoAnswer
INVARIANTS
    Inv
    AnswersExact
    SinksNearestFirst
    RouteExact
    PipelinedExact
PROPERTIES
    Implements
    Terminates
    Ends
CHECK_DEADLOCK FALSE
