SPECIFICATION MCSpec
CONSTANTS
    p = p
    q = q
    Process = {p, q}
    Earlier = Earlier
    None = None
    Id = {1, 2}
    Verdict <- MCVerdict
INVARIANTS
    VerdictsExact
    NothingFromEarlier
SYMMETRY Symmetry
CHECK_DEADLOCK FALSE
