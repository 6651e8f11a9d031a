SPECIFICATION Spec
CONSTANT Programs <- MCPrograms
INVARIANT ZeroFalsePositive
CHECK_DEADLOCK FALSE
