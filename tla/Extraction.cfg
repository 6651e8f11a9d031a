SPECIFICATION Spec
CONSTANT Programs <- MCPrograms
INVARIANT MachineFound
INVARIANT NamesResolve
INVARIANT AnalysisEnds
INVARIANT ArcsPossible
INVARIANT ArcsComplete
INVARIANT CounterExact
CHECK_DEADLOCK FALSE
