CONSTANTS
    p1 = p1
    p2 = p2
    Programs <- MCPrograms
    Undeclared <- MCUndeclared
    MismatchBound = 3
SPECIFICATION Spec
INVARIANTS TypeOK TornOnlyByCrash MismatchWithdraws HistoryExact HistoryNeverAhead
PROPERTIES StatusOnlyForward SweepChangesNoVerdict ImplementsPool
CHECK_DEADLOCK FALSE
