CONSTANTS
    merge = merge
    rebase = rebase
    Variants <- MCVariants
    Occurrences = 2
SPECIFICATION Spec
INVARIANTS OnlyFinishedBodiesCount
CHECK_DEADLOCK FALSE
