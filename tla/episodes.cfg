CONSTANTS
    merge = merge
    rebase = rebase
    Variants <- MCVariants
    Occurrences = 3
SPECIFICATION Spec
INVARIANTS TypeOK CountedMisfires NoSecondChance VerdictOnRow
           MishapsSpareTheProgram
PROPERTIES StepsInThePool
CHECK_DEADLOCK FALSE
