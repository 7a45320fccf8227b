SPECIFICATION Spec
CONSTANTS
    EVALUATION <- MCEvaluation
    Mined <- MCMined
    Target <- MCTarget
    Variants = {"merge"}
    MaxKills = 1
INVARIANT DecidedOnItsOwnState
CHECK_DEADLOCK FALSE
