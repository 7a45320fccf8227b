SPECIFICATION Spec
CONSTANTS
    d1 = d1
    d2 = d2
    Dispatches = {d1, d2}
    Programs = 2
    Specificity <- MCSpecificity
    Pushing = {2}
    MaxEdits = 2
INVARIANTS TypeOK 
PROPERTY OnlyConfirmedReplays
CHECK_DEADLOCK FALSE
