SPECIFICATION Spec
CONSTANTS
    d1 = d1
    d2 = d2
    Dispatches = {d1}
    Programs = 2
    Specificity <- MCSpecificity
    Pushing = {2}
    MaxEdits = 0
CHECK_DEADLOCK FALSE
INVARIANT RefusedOnlyIfChanged
