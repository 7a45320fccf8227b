CONSTANTS
    a = a
    b = b
    Plan <- MCPlan
    Slugs = {a, b}
    Drafts <- MCDrafts
    MaxCrashes = 1
    CanTear = TRUE
SPECIFICATION FairSpec
INVARIANTS RowsKept
CHECK_DEADLOCK FALSE
