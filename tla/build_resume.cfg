CONSTANTS
    a = a
    b = b
    Plan <- MCPlan
    Slugs = {a, b}
    Drafts <- MCDrafts
    MaxCrashes = 2
    CanTear = FALSE
SPECIFICATION FairSpec
INVARIANTS TypeOK ContentsAreTheReport NeverCollides CommittedIsPaidFor
PROPERTIES CommitsFollowThePlan EventuallyBuilt
CHECK_DEADLOCK FALSE
