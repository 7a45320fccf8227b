SPECIFICATION FairSpec
CONSTANTS
    Configurations = {"R"}
    Orders = {0, 1}
    Replacements = {10}
    RESUMES = 1
    Jobs = {j1, j2}
    NoBuild = NoBuild
    MaxKills = 1
INVARIANTS
    TypeOK
    PlacesHeld
PROPERTY EventuallySettled
CHECK_DEADLOCK FALSE
