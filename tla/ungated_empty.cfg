SPECIFICATION Spec
CONSTANTS
    Plans <- MCPlans
    BuildEpisodes = 1
    Episodes = 1
    MaxKills = 0
INVARIANT MeasuredLibraryAdmitted
CHECK_DEADLOCK FALSE
