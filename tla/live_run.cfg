SPECIFICATION FairSpec
CONSTANTS
    Plans <- MCPlans
    BuildEpisodes = 2
    Episodes = 2
    MaxKills = 2
INVARIANTS
    TypeOK
    NeverStitched
    SummaryIsWhole
PROPERTIES
    MeasurementsKept
    EventuallyPastTheBuild
CHECK_DEADLOCK FALSE
