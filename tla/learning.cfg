CONSTANTS
    Sessions = {"e", "l0", "l1", "l2"}
    Accounted = {"e"}
    Abridged = {"l1", "l2"}
    Groups <- MCGroups
    MaxSteps = 2
    MaxToolCalls = 2
    NudgeMargin = 1
    BatchBound = 2
    Faults = {1, 2, 3, 4, 5, 6}
    Seeds = {0, 1, 2, 3, 4, 5}
    Variants <- MCVariants
    Declared <- MCDeclared
    StateOf <- MCStateOf
    Claimed <- MCClaimed
    Label <- MCLabel
    Acceptable <- MCAcceptable
    RealConflicts = {1}
    Tasks <- MCTasks
    Texts <- MCTexts
    Names = 4
SPECIFICATION FairSpec
INVARIANTS
    TypeOK
    ConversationIsValid
    SolveIsBounded
    AcceptableIsWhatPasses
    SoundAdmission
    RevisionSeesWrongFires
    NothingOverwritten
PROPERTIES
    PassLosesNothing
    EverySessionEnds
CHECK_DEADLOCK FALSE
