SPECIFICATION FairLSpec
CONSTANTS
    u1 = u1
    u2 = u2
    n1 = n1
    c0 = c0
    c1 = c1
    NoUser = NoUser
    NoState = NoState
    EmptyContent = c0
    InitialState = "InWork"
    Users <- TwoUsers
    Admins = {}
    Nodes <- OneNode
    Contents <- TwoContents
    States <- PartStates
    FrozenStates <- PartFrozen
    Deviations <- NoDeviations
    StaleCleanup = FALSE
    Transitions <- PartTransitions
    StaleScreens = FALSE
    ParallelRequests = FALSE
    MaxTx = 4
    MaxVersion = 4
    MaxComments = 0
    Crashes = FALSE
PROPERTY ExclusiveLock
CHECK_DEADLOCK FALSE
