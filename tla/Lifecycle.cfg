SPECIFICATION LSpec
CONSTANTS
    u1 = u1
    u2 = u2
    n1 = n1
    c0 = c0
    c1 = c1
    NoUser = NoUser
    NoState = NoState
    EmptyContent = c0
    InitialState = "InWork"
    Users <- TwoUsers
    Admins = {}
    Nodes <- OneNode
    Contents <- TwoContents
    States <- PartStates
    FrozenStates <- PartFrozen
    Deviations <- NoDeviations
    StaleCleanup = TRUE
    Transitions <- FirstTransitions
    StaleScreens = TRUE
    ParallelRequests = TRUE
    MaxTx = 3
    MaxVersion = 3
    MaxComments = 1
    Crashes = TRUE
INVARIANT HistoryFollowsLifecycle
INVARIANT OneChain
INVARIANT FrozenContentFixed
PROPERTY LocksKeepReasons
SYMMETRY SymUsers
CHECK_DEADLOCK FALSE
