SPECIFICATION Spec
CONSTANTS
    u1 = u1
    u2 = u2
    n1 = n1
    n2 = n2
    c0 = c0
    c1 = c1
    NoUser = NoUser
    NoState = NoState
    EmptyContent = c0
    States = {"InWork", "Frozen"}
    InitialState = "InWork"
    FrozenStates = {"Frozen"}
    Users <- TwoUsers
    Admins = {}
    Nodes <- TwoNodes
    Contents <- TwoContents
    Deviations <- NoDeviations
    StaleCleanup = TRUE
    MaxTx = 3
    MaxVersion = 3
    MaxComments = 1
INVARIANT LockFollowsVersion
PROPERTY ResidueOnlyByCleanup
PROPERTY OthersWorkUntouched
SYMMETRY SymUsersNodes
CHECK_DEADLOCK FALSE
