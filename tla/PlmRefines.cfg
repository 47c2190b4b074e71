SPECIFICATION Spec
CONSTANTS
    u1 = u1
    u2 = u2
    n1 = n1
    n2 = n2
    c0 = c0
    c1 = c1
    NoUser = NoUser
    NoState = NoState
    EmptyContent = c0
    States = {"InWork", "Frozen"}
    InitialState = "InWork"
    FrozenStates = {"Frozen"}
    Users <- TwoUsers
    Admins <- TwoUsers
    Nodes <- TwoNodes
    Contents <- TwoContents
    Deviations <- HistorySafe
    StaleCleanup = TRUE
    MaxTx = 3
    MaxVersion = 3
    MaxComments = 0
INVARIANT TypeOK
INVARIANT SingleDraft
INVARIANT DraftOnHead
INVARIANT LinearHistory
INVARIANT ChangeRecorded
PROPERTY ImplementsVersionedItems
PROPERTY CommittedImmutable
SYMMETRY SymUsersNodes
CHECK_DEADLOCK FALSE
