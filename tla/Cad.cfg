SPECIFICATION Spec
CONSTANTS
    None = None
    r1 = r1
    r2 = r2
    j1 = j1
    p1 = p1
    p2 = p2
    Tasks <- TwoRequests
    Requests <- TwoRequests
    Jobs <- OneJob
    Parts <- TwoParts
    PoolSize = 1
    MaxSpawned = 3
INVARIANT TypeOK
INVARIANT PoolComplete
INVARIANT NoTaskLost
INVARIANT WorkConserving
INVARIANT OwnGeometry
INVARIANT NoTruncatedPart
PROPERTY ClientsAnswered
PROPERTY DiskReclaimed
CHECK_DEADLOCK FALSE
