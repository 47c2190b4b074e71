SPECIFICATION Spec
CONSTANTS
    None = None
    alice = alice
    bob = bob
    ps1 = ps1
    ps2 = ps2
    Users <- TwoUsers
    Spaces <- TwoSpaces
    FirstUser = alice
    DefaultSpace = ps1
    HomeSpace <- Homes
    MaxSockets = 3
    MaxDrops = 1
    MaxMoves = 3
INVARIANT OneConnection
INVARIANT SubscriptionCurrent
INVARIANT OwnToken
PROPERTY SignsIn
PROPERTY Listens
CHECK_DEADLOCK FALSE
