SPECIFICATION Spec
CONSTANTS
    None = None
    small = small
    large = large
    l1 = l1
    l2 = l2
    l3 = l3
    Uuids <- TwoParts
    Size <- Sizes
    Loads <- ThreeLoads
    Limits = {1, 3}
    MaxOrders = 2
INVARIANT MemoryBounded
INVARIANT CountedOnce
INVARIANT JoinsLiveFetch
PROPERTY EveryLoadAnswered
CHECK_DEADLOCK FALSE
