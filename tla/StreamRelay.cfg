SPECIFICATION FairSpec
CONSTANTS
    t1 = t1
    t2 = t2
    t3 = t3
    camA = camA
    None = None
    Tile <- MCThreeTiles
    Camera <- MCOneCamera
    Size <- MCSize
    Segments = 3
    CacheBytes = 3
    Concurrency = 2
    ReadAhead = 2
    MaxAsks = 3
INVARIANTS RelayIsWithinLimits
PROPERTY WaitersAreServed
CHECK_DEADLOCK FALSE
