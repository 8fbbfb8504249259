SPECIFICATION FairSpec
CONSTANTS
    Process = {p1}
    Camera = {camA, camB}
    BatchSize = 1
    MaxLen = 2
    MaxEntries = 2
    MaxCrashes = 1
PROPERTY AtLeastOnce
CHECK_DEADLOCK FALSE
