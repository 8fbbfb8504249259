SPECIFICATION FairSpec
CONSTANTS
    Process = {p1, p2}
    Camera = {camA, camB}
    BatchSize = 2
    MaxLen = 1
    MaxEntries = 2
    MaxCrashes = 1
INVARIANTS AckedIsWrittenOnce
PROPERTIES EntriesAreWritten
CHECK_DEADLOCK FALSE
