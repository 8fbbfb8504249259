SPECIFICATION Spec
CONSTANTS
    NoAlert = NoAlert
    Writer = {w1, w2}
    Window = 2
    MaxTs = 5
    MaxReads = 4
    MaxFailures = 0
INVARIANT Separated
CHECK_DEADLOCK FALSE
