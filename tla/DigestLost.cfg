SPECIFICATION Spec
CONSTANTS
    Engine = {e1}
    Severity = {low, high}
    Cap = 1
    MaxWindow = 1
    MaxAlerts = 3
    MaxStops = 1
INVARIANT NothingIsDropped
CHECK_DEADLOCK FALSE
