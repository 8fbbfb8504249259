SPECIFICATION EngineSpec
CONSTANTS
    w1 = w1
    w2 = w2
    e1 = e1
    low = low
    high = high
    s1 = s1
    s2 = s2
    s3 = s3
    NA = NA
    NoAlert = NoAlert
    Engine = {e1}
    Severity <- MCSeverity
    Cap = 2
    MaxWindow = 3
    MaxAlerts = 10
    MaxStops = 2
    Sightings = {s1, s2, s3}
    BestShots = {s1}
    Entry <- MCEntry
    Reads <- MCReads
    MaxProbes = 1
    Shot <- MCShot
    Early = {1, 2, 3, 5}
    Strength <- MCStrength
    Drive <- MCDrive
    Registration = {"P", "Q", "R"}
    Metric <- MCMetric
    Policy <- MCPolicy
    Placed = {"a", "b"}
    Ways = TRUE
    PlateLimit = 3
    Persist = TRUE
    Writer <- MCWriters
    Window = 2
    MaxTs = 5
    MaxReads = 4
    MaxFailures = 1
SYMMETRY EngineSymmetry
INVARIANTS OneAlertPerWindow NothingGoesMissing FoldedReadBelongs DigestsAreHonest CardIsConsistent SweepAddsUp
PROPERTIES AlertsOnlyGrow
CHECK_DEADLOCK FALSE
