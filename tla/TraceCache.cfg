SPECIFICATION CacheSpec
CONSTANTS
    b1 = b1
    b2 = b2
    s1 = s1
    c1 = c1
    c2 = c2
    o1 = o1
    k1 = k1
    k2 = k2
    u1 = u1
    u2 = u2
    r1 = r1
    r2 = r2
    r3 = r3
    east = east
    west = west
    nowhere = nowhere
    NA = NA
    Department <- MCDepartment
    Officer = {o1}
    Days = {1}
    DayHours = 2
    SoonHours = 1
    Hours = 2
    MaxChanges = 1
    MaxNotices = 2
    Camera = {k1, k2}
    Runner = {u1, u2}
    Spot <- MCSpot
    Ways <- MCWays
    Junction <- MCJunction
    Place = {east, west}
    Nowhere = nowhere
    Disc <- MCDisc
    Estates <- MCEstates
    ListMax = 1
    MaxEdits = 1
    Shot <- MCShot
    Early <- MCEarly
    Strength <- MCStrength
    Drive <- MCDrive
    Alike <- MCAlike
    Registration = {"P", "P2"}
    Metric <- MCMetric
    Policy <- MCPolicy
    Asks <- MCAsks
    Requests = {r1, r2}
    Limit = 5
    Build = {b1, b2}
    CaseRef <- MCCaseRef
    Slug <- MCSlug
    Sightings <- MCSightings
    MaxClock = 1
    MaxVersion = 1
INVARIANT ServedRouteIsWhole
CHECK_DEADLOCK FALSE
