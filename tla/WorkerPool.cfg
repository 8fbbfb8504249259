SPECIFICATION PoolSpec
CONSTANTS
    c1 = c1
    c2 = c2
    e1 = e1
    p1 = p1
    p2 = p2
    j1 = j1
    j2 = j2
    s1 = s1
    s2 = s2
    a1 = a1
    a2 = a2
    health = health
    unassigned = unassigned
    unlisted = unlisted
    NA = NA
    Letter <- MCLetter
    Digit <- MCDigit
    StateCode <- MCStateCode
    AlphaToDigit <- MCAlphaToDigit
    DigitToAlpha <- MCDigitToAlpha
    Measured <- MCMeasured
    Derived <- MCDerived
    Systems = {"eGujCop", "VAHAN"}
    Ids = {1, 2, 3, 4}
    Rows <- MCRows
    Seed <- MCSeed
    Severity <- MCSeverity
    NoKey = "none"
    Queries <- MCQueries
    Limit = 2
    MaxDistance = 2000
    MaxWrites = 2
    Registrations <- MCRegistrations
    MaxDamage = 2
    TrackerId = {1, 2}
    Stride = 10
    Pts = {0, 2}
    IdleFlush = 1
    MaxTracks = 1
    Sharpness = {1, 2}
    TopN = 2
    MaxExamine = 3
    StaleAfter = 1
    MaxOffers = 3
    MaxSessions = 1
    MaxAttempts = 1
    Sources <- MCSources
    Pools = {1, 2}
    MaxErrors = 2
    MaxFrames = 1
    MaxFails = 1
    Callers = {a1, a2}
    Scrapers = {1, 2}
    Cameras = {c1}
    Reports <- MCReports
    Statements <- MCStatements
    Streams <- MCStreams
    Ttl = 1
    BaselineTtl = 2
    MaxTime = 4
    Changes = 1
    Probers = {p1, p2}
    Recomputes = {j1, j2}
    Outcomes <- MCOutcomes
    Weights <- MCWeights
INVARIANT EveryCameraIsTried
CHECK_DEADLOCK FALSE
