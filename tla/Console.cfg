SPECIFICATION ConsoleSpec
CONSTANTS
    o1 = o1
    o2 = o2
    o3 = o3
    a1 = a1
    a2 = a2
    w = w
    e = e
    NA = NA
    NoOfficer = NoOfficer
    Row <- MCSightings
    Camera = {"cam01", "cam02", "cam03"}
    Estate = {"cam01", "cam02"}
    Similar <- MCSimilar
    Unreadable = {"757508300"}
    Filters <- MCFilters
    MaxTexts = 1
    MaxAsks = 3
    Passings <- MCPassings
    Placement <- MCPlacing
    Early = 2
    Queries <- MCTracings
    ReidEnabled = TRUE
    Steps = 3
    MaxSubmits = 1
    MaxSelects = 1
    MaxExports = 1
    Registered <- MCRegistered
    Removed = {"gone"}
    Whep = {"c2"}
    Sizes = {1, 2}
    Grid = 2
    Arranged <- MCLayouts
    MaxEdits = 1
    MaxOpens = 1
    Detections <- MCDetections
    Detected = 6
    Frames = {0, 1, 2}
    Limit = 2
    MaxPages = 4
    Window = 2
    Lead = 1
    Margin = 1
    Tolerance = 1
    MaxTicks = 2
    Alerts <- MCAlerts
    Ranking <- MCRank
    Waiting <- MCWaiting
    PageSize = 1
    InProcess = TRUE
    MaxSightings = 2
    MaxReads = 1
    MaxKeys = 1
    MaxDrops = 1
    CameraIds <- MCIds
    Cells = {w, e}
    Estates <- MCEstates
    RowLimit = 1
    MaxMapFeatures = 2
    MaxActs = 3
    MaxChanges = 1
    Officer <- MCOfficers
    MaxRequests = 4
INVARIANTS TrailExplainsStatus ConnectionsAreOwned BoxesAreTheFrames  TraceIsAccountedFor AnswersAreDefensible
PROPERTIES DismissalIsFinal 
CHECK_DEADLOCK FALSE
