\* A periodic registration whose timer add fails: is the request still collected?
CONSTANTS
    Ids <- MCIds
    Handles <- MCHandles
    DropIntervals <- MCDropIntervals
    ClientRequests <- DropRequests
    MaxRequests = 2
    DefaultPluginInterval = 1
    QueueBound = 2
    MaxClientReqs = 4
    MaxCollects = 2
    NoHandle = NoHandle
    NoTimer = NoTimer
    StatsTimer = StatsTimer
    DeleteMayFail = FALSE
    AddMayFail = TRUE
    SbMayFail = FALSE
SPECIFICATION Spec
\* The engine idles on its empty queue once the clients are done.
CHECK_DEADLOCK FALSE
PROPERTY DropCollectProgress
