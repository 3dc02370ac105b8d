\* An interval change while reports are on: does the timer follow it?
CONSTANTS
    Ids <- MCIds
    Handles <- MCHandles
    DropIntervals <- MCDropIntervals
    ClientRequests <- FeatureRequests
    MaxRequests = 2
    DefaultPluginInterval = 1
    QueueBound = 2
    MaxClientReqs = 3
    MaxCollects = 2
    NoHandle = NoHandle
    NoTimer = NoTimer
    StatsTimer = StatsTimer
    DeleteMayFail = FALSE
    AddMayFail = FALSE
    SbMayFail = FALSE
SPECIFICATION Spec
\* The engine idles on its empty queue once the clients are done.
CHECK_DEADLOCK FALSE
INVARIANT StatsTimerInterval
