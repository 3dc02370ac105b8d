\* Drop-counter and feature requests with reliable timer calls and failing asic calls.
CONSTANTS
    Ids <- MCIds
    Handles <- MCHandles
    DropIntervals <- MCDropIntervals
    ClientRequests <- AllRequests
    MaxRequests = 2
    DefaultPluginInterval = 1
    QueueBound = 2
    MaxClientReqs = 3
    MaxCollects = 2
    NoHandle = NoHandle
    NoTimer = NoTimer
    StatsTimer = StatsTimer
    DeleteMayFail = FALSE
    AddMayFail = FALSE
    SbMayFail = TRUE
SPECIFICATION Spec
\* The engine idles on its empty queue once the clients are done.
CHECK_DEADLOCK FALSE
INVARIANTS TypeOK UniqueRequestIds TimersAccounted DropTimerContext StatsTimerArmed EnableMatchesAsic
PROPERTIES DropCollectProgress RegistryRefinement CollectsOnlyRegistered
