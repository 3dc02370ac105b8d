\* Port-queue drop-counter requests for both ports against counters of
\* which two may be non-zero.
CONSTANTS
    NumPorts = 2
    NumCos = 2
    DropValues = {0, 1, 2}
    DropProfiles <- MCDropProfiles
    Absent = Absent
    All = All
    DropRequests <- MCPortQueueRequests
    ReportKinds = {FALSE}
    MaxCaptures = 1
    MaxDropReqs = 1
    SnapshotMayFail = FALSE
    TriggerMayFail = FALSE
SPECIFICATION Spec
INVARIANT DropReportComplete
