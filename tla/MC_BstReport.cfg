\* Get-report and clear-stats requests with failing snapshots, and top,
\* top port-queue and port drop-counter requests.
CONSTANTS
    NumPorts = 2
    NumCos = 2
    DropValues = {0, 1, 2}
    DropProfiles <- MCDropProfiles
    Absent = Absent
    All = All
    DropRequests <- MCReportRequests
    ReportKinds = {FALSE}
    MaxCaptures = 4
    MaxDropReqs = 1
    SnapshotMayFail = TRUE
    TriggerMayFail = TRUE
SPECIFICATION Spec
\* Once the request bounds are reached only clear-stats remains, which is
\* always enabled.
INVARIANTS RotationInvariant SortSelectsTopN DropReportComplete
