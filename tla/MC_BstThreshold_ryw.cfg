CONSTANTS
    RealmSeq <- MCRealmSeq
    UnitModes <- MCUnitModes
    AbsInputs <- MCAbsInputs
    PercentInputs <- MCPercentInputs
    MaxBuf = 3
    CellToByte = 2
    DefaultThreshold = 0
    MaxThresholdReqs = 3
    ClearRequests = FALSE
    SendMayFail = FALSE
    OpenMayFail = FALSE
    TxnMayFail = FALSE
    MonitorMayFail = FALSE
    InitialConfig <- MCInitialConfig
SPECIFICATION Spec
CHECK_DEADLOCK FALSE
PROPERTY GetReturnsProgrammed
