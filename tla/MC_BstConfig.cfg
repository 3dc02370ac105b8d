CONSTANTS
    RealmSeq <- MCRealmSeq
    UnitModes <- MCUnitModes
    AbsInputs <- MCAbsInputs
    PercentInputs <- MCPercentInputs
    MaxBuf = 3
    CellToByte = 2
    DefaultThreshold = 0
    MaxThresholdReqs = 3
    ClearRequests = TRUE
    SendMayFail = TRUE
    OpenMayFail = TRUE
    TxnMayFail = FALSE
    MonitorMayFail = FALSE
    InitialConfig <- MCInitialConfig
SPECIFICATION ConfigSpec
INVARIANTS ConfigTypeOK PluginCacheFollowsServer ThresholdReadBack
PROPERTIES PluginCacheConverges EnableProgrammed
CHECK_DEADLOCK FALSE
