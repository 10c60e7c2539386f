SPECIFICATION FairSpec
CONSTANTS
    Adapters = {a0, a1}
    First = a0
    NoAdapter = NoAdapter
    EnvMay = {"cancel", "drop"}
    MaxReconnectionAttempts = 1
    MaxRecoveryAttempts = 1
    ErrThreshold = 1
    StaleFailures = 1
    LocalHigh = 1
    GlobalHigh = 1
PROPERTIES
    CancelStopsRecovery
    ClosedAdapterIsRenewed
CHECK_DEADLOCK FALSE
