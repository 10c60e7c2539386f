SPECIFICATION FairSpec
CONSTANTS
    Adapters = {a0, a1, a2}
    First = a0
    NoAdapter = NoAdapter
    EnvMay = {"drop", "idle"}
    MaxReconnectionAttempts = 1
    MaxRecoveryAttempts = 1
    ErrThreshold = 1
    StaleFailures = 1
    LocalHigh = 1
    GlobalHigh = 1
PROPERTY BrokenIsRepaired
CHECK_DEADLOCK FALSE
