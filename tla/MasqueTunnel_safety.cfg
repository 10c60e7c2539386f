SPECIFICATION Spec
CONSTANTS
    Adapters = {a0, a1, a2}
    First = a0
    NoAdapter = NoAdapter
    EnvMay = {"return", "outbound", "drop", "idle"}
    MaxReconnectionAttempts = 2
    MaxRecoveryAttempts = 1
    ErrThreshold = 1
    StaleFailures = 1
    LocalHigh = 1
    GlobalHigh = 1
SYMMETRY Spares
INVARIANTS
    TypeOK
    SingleLiveAdapter
    ClosedAdapterIsReplaced
PROPERTY OnlyTheDrainLosesWakeups
CHECK_DEADLOCK FALSE
