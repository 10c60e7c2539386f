SPECIFICATION MCSpec
CONSTANTS
    Width = 4
    Host = 2
    Buckets = {1, 3, 5}
    Samples6 = 2
    Starts = {0, 6, 12}
    Moduli = {2, 4, 8}
    MaxParts = 2
    DefaultPort = 2408
    UserPort = 1
    WarpPorts = {2408, 500}
    CustomPorts = {7}
    Candidates = {1, 2, 3}
    Concurrency = 2
    Stops = {0, 1}
    QueueSizes = {2}
    MasqueWorkers = {w1, w2}
    Stoppers = {t1, t2}
    MaxEndpoints = 3
    Ports <- TwoPorts
    Customs <- CustomLists
    RangeLists <- SomeRanges
    MaxDevices = 3
    MaxFaults = 2
    MaxStarts = 3
    Attempts = 3
    MaxCrashes = 1
    MaxDials = 3
    MaxRegistered = 2
    Options <- SomeOptions
    MaxNotices = 2
    Flags <- SomeFlags
    Files <- SomeFiles
    Overrides <- SomeOverrides
INVARIANTS
    CandidatesAreRight
    ScansAreExact
    RegistrationIsKept
    StartIsClean
    NoizeStaysSound
PROPERTY ControlEnds
CHECK_DEADLOCK FALSE
