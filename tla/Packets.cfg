SPECIFICATION MCSpec
CONSTANTS
    Procs = {g1, g2, g3, g4}
    Nobody = nobody
    Max = 2
    Rounds = 2
    BlockBits = 2
    RingBlocks = 4
    Limit = 12
    Counters <- SmallCounters
    Workers = {w1, w2}
    Sources = {a}
    MaxTokens = 2
    CollectAge = 2
    Horizon = 3
    MaxBuckets = 3
    Addrs = {a, b}
    RefreshAge = 2
    MaxFaults = 2
    Width = 3
    Owners = {p, q}
    NoOwner = none
    MaxRoutes = 3
    Senders = {s1, s2}
    QueueSize = 2
    Sends = 3
    Arrivals <- SomeArrivals
    BatchSize = 4
    Capacity = 5
    EventRoom = 2
    MaxChanges = 2
    Sizes = {1, 2}
    MaxBatch = 4
    MaxPayload = 5
    MaxSegments = 3
    RxBatch = 6
    Ports = {1, 2}
    MaxTries = 1
    StdOpens = 2
    MaxOpens = 3
    Dests = {d}
    Interval = 2
    Signature <- FiveSignatures
    Jc = 2
    JcAfterI1 = 1
    JcBeforeHS = 1
    MaxTime = 5
    MaxSends = 2
    Writers = {q1, q2}
    PacketLengths = {5, 7}
    Trigger = 1
    FragmentSize = 2
    PaddingMin = 1
    PaddingMax = 3
    SmallPacket = 2
    Mtu = 6
    Header = 1
    BeforeHS = 0
    AfterI1 = 0
    DuringHS = 0
    AfterHS = 1
    Signatures = 1
    MaxWrites = 3
    MaxErrors = 2
    MaxInstances = 3
INVARIANTS
    CountIsUsers
    LoadIsShed
    RoutesAreRight
    TunsKeepPackets
    OffloadIsUndone
    BindsAreSound
    ObfuscationIsBounded
PROPERTIES
    OnlyAStaleTestStrands
    ImplementsWindow
    PacketsFlow
CHECK_DEADLOCK FALSE
