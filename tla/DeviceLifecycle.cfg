SPECIFICATION Spec
CONSTANTS
    Callers = {c1, c2}
    Operations = {"up", "down", "set", "unbind", "close"}
    Peers = {p1}
    Sockets = {s1}
    Workers = {}
    TunReader = tun
    Nobody = nobody
    QueueSize = 1
SYMMETRY Interchangeable
INVARIANTS
    TypeOK
    NoSendOnClosedQueue
    DownIsSilent
    UpRunsPeers
    PeersAreWhole
    NothingRunsAfterClose
CHECK_DEADLOCK FALSE
