SPECIFICATION FairSpec
CONSTANTS
    Callers = {c1}
    Operations = {"up", "down", "set"}
    Peers = {p1}
    Sockets = {s1}
    Workers = {}
    TunReader = tun
    Nobody = nobody
    QueueSize = 1
PROPERTY DownReturns
CHECK_DEADLOCK FALSE
