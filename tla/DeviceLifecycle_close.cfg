SPECIFICATION ClosingSpec
CONSTANTS
    Callers = {c1}
    Operations = {"up", "down", "set", "unbind", "close"}
    Peers = {p1}
    Sockets = {}
    Workers = {w1}
    TunReader = tun
    Nobody = nobody
    QueueSize = 2
PROPERTY CloseEndsTheWorkers
CHECK_DEADLOCK FALSE
