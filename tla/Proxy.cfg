SPECIFICATION MCSpec
CONSTANTS
    Conns = {c1}
    Packets = 3
    Senders = {s1, s2}
    Networks <- DialNetworks
    DnsServers = 1
    ExchangeTime = 1
    MaxUnclosed = 1
    MaxTime = 5
    Allowances = {2, 5}
    SaneMinimum = 2
INVARIANTS
    ConnectionsAreClean
    UdpIsReleased
    DialIsThorough
PROPERTY ProxyEnds
CHECK_DEADLOCK FALSE
