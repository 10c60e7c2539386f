SPECIFICATION MCSpec
CONSTANTS
    Conns = {c1}
    Packets = 1
    Senders = {s1}
    Networks <- DialNetworks
    DnsServers = 1
    ExchangeTime = 1
    MaxUnclosed = 1
    MaxTime = 1
    Allowances = {1}
    SaneMinimum = 2
PROPERTY FirstEndCloses
CHECK_DEADLOCK FALSE
