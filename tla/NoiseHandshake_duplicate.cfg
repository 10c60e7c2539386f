SPECIFICATION Spec
CONSTANTS
    Devices = {alice, bob}
    Expiring = {}
    Workers = {w1, w2}
    Indices = {i1, i2}
    ZeroIndex = zero
    MaxEphemerals = 1
    RejectAfterMessages = 0
    QueueInboundSize = 1
SYMMETRY Interchangeable
INVARIANT KeyDerivedOnce
CHECK_DEADLOCK FALSE
