SPECIFICATION Spec
CONSTANTS
    Devices = {alice, bob}
    Expiring = {alice, bob}
    Workers = {w1}
    Indices = {i1, i2, i3}
    ZeroIndex = zero
    MaxEphemerals = 2
    RejectAfterMessages = 1
    QueueInboundSize = 1
SYMMETRY Interchangeable
INVARIANTS
    TypeOK
    IndexTableConsistent
    DirectionsDiffer
    KeyConfirmed
    KeyDerivedOnce
    DeliveredOnce
CHECK_DEADLOCK FALSE
