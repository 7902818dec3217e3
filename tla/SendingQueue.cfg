SPECIFICATION FairSpec
CONSTANTS
    Packets = {p1, p2}
    NULL = NULL
    SizeConsumers = {s1, s2}
    AllConsumers = {}
    capacity = 4
    batch = 2
INVARIANTS
    TypeOK
    RingConsistent
    NoStrandedPackets
    NobodyWaitsAfterRelease
PROPERTIES
    ImplementsQueue
    ImplementsFairQueue
