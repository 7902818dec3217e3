SPECIFICATION FairSpec
CONSTANTS
    Packets = {p1, p2}
    NULL = NULL
    SizeConsumers = {}
    AllConsumers = {a1}
    capacity = 4
    batch = 2
PROPERTIES
    ImplementsQueue
    ImplementsFairQueue
