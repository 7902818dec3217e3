SPECIFICATION Spec
CONSTANTS
    Adapters = {a1, a2}
    NULL = NULL
    QueueBound = 2
    batch = 2
    RunFor = 1
    MaxTun = 0
    MaxNet = 2
INVARIANTS
    DeliveredOnceInOrder
SYMMETRY AdapterSymmetry
