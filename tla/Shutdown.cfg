SPECIFICATION FairSpec
CONSTANTS
    Adapters = {a1}
    NULL = NULL
    QueueBound = 2
    batch = 2
    RunFor = 2
    MaxTun = 1
    MaxNet = 1
INVARIANTS
    NoNullList
    NoUseAfterFree
PROPERTIES
    ShutdownCompletes
    QueuedPacketsAreSent
