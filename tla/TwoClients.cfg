SPECIFICATION FairSpec
CONSTANTS
    Threads = {c1, c2}
    Configs = {k1, k2}
    NULL = NULL
    FREED = FREED
    Signals = {}
    Window = 3
    Commands = {"start", "stop"}
PROPERTIES
    StoppedMeansStopped
