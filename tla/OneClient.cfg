SPECIFICATION FairSpec
CONSTANTS
    Threads = {c1}
    Configs = {k1, k2}
    NULL = NULL
    FREED = FREED
    Signals = {"ctrlC", "ctrlShutdown", "ctrlClose", "ctrlBreak", "ctrlLogoff"}
    Window = 3
    Commands = {"start", "stop", "kill", "configure", "bad"}
INVARIANTS
    TypeOK
    OneSetOfWorkers
    WorkersHaveEverything
    ExitAfterWorkers
    OnlyEndingFaults
    ResultIsPrinted
PROPERTIES
    StoppedMeansStopped
    RunningOrAllDown
    EveryClientEnds
