SPECIFICATION Spec
CONSTANTS
    Clients = {k1, k2}
    Settings = {Default}
    Default = Default
    Garbage = Garbage
    NoFile = NoFile
    Empty = Empty
    NAdapters = 2
    DefaultName = 1
    MaxNames = 2
    FirstPort = 3
    Ports = 4
    Uids = 4
INVARIANTS TypeOK OnlyAskedFor EmptyOnlyMidWrite CompletedPutsSurvive NamesAlive ConfigsDistinct
SYMMETRY Symmetry
