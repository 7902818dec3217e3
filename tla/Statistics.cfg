SPECIFICATION FairSpec
CONSTANTS
    Senders = {s1, s2}
    Receivers = {r}
    TunReaders = {}
    TunWriters = {w}
    Stoppers = {app, ctrl}
    NoOwner = NoOwner
    Sizes = {1}
    MaxCalls = 3
    MaxStops = 1
INVARIANTS TypeOK PacketsExact ExactButForRaces EndsOnce
PROPERTY StopReturns
