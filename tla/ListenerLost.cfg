SPECIFICATION Spec
CONSTANTS
    Conns = {c1, c2}
    Adapters = 1
    Handles = {h0, h1, h2, h3}
    Lists = {l1, l2}
    Listener = h0
    INVALID_SOCKET = INVALID_SOCKET
    None = None
    NULL = NULL
    MaxWsa = 3
    MaxSockets = 2
INVARIANT ListenerStays
