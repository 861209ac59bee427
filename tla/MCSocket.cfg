SPECIFICATION FairSpec
CONSTANTS
    Clients = {c1, c2, c3}
    Peers = {p1, p2}
    None = None
    Settled = TRUE
    MaxErrors = 1
CHECK_DEADLOCK FALSE
INVARIANTS Watched FreedLast
PROPERTIES EventuallyAccepted 
