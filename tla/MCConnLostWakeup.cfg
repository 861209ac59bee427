SPECIFICATION FairSpec
CONSTANTS
    NoOp = NoOp
    Reads = {}
    Writes = {w1, w2}
    Chained = {}
    Size <- OneEach
    Ready <- WriteUnits
    Supply <- NoUnits
    CanClose = FALSE
CHECK_DEADLOCK FALSE
PROPERTIES EventuallyCalled
