SPECIFICATION TrafficSpec
CONSTANTS
    NoOp = NoOp
    Reads = {}
    Writes = {w1, w2}
    Chained = {}
    Size <- TwoEach
    Ready <- WriteUnit
    Supply <- WriteThree
    CanClose = FALSE
CHECK_DEADLOCK FALSE
INVARIANTS WireInOrder
PROPERTIES EventuallyCalled
