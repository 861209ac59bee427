SPECIFICATION Spec
CONSTANTS
    NoOp = NoOp
    Reads = {r1, r2}
    Writes = {w1}
    Chained = {r2}
    Size <- TwoEach
    Ready <- OneUnit
    Supply <- NoUnits
    CanClose = TRUE
CHECK_DEADLOCK FALSE
INVARIANTS SchedExact JobLinkedOnce RefExact CalledOnce
