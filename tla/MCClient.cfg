SPECIFICATION FairSpec
CONSTANTS
    Requests = {q1, q2}
    q1 = q1
    q2 = q2
    MaxBuffers = 2
    CanClose = TRUE
    Quiet = TRUE
    CanStray = TRUE
INVARIANTS
    BufferRefsExact
    ArgRefsExact
    FreedAfterWrites
    OutcomeOnce
PROPERTIES
    EventuallyAnswered
CHECK_DEADLOCK FALSE
