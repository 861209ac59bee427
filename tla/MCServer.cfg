SPECIFICATION FairSpec
CONSTANTS
    Requests = {1, 2, 3}
    MaxCounter = 4
    MaxBuffers = 5
    CanClose = TRUE
    Settled = TRUE
    CanReject = TRUE
INVARIANTS
    BufferRefsExact
    OnCloseWaits
PROPERTIES
    BackPressure
    EventuallyRead
    CloseCompletes
CHECK_DEADLOCK FALSE
