SPECIFICATION FairSpec
CONSTANTS
    OS = {o1}
    Known = {o1}
    Mon = Mon
    Interval = 2
    Threads = 2
    MaxStarts = 2
    MaxMonStarts = 2
    MaxViews = 1
CHECK_DEADLOCK FALSE
INVARIANTS RefExact CallbackOwed
PROPERTIES EventuallyOnline StopsReturn
