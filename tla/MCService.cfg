SPECIFICATION Spec
CONSTANTS
    NoJob = NoJob
    Commands = {1, 2}
    Kind <- MCKind
    IoThreads = 1
    WorkThreads = 2
CHECK_DEADLOCK FALSE
INVARIANT DestroyedUnused
PROPERTIES
    CommandsEnd
    ServiceEnds
