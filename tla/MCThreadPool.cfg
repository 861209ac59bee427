SPECIFICATION FairSpec
CONSTANTS
    Jobs = {j1, j2}
    j1 = j1
    j2 = j2
    NoJob = NoJob
    MaxInserts = 2
INVARIANTS
    NoLostWakeup
    InOnePlace
    DestroyDrains
PROPERTIES
    WorkAndPoolEnd
    ImplementsJobQueue
