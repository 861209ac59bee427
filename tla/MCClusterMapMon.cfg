SPECIFICATION Spec
CONSTANTS
    MaxBSets = 5
    MaxReplicas = 3
    MaxServices = 4
    MaxCrashes = 1
CHECK_DEADLOCK FALSE
INVARIANTS IndexesAgree ServesWhole Balanced
