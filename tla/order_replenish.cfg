SPECIFICATION FairSpec
CONSTANTS
    RefreshPolicies <- KeepAll
    MaxReplicas = 2
    Disturbances <- Growth
    MaxChanges = 2
    MaxFaults = 1
    MaxUid = 1
INVARIANTS
    TypeOK
    NeverTooMany
PROPERTIES
    ReplicasReached
CHECK_DEADLOCK FALSE
