SPECIFICATION FairSpec
CONSTANTS
    RefreshPolicies <- KeepAll
    MaxReplicas = 2
    Disturbances <- Deletions
    MaxChanges = 1
    MaxFaults = 0
    MaxUid = 1
PROPERTIES
    ReplicasReached
CHECK_DEADLOCK FALSE
