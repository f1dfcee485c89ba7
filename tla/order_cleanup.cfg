SPECIFICATION EitherSpec
CONSTANTS
    RefreshPolicies <- TakeAway
    MaxReplicas = 1
    Disturbances <- AllChanges
    MaxChanges = 2
    MaxFaults = 0
    MaxUid = 2
INVARIANTS
    NothingForgotten
PROPERTIES
    ClaimableKept
    DeletionCascades
    StatusSettles
CHECK_DEADLOCK FALSE
