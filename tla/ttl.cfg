SPECIFICATION FairSpec
CONSTANTS
    Tickets <- OneTicket
    Pods <- OnePod
    Nodes <- OneNode
    PinnedNode <- NotPinned
    Mortal <- OneTicket
    MaxUid = 1
    MaxFaults = 0
    CleanupPolicy = "Delete"
    TTLSeconds = 3600
    Wants <- WantsAny
    ByName = {}
    Malformed <- OnePod
    Compatible <- WantsAny
PROPERTIES
    ExpiredDeleted
CHECK_DEADLOCK FALSE
