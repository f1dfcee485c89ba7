SPECIFICATION FairSpec
CONSTANTS
    Tickets <- OneTicket
    Pods <- OnePod
    Nodes <- OneNode
    PinnedNode <- NotPinned
    Mortal <- OneTicket
    MaxUid = 1
    MaxFaults = 1
    CleanupPolicy = "Retain"
    TTLSeconds <- NoTTL
    Wants <- WantsAny
    ByName = {}
    Malformed = {}
    Compatible <- WantsAny
PROPERTIES
    Activated
CHECK_DEADLOCK FALSE
