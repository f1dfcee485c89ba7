SPECIFICATION FairSpec
CONSTANTS
    Tickets <- OneTicket
    Pods <- OnePod
    Nodes <- OneNode
    PinnedNode <- AllPinned
    Mortal <- OneTicket
    MaxUid = 2
    MaxFaults = 0
    CleanupPolicy = "Delete"
    TTLSeconds = 0
    Wants <- WantsAny
    ByName <- OnePod
    Malformed = {}
    Compatible <- WantsAny
INVARIANTS
    GuardianIsOwn
PROPERTIES
    Activated
CHECK_DEADLOCK FALSE
