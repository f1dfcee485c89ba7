SPECIFICATION Spec
CONSTANTS
    Tickets <- OneTicket
    Pods <- TwoPods
    Nodes <- OneNode
    PinnedNode <- NotPinned
    Mortal <- OneTicket
    MaxUid = 1
    MaxFaults = 0
    CleanupPolicy = "Retain"
    TTLSeconds <- NoTTL
    Wants <- WantsAny
    ByName = {}
    Malformed = {}
    Compatible <- WantsAny
INVARIANTS
    AnnotationMeansClaimed
CHECK_DEADLOCK FALSE
