SPECIFICATION Spec
CONSTANTS
    Tickets <- OneTicket
    Pods <- TwoPods
    Nodes <- OneNode
    PinnedNode <- NotPinned
    Mortal <- OneTicket
    MaxUid = 1
    MaxFaults = 0
    CleanupPolicy = "Retain"
    TTLSeconds <- NoTTL
    Wants <- WantsAny
    ByName = {}
    Malformed = {}
    Compatible <- WantsAny
INVARIANTS
    TypeOK
    Coherence
    ExclusiveBinding
    BindRecorded
    ClaimHasPod
    PhaseNeedsFinalizer
PROPERTIES
    ClaimIrrevocable
CHECK_DEADLOCK FALSE
