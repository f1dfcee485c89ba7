SPECIFICATION FairSpec
CONSTANTS
    Tickets <- OneTicket
    Pods <- OnePod
    Nodes <- OneNode
    PinnedNode <- AllPinned
    Mortal <- OneTicket
    MaxUid = 1
    MaxFaults = 1
    CleanupPolicy = "Delete"
    TTLSeconds = 0
    Wants <- WantsAny
    ByName = {}
    Malformed = {}
    Compatible <- WantsAny
INVARIANTS
    ClaimedReleased
    NothingForgotten
PROPERTIES
    ReservationContract
    PhaseContract
    DeletionContract
    ExpiryReturnsCapacity
    ClaimReturnsCapacity
    DeletionReturnsCapacity
CHECK_DEADLOCK FALSE
