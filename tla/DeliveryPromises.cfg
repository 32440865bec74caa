SPECIFICATION Spec
CONSTANTS
    MaxSaid = 3
    MaxConnections = 2
    MaxPending = 2
    OutboundQueue = 2
    Texts <- TwoTexts
INVARIANTS
    PendingIsTracked
    SentWasWritten
PROPERTIES
    DeliveredWasEchoed
    FollowsLifecycle
CHECK_DEADLOCK FALSE
