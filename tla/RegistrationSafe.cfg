SPECIFICATION Spec
CONSTANTS
    Networks <- AllNetworks
    AltNicks = 0
    MaxConnections = 3
    MaxAnnouncements = 1
    MaxLogins = 1
INVARIANTS
    GoodLoginSurvives
    KnownOrTold
    NothingAfterThePolicy
    PolicyKept
    SaidOnceRegistered
CHECK_DEADLOCK FALSE
