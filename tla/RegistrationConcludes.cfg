SPECIFICATION FairSpec
CONSTANTS
    Networks <- AllNetworks
    AltNicks = 0
    MaxConnections = 1
    MaxAnnouncements = 1
    MaxLogins = 0
PROPERTIES
    RegistrationConcludes
CHECK_DEADLOCK FALSE
