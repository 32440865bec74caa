CONSTANTS
    Ids <- MCIds
    At <- MCAt
    Mine = {}
    TIMELINE_CAP = 3
    None = None
    Loads = {1}
    PAGE_SIZE = 2
    Reach = 0
    MinArchived = 1
    MaxClears = 0
    MaxJumps = 1
    MaxEvents = 2
    MaxDrops = 1
SPECIFICATION Spec
INVARIANTS WindowIsWhole BeginningIsTheBeginning
PROPERTIES AskedOnce
CHECK_DEADLOCK FALSE
