CONSTANTS
    Ids <- MCFewIds
    At <- MCFewAt
    Mine = {}
    TIMELINE_CAP = 3
    None = None
    Loads = {1}
    PAGE_SIZE = 2
    Reach = 0
    MinArchived = 1
    MaxClears = 1
    MaxJumps = 1
    MaxEvents = 2
    MaxDrops = 1
SPECIFICATION Spec
INVARIANT BeginningOutlivesADrop
CHECK_DEADLOCK FALSE
