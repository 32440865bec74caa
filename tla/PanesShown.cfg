CONSTANTS
    query = query
    renamed = renamed
    net = net
    Conversations <- MCConversations
    NetworkOf <- MCNetworkOf
    Queries = {query, renamed}
    Mixed = {}
    Directions = {"row"}
    Ratios = {50}
    MaxViews = 3
    MaxHeld = 1
    Kinds = {"anchor", "filter", "input", "latest", "jump"}
    HISTORY_CAP = 2
    None = None
SPECIFICATION Spec
INVARIANTS NothingCarriedOver HistoryNamesActive
PROPERTIES LeavingClearsTheSeam RestoredInOrder
CHECK_DEADLOCK FALSE
