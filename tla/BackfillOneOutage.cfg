SPECIFICATION OneOutageSpec
CONSTANTS
    Page = 2
    GapPages = 4
    MaxLog = 12
    MaxHeld = 2
    MaxInterrupts = 0
    Ignoring = FALSE
    Refusals = {}
INVARIANTS
    GapClosedOrNoted
CHECK_DEADLOCK FALSE
