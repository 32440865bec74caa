SPECIFICATION Spec
CONSTANTS
    Page = 2
    GapPages = 3
    MaxLog = 5
    MaxHeld = 1
    MaxInterrupts = 2
    Ignoring = TRUE
    Refusals = {"AFTER", "BEFORE", "TARGETS"}
INVARIANTS
    WatermarkIsNewest
    BudgetKept
    FirstPageAnswered
PROPERTIES
    NoMessageCountedTwice
CHECK_DEADLOCK FALSE
