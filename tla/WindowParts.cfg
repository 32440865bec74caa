CONSTANTS
    None = None
SPECIFICATION Spec
INVARIANTS
    StoreAgrees
    BackendIsFollowed
    TypedIsKept
    SidebarIsTrue
    PaletteIsFresh
    SearchIsOfWhatIsAsked
PROPERTIES
    MutedIsNotRaised
    LinesReadAsSaid
CHECK_DEADLOCK FALSE
