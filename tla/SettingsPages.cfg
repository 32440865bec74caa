CONSTANTS
    None = None
SPECIFICATION Spec
INVARIANTS
    
    SavedAsAgreed
    LinksGoWhereAgreed
    LookIsChosen
PROPERTIES
    DataIsAsAsked
CHECK_DEADLOCK FALSE
