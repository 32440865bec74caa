CONSTANT None = None
SPECIFICATION Spec
INVARIANTS TransfersAreTrue ReadIsFollowed QueuesKeepUp
CHECK_DEADLOCK FALSE
