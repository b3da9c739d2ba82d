SPECIFICATION Spec
CONSTANTS
    MaxAsked = 2
    MaxPipe = 2
INVARIANT LostIsClosed
CHECK_DEADLOCK FALSE
