CONSTANTS
    Calls = {k1, k2}
    Closers = {x1}
    EmptyReply = FALSE
SPECIFICATION FairSpec
INVARIANTS CompletedOnce OwnReply
PROPERTY CallsComplete
CHECK_DEADLOCK FALSE
