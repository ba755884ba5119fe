SPECIFICATION Spec
CONSTANTS
    QueueLimit = 2
    SpawnsNft = TRUE
CHECK_DEADLOCK FALSE
INVARIANT StopsOnlyOnCause
