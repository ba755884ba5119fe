SPECIFICATION Spec
CONSTANTS
    QueueLimit = 1
    SpawnsNft = FALSE
CHECK_DEADLOCK FALSE
PROPERTY ShutdownEnds
