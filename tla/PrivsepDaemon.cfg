SPECIFICATION PrivsepSpec
CONSTANTS
    Packets <- MCPackets
    Access <- MCAccess
    MaxSpaPacketAge = 1
    MaxSkew = 1
    DefaultFwTimeout = 3
    MaxFwTimeout = 5
    DefaultMaxEntries = 2
    MaxEntries = 1
    ReplayMaxAge = 5
    FlushAtInit = TRUE
    FlushAtExit = TRUE
    MaxQueueDelay = 1
    MaxStepBack = 1
    MaxTime = 6
    QueueLimit = 2
INVARIANTS OneShot GrantIsRemembered
PROPERTIES ImplementsOnceOnly OnlyAllowedSpend
