SPECIFICATION SingleSpec
CONSTANTS
    Packets <- MCPackets
    Access <- MCAccess
    MaxSpaPacketAge = 1
    MaxSkew = 1
    DefaultFwTimeout = 3
    MaxFwTimeout = 5
    DefaultMaxEntries = 2
    MaxEntries = 1
    ReplayMaxAge = 4
    FlushAtInit = TRUE
    FlushAtExit = TRUE
    MaxQueueDelay = 0
    MaxStepBack = 1
    MaxTime = 5
INVARIANTS TypeOK OneShot GrantIsRemembered NothingOnlyInRam
PROPERTIES ImplementsOnceOnly
