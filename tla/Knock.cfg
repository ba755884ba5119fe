SPECIFICATION Spec
CONSTANTS
    EncodedLen <- MCEncodedLen
    Half = 8
    Loopback = "lo"
    U32Max = 100
    Hosts <- MCHosts
    CommandLines <- MCCommandLines
    Users = {"ok", "control"}
    ClientFile <- MCClientFile
    DaemonFile <- MCDaemonFile
    ServerName = "server"
    Others <- MCOthers
    ClientClocks = {0, 2}
    MaxSkew = 1
    MaxTime = 4
    MaxSent = 1
    MaxTail = 1
INVARIANTS
    ActsOnWhatWasSent
    HearsEveryClient
    PipelineAgrees
    ClockIsExact
PROPERTY
    LoopComesRound
CHECK_DEADLOCK FALSE
