SPECIFICATION Spec
CONSTANTS
    EncodedLen <- MCEncodedLen
    Half = 8
    Loopback = "lo"
    U32Max = 100
    Hosts <- MCHosts
    CommandLines <- ReadmeLines
    Users = {"ok"}
    ClientFile <- MCClientFile
    DaemonFile <- MCDaemonFile
    ServerName = "server"
    Others = {}
    ClientClocks = {0, 2}
    MaxSkew = 1
    MaxTime = 4
    MaxSent = 1
    MaxTail = 1
INVARIANT
    ReadmeKnockOpens
CHECK_DEADLOCK FALSE
