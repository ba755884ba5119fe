SPECIFICATION Spec
CONSTANTS
    Files <- MCFiles
    Starts <- MCStarts
    Binaries = {"fwknoxd", "fwknoxd-mock"}
    Caps <- MCCaps
    Keeps <- MCKeeps
INVARIANTS
    SandboxHolds
    KeptCapsSurvive
    ReadyMeansServing
    WorkersFailClosed
    FilterKillsNoWorker
PROPERTY
    StartSettles
CHECK_DEADLOCK FALSE
