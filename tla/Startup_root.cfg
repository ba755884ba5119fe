SPECIFICATION Spec
CONSTANTS
    Files <- DefaultOnly
    Starts <- RootStart
    Binaries = {"fwknoxd"}
    Caps <- MCCaps
    Keeps <- OnlyFwknoxdKeeps
INVARIANT
    RootCanDropPrivileges
CHECK_DEADLOCK FALSE
