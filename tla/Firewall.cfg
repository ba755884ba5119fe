SPECIFICATION Spec
CONSTANTS
    Rules <- MCRules
    Unit = 2
    MaxSecs = 2
    MaxTime = 8
    MaxLookups = 2
INVARIANTS ClosesInTime ReadyWhenInitialized
