SPECIFICATION FairSpec
CONSTANTS
    MaxApps = 1
    MaxFaults = 1
    MaxCmds = 1
    MaxSocks = 3
    Dests <- OneSetting
    Lossy = FALSE
    Reordered = TRUE
CHECK_DEADLOCK FALSE
INVARIANTS
    NeverResumed
PROPERTIES
    HeldIsSettled
    DisconnectEnds
