SPECIFICATION Spec
CONSTANTS
    MaxApps = 2
    MaxFaults = 0
    MaxCmds = 1
    MaxSocks = 3
    Dests <- OneSetting
    Lossy = FALSE
    Reordered = FALSE
CHECK_DEADLOCK FALSE
INVARIANTS
    NoSessionLeftOver
