SPECIFICATION Spec
CONSTANTS
    MaxApps = 1
    MaxFaults = 0
    MaxCmds = 1
    MaxSocks = 2
    Dests <- OneSetting
    Lossy = FALSE
    Reordered = FALSE
CHECK_DEADLOCK FALSE
PROPERTIES
    ErrorsAnswerConnect
