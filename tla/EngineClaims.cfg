SPECIFICATION Spec
CONSTANTS
    MaxApps = 2
    MaxFaults = 1
    MaxCmds = 1
    MaxSocks = 2
    Dests = {d1, d2}
    Lossy = TRUE
    Reordered = FALSE
SYMMETRY SettingsAlike
CONSTRAINT EditOrFault
CHECK_DEADLOCK FALSE
INVARIANTS
    TypeOK
    SinkIsClaimant
    ConnectedIsReal
    NothingForgotten
PROPERTIES
    NewestWins
