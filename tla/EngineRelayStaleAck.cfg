SPECIFICATION Spec
CONSTANTS
    RowsAt <- PlainRows
    BatchStart <- NoBatches
    MaxApps = 1
    MaxLinks = 2
    MaxSockets = 2
    MaxSeq = 3
    MaxSheds = 0
    MaxBreaks = 1
CHECK_DEADLOCK FALSE
INVARIANTS
    AckedIsPersisted
