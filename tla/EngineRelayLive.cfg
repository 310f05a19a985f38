SPECIFICATION LiveSpec
CONSTANTS
    RowsAt <- PlainRows
    BatchStart <- NoBatches
    MaxApps = 2
    MaxLinks = 3
    MaxSockets = 1
    MaxSeq = 3
    MaxSheds = 1
    MaxBreaks = 1
CHECK_DEADLOCK FALSE
PROPERTIES
    LineSettles
