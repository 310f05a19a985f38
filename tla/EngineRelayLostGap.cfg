SPECIFICATION FairSpec
CONSTANTS
    RowsAt <- PlainRows
    BatchStart <- NoBatches
    MaxApps = 1
    MaxLinks = 2
    MaxSockets = 1
    MaxSeq = 3
    MaxSheds = 1
    MaxBreaks = 1
CHECK_DEADLOCK FALSE
PROPERTIES
    ShedIsTold
