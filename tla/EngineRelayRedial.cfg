SPECIFICATION Spec
CONSTANTS
    RowsAt <- PlainRows
    BatchStart <- NoBatches
    MaxApps = 2
    MaxLinks = 3
    MaxSockets = 2
    MaxSeq = 2
    MaxSheds = 0
    MaxBreaks = 1
CHECK_DEADLOCK FALSE
INVARIANTS
    SecondCopyNeedsPrune
