SPECIFICATION Spec
CONSTANTS
    RowsAt <- OneBatchRows
    BatchStart <- OneBatch
    MaxApps = 2
    MaxLinks = 2
    MaxSockets = 1
    MaxSeq = 4
    MaxSheds = 0
    MaxBreaks = 1
CHECK_DEADLOCK FALSE
INVARIANTS
    AckedIsPersisted
