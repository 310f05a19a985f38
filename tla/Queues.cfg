SPECIFICATION QueuesSpec
CONSTANTS
    NumBuffers = 2
    Sizes = {1, 2}
    MaxBytes = 4
    BudgetMax = 5
    MaxSeq = 4
    Mixes <- AllMixes
    Budget = 2
    LongCost = 2
    UnitLines = 2
    MaxKeyed = 1
    MaxItems = 4
    MaxSockets = 2
    Channels = {"x"}
    Peers = {"d", "e"}
    Logs <- AllLogs
    PageLimit = 2
    Fuzz = 2
    Strikes = 2
    MaxWindows = 2
    MaxUnlinked = 1
    MaxUnheard = 2
    Sessions = {u1}
    FileSize = 3
    ChunkBytes = 2
    MaxStops = 2
    MaxErrors = 2
    Conns = {c1}
    Chans = {x, y}
    Requests <- AllRequests
    Cap = 1
    MaxWalks = 2
    MaxThrows = 1
CHECK_DEADLOCK FALSE
INVARIANTS
    QueuesTypeOK
    BudgetAccounted
    BudgetBound
    HeardOnce
    RekeyIsSomewhere
    InOrder
    QueueIsCarried
    ServerReadsUs
    NothingSkipped
    WalkGoesOn
    HandedOnceAsSent
    OpenKeepsItsBytes
    WalkIsCarried
    OneStepInThePacer
PROPERTIES
    EveryBufferIsABacklog
