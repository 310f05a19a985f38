SPECIFICATION ConnectionsSpec
CONSTANTS
    Conns = {c1, c2}
    Chans = {x, y}
    Requests <- OneRequest
    Cap = 1
    MaxWalks = 1
    MaxThrows = 1
    NumNets = 2
    HostOf <- TwoHosts
    Proxied = {2}
    Presets = {"b"}
    Lists <- OneList
    MaxStreak = 1
    PerHost = 2
    Jitter = 0
    Floor = 1
    MaxObjs = 3
    MaxUnread = 1
    MaxAsked = 3
CHECK_DEADLOCK FALSE
INVARIANTS
    ConnectionsTypeOK
    CapHolds
    EveryTurnIsOwned
    NobodyWaitsForNothing
    OneWayBack
    NoOrphan
    PumpIsArmed
    NeverPinned
PROPERTIES
    NothingAskedGoingDown
    WalkEnds
    DownIsDialled
