SPECIFICATION Spec
CONSTANTS
    Symbols = {"BTC"}
    MaxId = 3
    MaxPrice = 3
    MaxQty = 2
    Limits = {1}
    History <- MCHistory
    BufCap = 2
    Shards = {"s1"}
    ShardOf <- OneShard
    QueueCap = 1
    Kinds = {"delta", "snapshot", "trade"}
    MaxStreamed = 1
    MaxFetch = 2
    Callers = {"c1"}
    None = None
    Failed = Failed
INVARIANTS
    TypeOK
    LiveBooksAreVenueBooks
    LiveBooksAreCurrent
    FetchesFollowTheBook
    TimedWhileStale
    NoCheckDiverges
    CloseLeavesNothing
CHECK_DEADLOCK FALSE
