SPECIFICATION ServesFairSpec
CONSTANTS
    Symbols = {"BTC"}
    MaxId = 3
    MaxPrice = 3
    MaxQty = 2
    Limits = {1}
    History <- MCHistory
    BufCap = 2
    Shards = {"s1"}
    ShardOf <- OneShard
    QueueCap = 1
    Kinds = {"delta"}
    MaxStreamed = 0
    MaxFetch = 1
    Callers = {"c1"}
    None = None
    Failed = Failed
    Watched = "BTC"
PROPERTIES
    RouterServesBook
    CloseTerminates
    StaleBooksRecover
    QueriesReturn
CHECK_DEADLOCK FALSE
