SPECIFICATION RFairSpec
CONSTANTS
    Symbols = {"BTC", "ETH"}
    MaxId = 5
    MaxPrice = 3
    MaxQty = 2
    Limits = {1}
    History <- MCHistory
    BufCap = 5
    Shards = {"s1", "s2"}
    ShardOf <- TwoShards
    QueueCap = 2
    Kinds = {}
    MaxStreamed = 0
    MaxFetch = 1
    Callers = {"main"}
    None = None
    Failed = Failed
    Recordings <- MCRecordings
    FrameCap = 1
    Repeats = 1
    Main = "main"
INVARIANTS
    DumpIsComplete
    DumpIsConsistent
    DumpIsOfTheRecording
PROPERTIES
    SettledIsFinal
    ReplayEnds
CHECK_DEADLOCK FALSE
