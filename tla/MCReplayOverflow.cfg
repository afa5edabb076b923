SPECIFICATION RSpec
CONSTANTS
    Symbols = {"BTC"}
    MaxId = 3
    MaxPrice = 3
    MaxQty = 2
    Limits = {1}
    History <- MCHistory
    BufCap = 1
    Shards = {"s1"}
    ShardOf <- OneShard
    QueueCap = 2
    Kinds = {}
    MaxStreamed = 0
    MaxFetch = 1
    Callers = {"main"}
    None = None
    Failed = Failed
    Recordings <- OneSnapshot
    FrameCap = 1
    Repeats = 2
    Main = "main"
INVARIANTS
    RepeatsAgree
CHECK_DEADLOCK FALSE
