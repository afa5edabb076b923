SPECIFICATION FeedSpec
CONSTANTS
    Symbols = {"BTC"}
    MaxId = 5
    MaxPrice = 2
    MaxQty = 1
    Limits = {1}
    History <- MCHistory
    BufCap = 2
    Self = "BTC"
INVARIANTS
    NewestIsHeld
PROPERTY
    ImplementsServedBook
