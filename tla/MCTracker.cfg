SPECIFICATION Spec
CONSTANTS
    Symbols <- MCSymbols
    MaxId = 4
    MaxPrice = 5
    MaxQty = 2
    Limits = {1, 3}
    History <- MCHistory
    BufCap = 2
    Self = "BTC"
INVARIANTS
    TypeOK
    LiveBookIsVenueBook
    LiveNotCrossed
    NoDivergenceAtZeroSkew
PROPERTY
    LiveNeverRewinds
