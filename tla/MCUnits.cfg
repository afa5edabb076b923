SPECIFICATION MCSpec
CONSTANTS
    Width = 5
    TextLen = 5
    MaxDecimals = 2
    Bounds = {2, 4}
    Durations <- MCDurations
    Percents = {0, 50, 99, 100}
    Observers = {"shard", "main"}
    MaxObserved = 4
INVARIANTS
    FixedPointIsExact
    ScanFindsTheValue
    QuantileIsBracketed
CHECK_DEADLOCK FALSE
