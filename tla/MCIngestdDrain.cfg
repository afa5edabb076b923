SPECIFICATION ISpec
CONSTANTS
    InitialWait = 4
    MaxWait = 12
    FrameCap = 1
    MaxFailures = 1
    StageCap = 1
    Fetchers = {"f1"}
INVARIANT
    ShutdownDrains
CHECK_DEADLOCK FALSE
