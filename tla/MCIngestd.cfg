SPECIFICATION IFairSpec
CONSTANTS
    InitialWait = 4
    MaxWait = 12
    FrameCap = 1
    MaxFailures = 3
    StageCap = 1
    Fetchers = {"f1"}
INVARIANTS
    NothingEntersAClosedStage
    ReturnLeavesNothing
    BackoffFollowsFailures
PROPERTY
    ShutdownEnds
CHECK_DEADLOCK FALSE
