SPECIFICATION FairSpec
CONSTANTS
    Names = {"log", "ws"}
    Cap = 2
    MaxEvents = 5
INVARIANTS
    StreamInOrder
    DropsAreCounted
    NewestIsKept
PROPERTIES
    PublishReturns
    CloseTerminates
CHECK_DEADLOCK FALSE
