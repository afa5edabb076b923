SPECIFICATION FairSpec
CONSTANTS
    Producers = {"ingest", "fetch"}
    QueueCap = 1
    Faults = {"create", "meta", "write", "flush"}
    MaxHour = 2
    MaxOffered = 4
    MaxHeld = 1
    MaxRuns = 2
INVARIANTS
    NothingLostSilently
    DropsAreMarked
    FileOpensWithMeta
    FileInOrder
PROPERTY
    CloseTerminates
CHECK_DEADLOCK FALSE
