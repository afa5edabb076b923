SPECIFICATION Spec
CONSTANTS
    Producers = {"ingest", "fetch"}
    QueueCap = 2
    Faults = {}
    MaxHour = 2
    MaxOffered = 3
    MaxHeld = 1
    MaxRuns = 1
INVARIANT WrittenIsOnDisk
CHECK_DEADLOCK FALSE
