SPECIFICATION FairSpec
CONSTANTS
    None = None
    Job = {j1, j2}
    Server = {s1, s2}
    Limit = 2
    MaxRetries = 2
    Backoff <- FiveToTheN
    MaxFaults = 1
INVARIANTS
    QueueTypeOK
    MarksAreTrue
    DeliveredOnce
PROPERTIES
    EveryJobEnds
CHECK_DEADLOCK FALSE
