CONSTANTS
    Run = {r1}
    Worker = {w1, w2}
    MaxRetries = 2
    DLQ_MAX_ENTRIES = 2
    MaxFaults = 2
    BindInSet = TRUE
    Faulty = TRUE
    LoseUploads = FALSE
    None = None
SPECIFICATION FairSpec
INVARIANTS SucceededHasResults NoTaskLost
PROPERTIES TasksEnd
CHECK_DEADLOCK FALSE
