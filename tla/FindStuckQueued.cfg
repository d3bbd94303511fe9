CONSTANTS
    Run = {r1}
    Worker = {w1}
    MaxRetries = 3
    DLQ_MAX_ENTRIES = 2
    MaxFaults = 0
    BindInSet = FALSE
    Faulty = FALSE
    LoseUploads = FALSE
    None = None
SPECIFICATION FairSpec
PROPERTY DeliveredRunsLeaveQueued
CHECK_DEADLOCK FALSE
