SPECIFICATION FairSpec
CONSTANTS
    j1 = j1
    j2 = j2
    t1 = t1
    t2 = t2
    c1 = c1
    NoJob = NoJob
    Jobs = {j1}
    Threads = {t1}
    ThreadOf <- OneJob
    Cancels = {}
    MaxConcurrent = 1
    MaxTries = 2
    CancelReachesBody = FALSE
    Faults = {}
PROPERTIES
    CancelledStays
CHECK_DEADLOCK FALSE
