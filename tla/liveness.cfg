SPECIFICATION FairSpec
CONSTANTS
    j1 = j1
    j2 = j2
    t1 = t1
    t2 = t2
    c1 = c1
    NoJob = NoJob
    Jobs = {j1}
    Threads = {t1}
    ThreadOf <- OneJob
    Cancels = {c1}
    MaxConcurrent = 1
    MaxTries = 2
    CancelReachesBody = TRUE
    Faults = {"lapse", "request", "enqueue", "db", "cleanup", "crash", "retry", "abort", "ttl"}
PROPERTIES
    JobSettles
    LostSlotsHeal
CHECK_DEADLOCK FALSE
