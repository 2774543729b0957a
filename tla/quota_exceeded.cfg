SPECIFICATION Spec
CONSTANTS
    j1 = j1
    j2 = j2
    t1 = t1
    t2 = t2
    c1 = c1
    NoJob = NoJob
    Jobs = {j1, j2}
    Threads = {t1, t2}
    ThreadOf <- OwnThread
    Cancels = {}
    MaxConcurrent = 1
    MaxTries = 2
    CancelReachesBody = FALSE
    Faults = {"lapse"}
INVARIANTS
    AtMostMaxInFlight
CHECK_DEADLOCK FALSE
