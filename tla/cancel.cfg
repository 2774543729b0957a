SPECIFICATION Spec
CONSTANTS
    j1 = j1
    j2 = j2
    t1 = t1
    t2 = t2
    c1 = c1
    NoJob = NoJob
    Jobs = {j1, j2}
    Threads = {t1}
    ThreadOf <- SameThread
    Cancels = {c1}
    MaxConcurrent = 1
    MaxTries = 2
    CancelReachesBody = TRUE
    Faults = {"retry", "abort"}
INVARIANTS
    SettledStatus
PROPERTIES
    SignalHeeded
SYMMETRY Symmetry
CHECK_DEADLOCK FALSE
