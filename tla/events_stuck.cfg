SPECIFICATION FairSpec
CONSTANTS
    Runs = {r1}
    Timers = {t1}
    NoTimer = NoTimer
    CacheCap = 2
    MaxEvents = 3
    Faults = {}
PROPERTIES
    FlushedByTimer
CHECK_DEADLOCK FALSE
