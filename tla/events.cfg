SPECIFICATION FairSpec
CONSTANTS
    Runs = {r1, r2}
    Timers = {t1, t2}
    NoTimer = NoTimer
    CacheCap = 2
    MaxEvents = 3
    Faults = {"push", "publish", "db", "cancel", "setup", "crash"}
INVARIANTS
    TypeOK
    OvertakenByFinalFlush
    ChannelIsCached
PROPERTIES
    IsEventLog
    SettledAfterRun
CHECK_DEADLOCK FALSE
