SPECIFICATION FairSpec
CONSTANTS
    Threads = {t1, t2}
    First = t1
    CacheCap = 1
    MaxShown = 2
    Reported = {"note", "error"}
    Budgets <- DeliveryBudgets
INVARIANTS
    TypeOK
    NoEventTwice
    OneSocket
    StuckOnlyIfMissed
    NoDeadPlace
PROPERTIES
    EndStopsOnce
    NewerKeepsPlace
    Reconnects
CHECK_DEADLOCK FALSE
