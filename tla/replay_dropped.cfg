SPECIFICATION Spec
CONSTANTS
    Threads = {t1, t2}
    First = t1
    CacheCap = 1
    MaxShown = 2
    Reported = {"note", "error"}
    Budgets <- DeliveryBudgets
PROPERTIES
    ReplayIsShown
CHECK_DEADLOCK FALSE
