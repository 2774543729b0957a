SPECIFICATION Spec
CONSTANTS
    Names = {f1, f2}
    Budgets <- TwoRuns
PROPERTIES
    StagingSucceeds
CHECK_DEADLOCK FALSE
