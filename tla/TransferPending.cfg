\* A transfer is cancelled before the task of its resume first runs.
SPECIFICATION Spec
CONSTANTS
    t1 = t1
    t2 = t2
    t3 = t3
    r1 = r1
    r2 = r2
    r3 = r3
    Transfers = {t1}
    Runs = {r1, r2}
    None = none
    MaxHistory = 2
    MaxCrashes = 0
    MaxFailures = 0
    TornWrites = TRUE
CHECK_DEADLOCK FALSE
PROPERTIES
    CancelledStays
