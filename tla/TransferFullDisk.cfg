\* One transfer, and a disk that is full when it is saved.
SPECIFICATION Spec
CONSTANTS
    t1 = t1
    t2 = t2
    t3 = t3
    r1 = r1
    r2 = r2
    r3 = r3
    Transfers = {t1}
    Runs = {r1}
    None = none
    MaxHistory = 2
    MaxCrashes = 0
    MaxFailures = 1
    TornWrites = TRUE
CHECK_DEADLOCK FALSE
INVARIANTS
    KnownIsPersisted
