\* One transfer, three runs, one stop or crash, one save that fails.
SPECIFICATION FairSpec
CONSTANTS
    t1 = t1
    t2 = t2
    t3 = t3
    r1 = r1
    r2 = r2
    r3 = r3
    Transfers = {t1}
    Runs = {r1, r2, r3}
    None = none
    MaxHistory = 1
    MaxCrashes = 1
    MaxFailures = 1
    TornWrites = TRUE
CHECK_DEADLOCK FALSE
PROPERTIES
    ActiveEnds
