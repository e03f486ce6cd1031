\* Three transfers in a history of two, three runs, one stop or crash, one save that fails.
SPECIFICATION Spec
CONSTANTS
    t1 = t1
    t2 = t2
    t3 = t3
    r1 = r1
    r2 = r2
    r3 = r3
    Transfers = {t1, t2, t3}
    Runs = {r1, r2, r3}
    None = none
    MaxHistory = 2
    MaxCrashes = 1
    MaxFailures = 1
    TornWrites = TRUE
SYMMETRY Symmetric
CHECK_DEADLOCK FALSE
INVARIANTS
    TypeOK
    HistoryMatchesKnown
    ActiveHasRun
    HistoryIsDurable
