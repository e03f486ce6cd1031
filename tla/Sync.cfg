\* A job, its re-added successor and another job, two targets each.
SPECIFICATION FairSpec
CONSTANTS
    old = old
    fresh = fresh
    other = other
    Jobs = {old, fresh, other}
    Names = {"backup", "photos"}
    Name <- MCName
    Configured = {old, other}
    Targets = 2
    MaxRetries = 1
    Hangs = TRUE
    MaxFailures = 1
    MaxRequests = 2
CHECK_DEADLOCK FALSE
INVARIANTS
    TypeOK
    VerdictCoversAllTargets
PROPERTIES
    RunsDoNotOverlap
    DueJobRuns
