\* A job is triggered while a run of it is under way.
SPECIFICATION Spec
CONSTANTS
    old = old
    fresh = fresh
    other = other
    Jobs = {old}
    Names = {"backup", "photos"}
    Name <- MCName
    Configured = {old}
    Targets = 2
    MaxRetries = 1
    Hangs = FALSE
    MaxFailures = 0
    MaxRequests = 1
CHECK_DEADLOCK FALSE
INVARIANTS
    TriggerIsHonoured
