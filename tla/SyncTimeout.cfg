\* The process of a copy closes its output and does not exit.
SPECIFICATION FairSpec
CONSTANTS
    old = old
    fresh = fresh
    other = other
    Jobs = {old}
    Names = {"backup", "photos"}
    Name <- MCName
    Configured = {old}
    Targets = 2
    MaxRetries = 1
    Hangs = TRUE
    MaxFailures = 1
    MaxRequests = 0
CHECK_DEADLOCK FALSE
PROPERTIES
    RunsEnd
