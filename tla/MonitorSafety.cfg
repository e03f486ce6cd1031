\* One mount and its re-added successor, the monitor and one HTTP client.
SPECIFICATION Spec
CONSTANTS
    old = old
    fresh = fresh
    other = other
    p1 = p1
    p2 = p2
    c1 = c1
    Checker = checker
    Mounts = {old, fresh}
    Clients = {c1}
    Paths = {p1, p2}
    AutofsPaths = {p2}
    Configured = {old}
    Names = {"nas", "media"}
    Name <- MCName
    Home <- MCHome
    MaxRetries = 2
    Faults = {"die", "stall", "vanish", "exit", "hang", "raise"}
    Edits = {"enable", "move", "delete", "add"}
    MaxFaults = 2
    MaxRequests = 2
INVARIANTS
    TypeOK
    BackoffIffExhausted
    ErrorIsAnnounced
    MountingIsExplained
PROPERTIES
    RoundsDoNotOverlap
    RefinesMountStatus
