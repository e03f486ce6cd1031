\* Two mounts, no HTTP client on them: the monitor alone against the faults.
SPECIFICATION FairSpec
CONSTANTS
    old = old
    fresh = fresh
    other = other
    p1 = p1
    p2 = p2
    c1 = c1
    Checker = checker
    Mounts = {old, other}
    Clients = {}
    Paths = {p1, p2}
    AutofsPaths = {}
    Configured = {old, other}
    Names = {"nas", "media"}
    Name <- MCName
    Home <- MCHome
    MaxRetries = 1
    Faults = {"die", "stall", "exit", "hang", "raise"}
    Edits = {"enable"}
    MaxFaults = 2
    MaxRequests = 1
INVARIANTS
    BackoffHonoured
PROPERTIES
    RoundsFinish
    MountingPasses
    Converges
