\* A mount is disabled while its check waits out remount_delay.
SPECIFICATION FairSpec
CONSTANTS
    old = old
    fresh = fresh
    other = other
    p1 = p1
    p2 = p2
    c1 = c1
    Checker = checker
    Mounts = {old}
    Clients = {}
    Paths = {p1}
    AutofsPaths = {}
    Configured = {old}
    Names = {"nas", "media"}
    Name <- MCName
    Home <- MCHome
    MaxRetries = 1
    Faults = {}
    Edits = {"enable"}
    MaxFaults = 2
    MaxRequests = 1
PROPERTIES
    DisabledIsLeftAlone
