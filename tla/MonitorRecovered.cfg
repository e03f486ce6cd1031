\* A manual remount fails while a check probes the mount.
SPECIFICATION Spec
CONSTANTS
    old = old
    fresh = fresh
    other = other
    p1 = p1
    p2 = p2
    c1 = c1
    Checker = checker
    Mounts = {old}
    Clients = {c1}
    Paths = {p1}
    AutofsPaths = {}
    Configured = {old}
    Names = {"nas", "media"}
    Name <- MCName
    Home <- MCHome
    MaxRetries = 1
    Faults = {"exit"}
    Edits = {}
    MaxFaults = 2
    MaxRequests = 1
PROPERTIES
    RecoveryIsAnnounced
