\* A start from the old file, no request.
SPECIFICATION Spec
CONSTANTS
    JobNames <- OneSync
    HostNames = {"nas", "box"}
    Servers = {"root@nas", "ana@nas"}
    HostnameOf <- MCHostnameOf
    Local = local
    NoHost = nohost
    Settings = {"plain", "escaped"}
    Defaults = "plain"
    Texts = {"plain", "quoted"}
    Reads <- MCReads
    Garbled = garbled
    Absent = absent
    Broken = broken
    Payloads <- PlainPayloads
    HandEdits <- MCHandEdits
    InitialFiles <- MCInitialFiles
    MaxRequests = 0
    MaxUpsets = 0
    MaxReloads = 0
    MaxStarts = 1
CHECK_DEADLOCK FALSE
INVARIANT
    MigratedToOwnHost
