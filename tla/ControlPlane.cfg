\* Three requests, one hand edit or write that ends early, one reload, two starts.
SPECIFICATION Spec
CONSTANTS
    JobNames <- OneSync
    HostNames = {"nas", "box"}
    Servers = {"root@nas", "ana@nas"}
    HostnameOf <- MCHostnameOf
    Local = local
    NoHost = nohost
    Settings = {"plain", "escaped"}
    Defaults = "plain"
    Texts = {"plain", "quoted"}
    Reads <- MCReads
    Garbled = garbled
    Absent = absent
    Broken = broken
    Payloads <- MCPayloads
    HandEdits <- MCHandEdits
    InitialFiles <- MCInitialFiles
    MaxRequests = 3
    MaxUpsets = 1
    MaxReloads = 1
    MaxStarts = 2
CHECK_DEADLOCK FALSE
INVARIANTS
    TypeOK
    NamesAgree
    HostsResolve
    AnsweredIsDurable
PROPERTIES
    FileChangesWhole
