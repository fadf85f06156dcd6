\* Two tasks, one restart, one failed write.
CONSTANTS
    h1 = h1
    w1 = w1
    Tasks = {t1, t2}
    Hosts = {h1}
    Cwds = {w1}
    NoTask = NoTask
    NoHost = NoHost
    NoCwd = NoCwd
    NoRequest = NoRequest
    HostLock = HostLock
    Requests <- RestartRequests
    MaxQueueSize = 1
    MaxTotalRunning = 1
    MaxCrashes = 1
    MaxWriteFailures = 1
SYMMETRY TaskSymmetry
SPECIFICATION RestartSpec
INVARIANTS
    CleanStoreIsExact
PROPERTIES
    DiskTerminalIsFinal
