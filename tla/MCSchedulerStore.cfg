\* One large task, one failed write.
CONSTANTS
    h1 = h1
    w1 = w1
    Tasks = {t1}
    Hosts = {h1}
    Cwds = {w1}
    NoTask = NoTask
    NoHost = NoHost
    NoCwd = NoCwd
    NoRequest = NoRequest
    HostLock = HostLock
    Requests <- OnlyLarge
    MaxQueueSize = 2
    MaxTotalRunning = 1
    MaxCrashes = 0
    MaxWriteFailures = 1
SPECIFICATION FairRestartSpec
PROPERTIES
    PendingIsWritten
