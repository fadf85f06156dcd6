\* Large tasks, one restart, then abortActiveTasks.
CONSTANTS
    h1 = h1
    w1 = w1
    Tasks = {t1, t2, t3}
    Hosts = {h1}
    Cwds = {w1}
    NoTask = NoTask
    NoHost = NoHost
    NoCwd = NoCwd
    NoRequest = NoRequest
    HostLock = HostLock
    Requests <- OnlyLarge
    MaxQueueSize = 3
    MaxTotalRunning = 1
    MaxCrashes = 1
    MaxWriteFailures = 0
SPECIFICATION RestartSpec
PROPERTIES
    AbortPromotesNothing
