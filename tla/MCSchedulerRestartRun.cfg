\* Large tasks, one restart: how often does a task run?
CONSTANTS
    h1 = h1
    w1 = w1
    Tasks = {t1, t2, t3}
    Hosts = {h1}
    Cwds = {w1}
    NoTask = NoTask
    NoHost = NoHost
    NoCwd = NoCwd
    NoRequest = NoRequest
    HostLock = HostLock
    Requests <- OnlyLarge
    MaxQueueSize = 2
    MaxTotalRunning = 1
    MaxCrashes = 1
    MaxWriteFailures = 0
SPECIFICATION RestartSpec
INVARIANTS
    NoSecondRun
