\* Liveness: two tasks on one host, a queue with room for both.
CONSTANTS
    h1 = h1
    h2 = h2
    w1 = w1
    Tasks = {t1, t2}
    Hosts = {h1}
    Cwds = {w1}
    NoTask = NoTask
    NoHost = NoHost
    NoCwd = NoCwd
    NoRequest = NoRequest
    HostLock = HostLock
    Requests <- LiveRequests
    MaxQueueSize = 3
    MaxTotalRunning = 1
SPECIFICATION FairSpec
PROPERTIES
    QueuedTaskLeavesQueue
    WaiterIsAnswered
