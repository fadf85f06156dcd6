\* An exclusive and a small task.
CONSTANTS
    h1 = h1
    h2 = h2
    w1 = w1
    Tasks = {t1, t2}
    Hosts = {h1}
    Cwds = {w1}
    NoTask = NoTask
    NoHost = NoHost
    NoCwd = NoCwd
    NoRequest = NoRequest
    HostLock = HostLock
    Requests <- ExclusiveAndSmall
    MaxQueueSize = 2
    MaxTotalRunning = 2
SPECIFICATION Spec
PROPERTIES
    ExclusiveBlocksOthers
