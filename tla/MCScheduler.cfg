\* Three tasks, the requests of one host and one of another; a queue holds two of them.
CONSTANTS
    h1 = h1
    h2 = h2
    w1 = w1
    Tasks = {t1, t2, t3}
    Hosts = {h1, h2}
    Cwds = {w1}
    NoTask = NoTask
    NoHost = NoHost
    NoCwd = NoCwd
    NoRequest = NoRequest
    HostLock = HostLock
    Requests <- CoreRequests
    MaxQueueSize = 2
    MaxTotalRunning = 1
SYMMETRY TaskSymmetry
SPECIFICATION Spec
INVARIANTS
    IndexMatchesStatus
    LocksHeldByRunningTasks
    ConflictingTasksExclude
    QueueIsPumpedDry
PROPERTIES
    ImplementsTaskBoard
