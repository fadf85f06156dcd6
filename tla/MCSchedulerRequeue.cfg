\* Mutating tasks behind a bypassing one, with a queue of one.
CONSTANTS
    h1 = h1
    h2 = h2
    w1 = w1
    Tasks = {t1, t2, t3}
    Hosts = {h1}
    Cwds = {w1}
    NoTask = NoTask
    NoHost = NoHost
    NoCwd = NoCwd
    NoRequest = NoRequest
    HostLock = HostLock
    Requests <- MutatingRequests
    MaxQueueSize = 1
    MaxTotalRunning = 1
SPECIFICATION Spec
PROPERTIES
    LockedTaskIsRequeued
