SPECIFICATION FairSpec
CONSTANTS
    a = a
    b = b
    d1 = d1
    Tasks = {a, b}
    Daemons = {d1}
    Owner <- MCOwner
    Workspace <- MCWorkspace
    Background = {b}
    Ttl <- MCTtl
    Beat = 2
    Delay = 1
    MaxLost = 1
INVARIANTS
    ConflictsAreTold
    LeaseIsKept
    ReleasedBeforeDisconnect
PROPERTIES
    LeaseEnds
