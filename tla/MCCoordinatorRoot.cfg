SPECIFICATION Spec
CONSTANTS
    a = a
    b = b
    d1 = d1
    Tasks = {a, b}
    Daemons = {d1}
    Owner <- MCOwner
    Workspace <- RootWorkspace
    Background = {b}
    Ttl <- MCTtl
    Beat = 2
    Delay = 1
    MaxLost = 1
INVARIANTS
    RootConflictsAreTold
