\* Two clients and three requests; one command at a time, one request per socket.
CONSTANTS
    a = a
    b = b
    r1 = r1
    r2 = r2
    r3 = r3
    Newline = Newline
    MaxRemainder = 4
    Clients = {a, b}
    Requests = {r1, r2, r3}
    ClientOf <- MCClientOf
    LaneOf <- MCLaneOf
    Lengths <- MCLengths
    LaneLimit <- MCLaneLimit
    MaxPerSocket = 1
    MaxChunk = 3
    MaxLinks <- MCMaxLinks
SPECIFICATION FairSpec
CHECK_DEADLOCK FALSE
INVARIANTS
    CapacityIsExact
    RequestsArriveInOrder
PROPERTIES
    SendSettles
