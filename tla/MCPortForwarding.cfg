\* A local forward and two remote ones of one bind, a remote one of any port, and a
\* connection.
CONSTANTS
    l1 = l1
    r1 = r1
    r2 = r2
    r3 = r3
    r4 = r4
    b0 = b0
    b1 = b1
    Local = {l1}
    Remote = {r1, r2, r3}
    Binds = {b1, b0}
    Bind <- TwoBinds
    AnyPort = {b0}
    Conns = {c1}
    Loops = {onClose, caller}
    OnClose = onClose
    NoForward = NoForward
SPECIFICATION FairSpec
INVARIANTS
    RoutesMatchForwards
PROPERTIES
    LostForwardIsStopped
\* All forwards stopped, all connections used.
CHECK_DEADLOCK FALSE
