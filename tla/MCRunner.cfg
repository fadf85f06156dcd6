\* Each of the four runners.
CONSTANT Kinds <- AllKinds
SPECIFICATION RunFairSpec
INVARIANT
    NoChannelLeftOpen
PROPERTIES
    FirstEndStands
    RunEnds
    CancelledCommandDies
\* A run comes to its end.
CHECK_DEADLOCK FALSE
