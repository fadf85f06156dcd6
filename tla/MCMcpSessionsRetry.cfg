\* An operation with the default profile is retried.
CONSTANTS
    k1 = k1
    p1 = p1
    p2 = p2
    Sessions = {s1, s2}
    Chains = {k1}
    Length <- OneChain
    MaxSessions = 2
    NoSession = NoSession
    NoChain = NoChain
    Profiles = {p1}
    ChainOf <- OneProfile
    Default = p1
SPECIFICATION Spec
PROPERTY RetryIsFresh
\* The session ids of the instance run out.
CHECK_DEADLOCK FALSE
