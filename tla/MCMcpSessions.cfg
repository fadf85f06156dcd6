\* Two profiles of one host and two sessions in turn.
CONSTANTS
    k1 = k1
    p1 = p1
    p2 = p2
    Sessions = {s1, s2}
    Chains = {k1}
    Length <- OneChain
    MaxSessions = 2
    NoSession = NoSession
    NoChain = NoChain
    Profiles = {p1, p2}
    ChainOf <- TwoProfiles
    Default = p1
SPECIFICATION FairSpec
INVARIANTS
    CachedIsKnownOrDead
PROPERTY DeadSessionIsSwept
\* The session ids of the instance run out.
CHECK_DEADLOCK FALSE
