\* Two configs of a chain with a jump host and one of a direct one; room for one
\* session less than there are ids.
CONSTANTS
    k1 = k1
    k2 = k2
    c1 = c1
    c2 = c2
    c3 = c3
    Sessions = {s1, s2, s3}
    Chains = {k1, k2}
    Length <- TwoChains
    MaxSessions = 2
    NoSession = NoSession
    NoChain = NoChain
    Configs = {c1, c2, c3}
    ChainOf <- ThreeConfigs
SPECIFICATION Spec
SYMMETRY SessionSymmetry
INVARIANTS
    NoOrphanTransport
    NoConnectionPastShutdown
    OneConnectionPerChain
