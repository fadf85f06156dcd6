\* Two configs of one chain with a jump host, under the fairness of timers and of the
\* sweeper.
CONSTANTS
    k1 = k1
    k2 = k2
    c1 = c1
    c2 = c2
    c3 = c3
    Sessions = {s1, s2, s3}
    Chains = {k1}
    Length <- OneChain
    MaxSessions = 2
    NoSession = NoSession
    NoChain = NoChain
    Configs = {c1, c2}
    ChainOf <- TwoConfigs
SPECIFICATION FairSpec
INVARIANTS
    NoOrphanTransport
    NoConnectionPastShutdown
    OneConnectionPerChain
PROPERTIES
    ConnectIsAnswered
    StopCompletes
