\* Three processes, one of them killed. A client that gave up and asks again spawns
\* the next daemon while the last one starts.
CONSTANTS
    Daemons = {d1, d2, d3}
    Clients = {c1}
    Attempts = 1
    RestartLimit = 1
    NoDaemon = NoDaemon
    MaxKills = 1
SPECIFICATION FairSpec
PROPERTIES
    SpawnLeadsToService
    FatalIsReplaced
\* The processes of the instance run out.
CHECK_DEADLOCK FALSE
