SPECIFICATION FairSpec
CHECK_DEADLOCK FALSE
CONSTANTS
    t1 = t1
    t2 = t2
    Transfers = {t1, t2}
    Members <- MCMembers
    Before = Before
    Nobody = Nobody
    Workloads <- MCWorkloads
INVARIANTS
    WholeFilesOnly
    OldContentSurvives
    SettledReleasesChannel
    NothingLeftLocally
PROPERTIES
    TransferSettles
