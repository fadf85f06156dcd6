\* One task, a file and a tail shorter than what it writes, two events to a file.
CONSTANTS
    Tasks = {t1}
    Cap = 2
    TailLimit = 1
    MaxEventsPerFile = 2
    MaxDay = 2
    MaxSeq = 3
    MaxMade <- Made
    MaxSets = 1
    MaxRestarts = 1
SPECIFICATION FairSpec
CHECK_DEADLOCK FALSE
INVARIANTS
    OutputIsWhole
    FullReadIsHonest
    JournalInOrder
PROPERTIES
    QueuedOutputIsWritten
