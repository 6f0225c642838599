SPECIFICATION FairSpec
CONSTANTS
    QueueTicks = 2
    QueueBytes = 3
    CommitTicks = 2
    Size <- MCSize
    Time <- MCTime
    Flushers = {"f"}
    MaxTick = 3
    MaxFail = 1
    MaxCrash = 1
INVARIANTS QueueIsConsistent AcknowledgedIsDurable ArchiveWaitsForTicks
PROPERTIES ExactlyOnce WaitersReturn
CHECK_DEADLOCK FALSE
