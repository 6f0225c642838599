SPECIFICATION FairSpec
CONSTANTS
    c1 = c1
    c2 = c2
    d1 = d1
    d2 = d2
    y1 = y1
    Calls = {c1}
    Defaults = {d1}
    Cycles = {}
    Sent = {"set"}
    QueueCap = 1
    MaxGen = 2
    MaxFail = 1
    NoCall = NoCall
    NoCycle = NoCycle
CHECK_DEADLOCK FALSE
PROPERTIES
    ActorMakesProgress
INVARIANTS
    ReleaseIsNeverLost
    ShutdownIsFinal
