SPECIFICATION Spec
CONSTANTS
    c1 = c1
    c2 = c2
    d1 = d1
    d2 = d2
    y1 = y1
    Calls = {c1, c2}
    Defaults = {d1, d2}
    Cycles = {y1}
    Sent = {"pause", "resume"}
    QueueCap = 1
    MaxGen = 2
    MaxFail = 1
    NoCall = NoCall
    NoCycle = NoCycle
CHECK_DEADLOCK FALSE
SYMMETRY MCSymmetry
INVARIANTS
    TypeOK
    NoStaleCommandRuns
    CommandsAreGated
    ConfirmedMeansDefault
    ResumeFollowsItsPause
