SPECIFICATION Spec
CONSTANTS
    k1 = k1  k2 = k2  g = g  h = h  a = a  b = b  f = f  c = c
    Keys <- MCKeys
    Values <- MCValues
    Groups <- MCGroups
    Size <- MCSize
    Flushers <- MCFlushers
    Closer = c
    NoValue = NoValue
    NoGroup = NoGroup
    JobLimit = 2
    Saves <- MCSaves
    BufferLimit = 4
    MaxSeq = 3
    MaxFail = 0
    MaxCrash = 0
INVARIANT RefusalIsReported
CHECK_DEADLOCK FALSE
