SPECIFICATION FairSpec
CONSTANTS
    k1 = k1  k2 = k2  g = g  h = h  a = a  b = b  f = f  c = c
    Keys <- MCKeys
    Values <- MCValues
    Groups <- MCGroups
    Size <- MCSize
    Flushers <- MCFlushers
    Closer = c
    NoValue = NoValue
    NoGroup = NoGroup
    JobLimit = 2
    Saves <- MCSaves
    BufferLimit = 5
    MaxSeq = 2
    MaxFail = 1
    MaxCrash = 1
INVARIANTS FlushIsDurable ReadersSeeTheDisk
PROPERTIES CommitSequenceGrows WritesComplete
CHECK_DEADLOCK FALSE
