CONSTANTS
    t1 = t1
    t2 = t2
    t3 = t3
    s1 = s1
    s2 = s2
    s3 = s3
    n1 = n1
    b1 = b1
    Absent = Absent
    Closed = Closed
    NoThread = NoThread
    None = None
    Threads <- MCThreads
    Handles <- MCSessions
    Names <- MCNames
    Bytes <- MCBytes
    ReadSizes <- MCReadSizes
    WriteSizes <- MCWriteSizes
    MaxLen = 2
    MaxBuffers = 1
    ULongMod = 65536
    LostReplies = FALSE

SPECIFICATION Spec
INVARIANT RecordingAppendsAtObjectEnd
