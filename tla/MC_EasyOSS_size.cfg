CONSTANTS
    w1 = w1
    r1 = r1
    n1 = n1
    b1 = b1
    b2 = b2
    Absent = Absent
    Closed = Closed
    Writers <- MCWriters
    Readers <- MCReaders
    Handles <- MCHandles
    Names <- MCNames
    Bytes <- MCBytes
    ReadSizes <- MCReadSizes
    WriteSizes <- MCWriteSizes
    MaxLen = 2
    MaxBuffers = 2
    ULongMod = 65536
    LostReplies = FALSE

SPECIFICATION Spec
INVARIANT SizeReQueryFresh
