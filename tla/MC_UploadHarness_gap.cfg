CONSTANTS
    hu = hu
    hr = hr
    obj = obj
    b1 = b1
    b2 = b2
    Absent = Absent
    Closed = Closed
    Hu = hu
    Hr = hr
    Obj = obj
    Handles <- MCHandles
    Names <- MCNames
    Bytes <- MCBytes
    FileData <- MCFileData
    ReadSizes = {}
    WriteSizes = {}
    UploadBufSize = 2
    ReadBufSize = 2
    MkBuf <- MCMkBuf
    MaxLen = 3
    MaxBuffers = 2
    ULongMod = 65536
    LostReplies = FALSE

SPECIFICATION Spec
\* main() returns after testReadFile: the final state has no successor.
CHECK_DEADLOCK FALSE
INVARIANT UploadedIsFilePrefix
