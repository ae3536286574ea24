CONSTANTS
    d1 = d1
    d2 = d2
    Absent = Absent
    Data <- MCData
    FileParts <- MCFileParts
    NIds = 5
    MaxParts = 2
    MaxUploads = 1
    MaxFaults = 4
    ListCap = 5
    NKeys = 4
    KeyPos = 4
    DirOf <- MCDirOf
    MaxKeys = 2
    BucketAcl = "private"
    CallerRules <- MCCallerRules
    IntMax <- MCIntMax

SPECIFICATION SessionSpec
CHECK_DEADLOCK FALSE
INVARIANT SessionTypeOK
INVARIANT PartListingExact
INVARIANT CompletedObjectIsFile
INVARIANT NoUploadLeftOpen
INVARIANT ObjectListingExact
INVARIANT LifecycleRoundTrip
PROPERTY SessionFinishes
