CONSTANTS
    c1 = c1
    c2 = c2
    Null = Null
    Texts <- MCTexts
    HttpStatuses = {200, 409}
    SignResults <- MCSignResults
    SendResults <- MCSendResults
    IoInitResults <- MCIoInitResults
    OwnBucketAnswers = {200, 409}
    MaxChildren = 2

SPECIFICATION Spec
INVARIANT AlreadyExistsIsSuccess
