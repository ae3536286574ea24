CONSTANTS
    c1 = c1
    c2 = c2
    Null = Null
    Texts <- MCTexts
    HttpStatuses = {200, 206, 404, 409}
    SignResults <- MCSignResults
    SendResults <- MCSendResults
    MaxChildren = 2

SPECIFICATION Spec
INVARIANT TypeOK
INVARIANT OutcomeClassified
INVARIANT ServiceErrorFieldsPreserved
