SPECIFICATION Spec
CONSTANTS
    Runs = {r1, r2}
    Ids = {i1, i2}
    NoId = NoId
    MaxToken = 3
    MaxQueue = 4
INVARIANTS
    CaptureTypeOK
    OwnToken
    FreshToken
    NoTokenKept
