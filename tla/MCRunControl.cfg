\* One account, two groups, and two requests served at the same time.
SPECIFICATION ControlSpec
CONSTANTS
    Accounts = {a1}
    Items = {1, 2}
    NoAccount = NoAccount
    LeaseTime = 1
    RetryDelay = 1
    ClaimBound = 1
    Window = 1
    Limits = {1}
    Requests = {r1, r2}
SYMMETRY RequestSymmetry
INVARIANTS
    SetAsideRowsReturn
PROPERTIES
    HaltedRunRests
CHECK_DEADLOCK FALSE
