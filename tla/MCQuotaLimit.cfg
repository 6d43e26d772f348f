\* One account, two groups that may be claimed twice, one request, and a limit that
\* changes between its read and the claim.
SPECIFICATION ControlSpec
CONSTANTS
    Accounts = {a1}
    Items = {1, 2}
    NoAccount = NoAccount
    LeaseTime = 1
    RetryDelay = 1
    ClaimBound = 2
    Window = 2
    Limits = {1, 2}
    Requests = {r1}
INVARIANTS
    QuotaLedger
PROPERTIES
    NoReopening
    LimitAsRead
CHECK_DEADLOCK FALSE
